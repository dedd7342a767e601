-------------------------- MODULE MCStaticProfiler --------------------------
EXTENDS StaticProfiler

\* 20 W .. 30 W has a step of 5 W and three caps; 2 W .. 22 W a step above its
\* lowest limit; 0 .. 0 is what a failing NVML call reports.
MCRanges == {[low |-> 20000000, high |-> 30000000],
             [low |-> 2000000, high |-> 22000000], [low |-> 0, high |-> 0]}

\* Sums of two with equal energies and different times, and times more than
\* 60 percent apart.
MCMeasures == {[energy |-> 4, time |-> 4], [energy |-> 3, time |-> 7]}
MCPartial == {[energy |-> 2, time |-> 1]}

MCCommandLines == {<<"app", "x">>, <<"--gpu=0", "app">>, <<"--gpu=0", "app", "x">>}

=============================================================================
