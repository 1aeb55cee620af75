---------------------------- MODULE MCServeWrapper ----------------------------
(* Instances of ServeWrapper: two calls and a describe on one container.   *)
EXTENDS ServeWrapper, TLC

CONSTANTS a, b, d

Setup(threads, serving, priming, bestEffort, prints) ==
  [threads |-> threads, serving |-> serving, priming |-> priming,
   bestEffort |-> bestEffort, prints |-> prints]

(* One thread with strict and with best-effort priming, two threads with   *)
(* best-effort priming and user code that prints blank lines, and a        *)
(* container without serve.                                                *)
AllSetups == {Setup(1, TRUE, TRUE, FALSE, {}),
              Setup(1, TRUE, TRUE, TRUE, {}),
              Setup(2, TRUE, TRUE, TRUE, {Blank}),
              Setup(2, FALSE, FALSE, FALSE, {Noise})}

TwoThreads == {Setup(2, TRUE, FALSE, FALSE, {})}
Printing   == {Setup(1, TRUE, FALSE, FALSE, {Noise})}
===============================================================================
