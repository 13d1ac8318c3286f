--------------------------- MODULE MCGraphExecutor ----------------------------
(***************************************************************************)
(* GraphExecutor for TLC: three graphs of up to three kernels besides the  *)
(* one the arguments come from, and what SubGraph leaves of them.          *)
(***************************************************************************)
EXTENDS GraphExecutor

MCKernels == {"k0", "k1", "k2", "k3"}
MCValues == {"a", "b", "c", "d", "e"}

Described(inputNames, outputNames, name) ==
  [mInputNames |-> inputNames, mOutputNames |-> outputNames, mFuncName |-> name]

\* One argument, two kernels that run side by side, one that joins them and
\* has the only result; the node the arguments come from is the last.
Diamond ==
  <<Described(<<"b", "c">>, <<"d">>, "k3"), Described(<<"a">>, <<"b">>, "k1"),
    Described(<<"a">>, <<"c">>, "k2"), Described(<<>>, <<"a">>, "k0")>>

\* Two arguments, a kernel with two outputs of which one is a result, and
\* another result behind it.
Fork ==
  <<Described(<<>>, <<"a", "b">>, "k0"), Described(<<"a", "b">>, <<"c", "d">>, "k1"),
    Described(<<"b", "c">>, <<"e">>, "k2")>>

\* A value that a kernel returns and two kernels take.
Broadcast ==
  <<Described(<<>>, <<"a">>, "k0"), Described(<<"a">>, <<"b">>, "k1"),
    Described(<<"b">>, <<"c">>, "k2"), Described(<<"b">>, <<"d">>, "k3")>>

MCPlans == {Diamond, Fork, Broadcast}
\* Of the first graph all is needed for it, of the second only one kernel.
MCRequests == {<<"d">>}
===============================================================================
