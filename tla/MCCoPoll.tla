------------------------------ MODULE MCCoPoll ------------------------------
(* The calls of the checked instances of CoPoll: three coroutines, of which a *)
(* and b share a stack.                                                       *)
EXTENDS CoPoll

CONSTANTS a, b, c

MCAttrs == {<<a, TRUE>>, <<b, TRUE>>, <<c, FALSE>>}

\* No descriptor, one, and timeouts that are negative, zero, in the wheel and
\* above eMaxTimeout.  Two coroutines poll the same descriptor.
MCPollArgs == {<<a, {}, 0>>, <<a, Fds, -1>>, <<a, Fds, 2>>, <<b, Fds, 2>>}

\* b and c can wait for each other's signals without a timeout.
MCWaits == {<<a, 1>>, <<b, -1>>, <<c, -1>>}

=============================================================================
