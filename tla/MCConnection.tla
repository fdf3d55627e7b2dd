---------------------------- MODULE MCConnection -----------------------------
(* The requests and pieces of the checked instance of Connection. *)
EXTENDS Connection

MCHeads == {<<"Host", "here">>, <<"Connection", "close">>,
            <<"Connection", "keep-alive">>, <<"Connection", "Keep-Alive">>}
MCRequests == [URI : {"root", "hello"}, heads : SeqOf(MCHeads, 2)]

MCKept == Render([URI |-> "root", heads |-> <<<<"Connection", "close">>,
                                             <<"Connection", "keep-alive">>>>])
MCClosed == Render([URI |-> "hello", heads |-> << >>])
\* A request to keep the connection, one that does not ask for it, and the
\* beginning of a request: cut inside its header.
MCPieces == {MCKept, MCClosed, SubSeq(MCKept, 1, 9)}

=============================================================================
