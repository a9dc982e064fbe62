---------------------------- MODULE MCHttpProxy ----------------------------
(* Instances of HttpProxy for TLC *)
EXTENDS HttpProxy, TLC

\* One client sends a request with its blank line, or one that asks to keep the
\* connection, or one that has a header line without a colon before the blank
\* line and a colon at its end (what arrives first of it may be a request line
\* alone or a text without any colon); the other sends a line without GET.
SomeRequests == "c1" :> {<<"G", "A", "r", "n", "r", "n">>,
                         <<"G", "A", "r", "n", "K", ":", "k", "r", "n", "r", "n">>,
                         <<"G", "A", "r", "n", "x", "r", "n", "r", "n", ":">>}
             @@ "c2" :> {<<"r", "n">>}
TwoParts == <<"1", "2">>
=============================================================================
