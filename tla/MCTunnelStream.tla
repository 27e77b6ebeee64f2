--------------------------- MODULE MCTunnelStream ---------------------------
(* Bounded instances of TunnelStream for TLC. *)
EXTENDS TunnelStream

\* Both applications talk; one side sends more than a window.
BytesBoth == [e \in Ends |-> IF e = "src" THEN 2 ELSE 3]
\* Only the target talks (the download a tunnel usually carries).
BytesDown == [e \in Ends |-> IF e = "src" THEN 0 ELSE 4]
BytesOne == [e \in Ends |-> 1]
BytesMixed == [e \in Ends |-> IF e = "src" THEN 1 ELSE 3]
=============================================================================
