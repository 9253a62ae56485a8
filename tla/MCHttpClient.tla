---------------------------- MODULE MCHttpClient ----------------------------
(* Instances of HttpClient for TLC. *)
EXTENDS HttpClient

(* The object's memory held anything before. *)
AnyLeftover == [shutdown : BOOLEAN, relax : {"finite", "forever"}]

=============================================================================
