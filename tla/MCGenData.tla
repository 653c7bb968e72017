----------------------------- MODULE MCGenData -----------------------------
(***************************************************************************)
(* The generator on all answers of a few URLs.                             *)
(***************************************************************************)
EXTENDS GenData

CONSTANTS
  MaxCount,  \* bound: count of a URL in the answer
  MaxSize    \* bound: bytes asked for

MCUrl == 1 .. 2
MCUrlLen == <<1, 3>>
MCAnswers == UNION {[us -> 1 .. MaxCount] : us \in SUBSET MCUrl}
MCSizes == 0 .. MaxSize

=============================================================================
