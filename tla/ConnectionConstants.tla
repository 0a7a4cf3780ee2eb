------------------------ MODULE ConnectionConstants ------------------------
(* Whom a ConnectionStore is about.                                         *)
EXTENDS Naturals

CONSTANTS
    Tokens,     \* the tokens the gateway issues, one per pairing
    Requests,   \* the authenticated requests the user causes
    NoToken,    \* nobody is paired
    MaxChain    \* bound: the longest chain that Unpair still joins

ASSUME ConnectionAssumption == NoToken \notin Tokens /\ MaxChain \in Nat
=============================================================================
