------------------------------- MODULE MCRelay -------------------------------
(***************************************************************************)
(* Instances of Relay for TLC.                                             *)
(***************************************************************************)
EXTENDS MCOperations, RelayClaims, TLC

Hashes == <<"A", "B", "C", "D", "E", "F", "G", "H">>

SendTo(recipient) == [sender |-> o, token |-> MCXRP, amount |-> 7, recipient |-> recipient]

GoodOrRefusedSends == {SendTo("x1"), SendTo("bad")}

\* Relayers whose XRPL address is called as they are
SymmetricRelayers == {MCRelayer(r, r) : r \in {r1, r2, r3}}
RelayerSymmetry == Permutations({r1, r2, r3})

\* Two quorums that do not meet
FourRelayers == {MCRelayer(r, r) : r \in {r1, r2, r3, r4}}
FourSymmetry == Permutations({r1, r2, r3, r4})

\* r2 stays and r3 replaces r1
ReplaceR1 ==
  {[new_relayers |-> {MCRelayer(r2, "x2"), MCRelayer(r3, "x3")}, new_evidence_threshold |-> 2]}

TwoOfTwo == {MCRelayer(r1, "x1"), MCRelayer(r2, "x2")}

=============================================================================
