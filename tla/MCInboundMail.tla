---------------------------- MODULE MCInboundMail ---------------------------
(* Instances of InboundMail for TLC.                                          *)
EXTENDS InboundMailProperties, TLC

TwoMails   == 1..2
ThreeMails == 1..3

\* Polls and handlers share nothing but the mails and what is recorded of the message: a run
\* has either the one or the other.
Apart ==
  \/ \A h \in Handlers : at[h] = "idle"
  \/ checkpoint = 0 /\ \A p \in Polls : pollAt[p] = "idle"
ApartNext == Next /\ Apart'

\* The headers of these mails decide their correlation, so the two addresses are alike: the
\* first mail that names its sender is the recipient's.
ApartInit ==
  /\ Init
  /\ \A m \in Messages : sender[m] = "other" => \E n \in Messages : n < m /\ sender[n] = "recipient"
ApartSpec == ApartInit /\ [][ApartNext]_vars

RunSymmetry == Permutations(Handlers) \cup Permutations(Polls)
=============================================================================
