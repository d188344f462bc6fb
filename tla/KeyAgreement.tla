----------------------------- MODULE KeyAgreement -----------------------------
(***************************************************************************)
(* What the LLP handshake promises, without its messages: a client run     *)
(* commits itself to one contract, with the server run, the session id and *)
(* the keys it has understood; a server run settles only on a contract     *)
(* that it means and that a client run has committed itself to; and a      *)
(* client run adopts the contract it has committed itself to, or none.     *)
(*                                                                         *)
(* The promise is one-sided: Settle waits for the client's Offer, but      *)
(* Adopt does not wait for Settle, because the tag that a client expects   *)
(* from the server is the one it has sent itself.                          *)
(*                                                                         *)
(* Handshake implements this specification (property RefinesAgreement).    *)
(***************************************************************************)
CONSTANTS Clients, Servers, Profiles, SessionIds, None

VARIABLES profile,      \* profile[c]: the mimicry profile client run c asks for
          sid,          \* sid[s]: the session id server run s assigns
          offered,      \* offered[c]: the contract client run c has committed to, or None
          settled,      \* settled[s]: the contract of server run s, or None
          adopted       \* adopted[c]: the contract of client run c, or None

agreementVars == <<profile, sid, offered, settled, adopted>>

\* The contract of c and s when each has understood the other.
Contract(c, s) ==
    [client |-> c, server |-> s, profile |-> profile[c], sid |-> sid[s], intact |-> TRUE]

AgreementInit ==
    /\ profile \in [Clients -> Profiles]
    /\ sid \in [Servers -> SessionIds]
    /\ offered = [c \in Clients |-> None]
    /\ settled = [s \in Servers |-> None]
    /\ adopted = [c \in Clients |-> None]

\* The client may have understood another session id, or another key.
Offer(c) ==
    /\ offered[c] = None
    /\ \E s \in Servers, i \in SessionIds, intact \in BOOLEAN :
          offered' = [offered EXCEPT ![c] = [client |-> c, server |-> s, profile |-> profile[c],
                                             sid |-> i, intact |-> intact]]
    /\ UNCHANGED <<profile, sid, settled, adopted>>

Settle(s, c) ==
    /\ settled[s] = None
    /\ offered[c] = Contract(c, s)
    /\ settled' = [settled EXCEPT ![s] = offered[c]]
    /\ UNCHANGED <<profile, sid, offered, adopted>>

Adopt(c) ==
    /\ adopted[c] = None
    /\ offered[c] # None
    /\ adopted' = [adopted EXCEPT ![c] = offered[c]]
    /\ UNCHANGED <<profile, sid, offered, settled>>

AgreementNext ==
    \E c \in Clients : Offer(c) \/ Adopt(c) \/ \E s \in Servers : Settle(s, c)

AgreementSpec == AgreementInit /\ [][AgreementNext]_agreementVars
=============================================================================
