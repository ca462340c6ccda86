---------------------------- MODULE DeviceAccess ----------------------------
(***************************************************************************)
(* How a device comes to be trusted by a vault and ceases to be: the       *)
(* invitation, the claim of the new device, the decision on the inviting   *)
(* device and the delivery of the credentials                              *)
(* (apps/server/src/trusted-pairing.ts and its routes in app.ts; the new   *)
(* device is plugin/src/ui.ts), the revocation of a device, and the        *)
(* operator's containment and retirement of the vault (containment.ts,     *)
(* vault-retirement.ts).                                                   *)
(*                                                                         *)
(* Requests of the new device and their answers may be lost, and the owner *)
(* may give up at any moment. One vault; an attempt to connect is made     *)
(* once and owns at most one claim, whose ticket it alone knows. What the  *)
(* credentials contain and how they are sealed is left out.                *)
(***************************************************************************)
EXTENDS Naturals, Sequences, FiniteSets

CONSTANTS Attempts,      \* attempts of new devices to connect
          Invitations,   \* pairings the trusted devices may create
          None,
          MaxOwn,        \* bound: devices connected with the storage credentials
          MaxLost        \* bound: lost requests and answers

ASSUME NoneAssumption == None \notin Attempts \cup Invitations

VARIABLES
    devices,     \* devices: a sequence of [claim, revoked], the id is the place
    vault,       \* [retired, held]: held is a containment that allows another vault
    invitation,  \* pairings: [state, by, code, qr], the last two while unexpired
    claim,       \* trusted_pairing_claims of the attempt: [state, from, by, live, device]
    new,         \* the new device: [at, uses, poll, cancel]: where it is, the pairing and
                 \* secret it uses, its poll request or the answer, its cancel request
    lost,        \* messages lost so far
    approved     \* history: the claims a trusted inviting device approved

vars == <<devices, vault, invitation, claim, new, lost, approved>>

NoUse == [from |-> None, secret |-> "none"]

\* The first device was connected with the owner's storage credentials.
Init ==
    /\ devices = <<[claim |-> None, revoked |-> FALSE]>>
    /\ vault = [retired |-> FALSE, held |-> FALSE]
    /\ invitation = [i \in Invitations |->
                        [state |-> "none", by |-> 0, code |-> FALSE, qr |-> FALSE]]
    /\ claim = [a \in Attempts |->
                   [state |-> "none", from |-> None, by |-> 0, live |-> FALSE, device |-> 0]]
    /\ new = [a \in Attempts |->
                 [at |-> "idle", uses |-> NoUse, poll |-> "none", cancel |-> FALSE]]
    /\ lost = 0 /\ approved = {}

Ids       == 1 .. Len(devices)
Trusted(d) == d \in Ids /\ ~devices[d].revoked
\* authenticate
Serves(d) == Trusted(d) /\ ~vault.retired /\ ~vault.held

-----------------------------------------------------------------------------
(* The trusted devices and the operator                                     *)

\* Another device of the owner, connected with the storage credentials.
Setup ==
    /\ Cardinality({d \in Ids : devices[d].claim = None}) < MaxOwn /\ ~vault.retired
    /\ devices' = Append(devices, [claim |-> None, revoked |-> FALSE])
    /\ UNCHANGED <<vault, invitation, claim, new, lost, approved>>

\* A code of one minute and a QR of ten, for one new device.
Invite(d, i) ==
    /\ Serves(d) /\ invitation[i].state = "none"
    /\ invitation' = [invitation EXCEPT
                         ![i] = [state |-> "open", by |-> d, code |-> TRUE, qr |-> TRUE]]
    /\ UNCHANGED <<devices, vault, claim, new, lost, approved>>

Decide(d, a) ==
    /\ Serves(d) /\ claim[a].state = "pending" /\ claim[a].live /\ claim[a].by = d
    /\ \/ /\ claim' = [claim EXCEPT ![a].state = "approved"]
          /\ approved' = approved \union {a}
       \/ claim' = [claim EXCEPT ![a].state = "rejected"] /\ UNCHANGED approved
    /\ UNCHANGED <<devices, vault, invitation, new, lost>>

Revoke(d, e) ==
    /\ Serves(d) /\ Trusted(e)
    /\ devices' = [devices EXCEPT ![e].revoked = TRUE]
    /\ UNCHANGED <<vault, invitation, claim, new, lost, approved>>

Control(field) ==
    /\ vault' = [vault EXCEPT ![field] = ~@]
    /\ UNCHANGED <<devices, invitation, claim, new, lost, approved>>

\* retire and restore; containment enabled for another vault and disabled
Retire  == Control("retired")
Contain == Control("held")

-----------------------------------------------------------------------------
(* Time                                                                     *)

Expire(i) ==
    /\ invitation[i].state = "open"
    /\ \/ invitation[i].code /\ invitation' = [invitation EXCEPT ![i].code = FALSE]
       \/ /\ ~invitation[i].code /\ invitation[i].qr
          /\ invitation' = [invitation EXCEPT ![i].qr = FALSE]
    /\ UNCHANGED <<devices, vault, claim, new, lost, approved>>

ExpireClaim(a) ==
    /\ claim[a].live /\ claim' = [claim EXCEPT ![a].live = FALSE]
    /\ UNCHANGED <<devices, vault, invitation, new, lost, approved>>

-----------------------------------------------------------------------------
(* The server answers the new device                                        *)

Goes(a, at)   == new' = [new EXCEPT ![a].at = at]
ServerFrame   == UNCHANGED <<vault, lost, approved>>

Claimable(i, secret) ==
    /\ invitation[i].state = "open" /\ invitation[i][secret] /\ Trusted(invitation[i].by)

\* TrustedPairing.claim
Claim(a) ==
    LET i == new[a].uses.from IN
    /\ new[a].at \in {"asking", "leaving"} /\ claim[a].state = "none"
    /\ IF Claimable(i, new[a].uses.secret)
       THEN /\ invitation' = [invitation EXCEPT ![i].state = "consumed"]
            /\ claim' = [claim EXCEPT ![a] = [state |-> "pending", from |-> i,
                            by |-> invitation[i].by, live |-> TRUE, device |-> 0]]
            /\ new' = [new EXCEPT ![a].poll = "claimed"]
       ELSE UNCHANGED <<invitation, claim>> /\ Goes(a, "refused")
    /\ UNCHANGED devices /\ ServerFrame

Answers(a, answer) == new' = [new EXCEPT ![a].poll = answer]

\* Mutant: the credentials are delivered once.
RedeliverOnce(a) == claim[a].state = "consumed" /\ Answers(a, "refused")

\* A claim already consumed is answered again with the same credentials.
Redeliver(a) ==
    /\ claim[a].state = "consumed"
    /\ Answers(a, IF Trusted(claim[a].device) THEN "approved" ELSE "refused")

\* Mutant: every approved poll registers a device.
RegisterAgain(a) ==
    /\ claim[a].state \in {"approved", "consumed"} /\ ~vault.retired
    /\ devices' = Append(devices, [claim |-> a, revoked |-> FALSE])
    /\ claim' = [claim EXCEPT ![a].state = "consumed", ![a].device = Len(devices) + 1]
    /\ Answers(a, "approved")

Register(a) ==
    /\ claim[a].state = "approved" /\ ~vault.retired
    /\ devices' = Append(devices, [claim |-> a, revoked |-> FALSE])
    /\ claim' = [claim EXCEPT ![a].state = "consumed", ![a].device = Len(devices) + 1]
    /\ Answers(a, "approved")

\* The inviting device is trusted still, and the claim's five minutes are not over.
Valid(a) == claim[a].live /\ Trusted(claim[a].by)

\* TrustedPairing.poll
ServePoll(a) ==
    /\ new[a].poll = "sent"
    /\ \/ Valid(a) /\ Register(a)
       \/ /\ Valid(a) /\ Redeliver(a) /\ UNCHANGED <<devices, claim>>
       \/ /\ Valid(a) /\ claim[a].state = "pending" /\ Answers(a, "pending")
          /\ UNCHANGED <<devices, claim>>
       \/ /\ \/ ~Valid(a) \/ claim[a].state \in {"rejected", "cancelled"}
             \/ claim[a].state = "approved" /\ vault.retired
          /\ Answers(a, "refused") /\ UNCHANGED <<devices, claim>>
    /\ UNCHANGED invitation /\ ServerFrame

\* Mutant: a device that was registered meanwhile keeps its access.
CancelOnly(a) ==
    /\ claim' = [claim EXCEPT ![a].state = "cancelled"] /\ UNCHANGED devices

\* What TrustedPairing.cancel does to a claim that has not expired.
CancelClaim(a) ==
    /\ claim' = [claim EXCEPT ![a].state = "cancelled"]
    /\ devices' = [d \in Ids |-> IF d = claim[a].device
                                 THEN [devices[d] EXCEPT !.revoked = TRUE] ELSE devices[d]]

ServeCancel(a) ==
    /\ new[a].cancel
    /\ IF claim[a].live THEN CancelClaim(a) ELSE UNCHANGED <<claim, devices>>
    /\ new' = [new EXCEPT ![a].cancel = FALSE]
    /\ UNCHANGED invitation /\ ServerFrame

-----------------------------------------------------------------------------
(* The new device: claimQuickCodeSetup and DeviceApprovalWaitModal          *)

NewFrame == UNCHANGED <<devices, vault, invitation, claim, approved>>

Ask(a, i, secret) ==
    /\ new[a].at = "idle" /\ invitation[i].state # "none"
    /\ new' = [new EXCEPT ![a].at = "asking", ![a].uses = [from |-> i, secret |-> secret]]
    /\ NewFrame /\ UNCHANGED lost

\* The claim is answered. The ticket of a claim given up meanwhile is cancelled.
Claimed(a) ==
    /\ new[a].poll = "claimed"
    /\ new' = [new EXCEPT ![a].poll = "none",
                          ![a].at = IF new[a].at = "asking" THEN "waiting" ELSE "gone",
                          ![a].cancel = (new[a].at = "leaving")]
    /\ NewFrame /\ UNCHANGED lost

\* Every second and a half, until the claim expires.
Poll(a) ==
    /\ new[a].at = "waiting" /\ new[a].poll = "none"
    /\ IF claim[a].live THEN Answers(a, "sent") ELSE Goes(a, "refused")
    /\ NewFrame /\ UNCHANGED lost

\* The answer: credentials are opened, a refusal ends the attempt, anything else is
\* polled again; credentials for an attempt given up are cancelled.
Answered(a) ==
    /\ new[a].poll \in {"approved", "refused", "pending", "lost"}
    /\ LET next == IF new[a].at # "waiting" THEN new[a].at
                   ELSE CASE new[a].poll = "approved" -> "opening"
                          [] new[a].poll = "refused" -> "refused"
                          [] OTHER -> "waiting"
       IN  new' = [new EXCEPT ![a].poll = "none", ![a].at = next,
                     ![a].cancel = (@ \/ (new[a].at = "gone" /\ new[a].poll = "approved"))]
    /\ NewFrame /\ UNCHANGED lost

\* The envelope is opened and the connection saved.
Accept(a) ==
    /\ new[a].at = "opening" /\ Goes(a, "connected") /\ NewFrame /\ UNCHANGED lost

\* The owner closes the dialog. While the envelope is opened nothing is cancelled.
GiveUp(a) ==
    /\ \/ new[a].at = "asking" /\ Goes(a, "leaving")
       \/ /\ new[a].at = "waiting"
          /\ new' = [new EXCEPT ![a].at = "gone", ![a].cancel = TRUE]
       \/ new[a].at = "opening" /\ Goes(a, "gone")
    /\ NewFrame /\ UNCHANGED lost

\* A request or its answer does not arrive; one of a claim ends the attempt.
Lose(a) ==
    /\ lost < MaxLost /\ lost' = lost + 1
    /\ \/ new[a].poll = "claimed" /\ new' = [new EXCEPT ![a].poll = "none", ![a].at = "refused"]
       \/ new[a].poll \in {"sent", "approved", "refused", "pending"} /\ Answers(a, "lost")
       \/ new[a].cancel /\ new' = [new EXCEPT ![a].cancel = FALSE]
    /\ NewFrame

-----------------------------------------------------------------------------
Serve(a) == Claim(a) \/ ServePoll(a) \/ ServeCancel(a)
Wait(a)  == Claimed(a) \/ Poll(a) \/ Answered(a) \/ Accept(a)

Next ==
    \/ Setup \/ Retire \/ Contain
    \/ \E d \in Ids : \/ \E i \in Invitations : Invite(d, i)
                      \/ \E a \in Attempts : Decide(d, a)
                      \/ \E e \in Ids : Revoke(d, e)
    \/ \E i \in Invitations : Expire(i)
    \/ \E a \in Attempts : \/ ExpireClaim(a) \/ GiveUp(a) \/ Lose(a) \/ Serve(a) \/ Wait(a)
                           \/ \E i \in Invitations, s \in {"code", "qr"} : Ask(a, i, s)

\* The server answers and the dialog goes on polling; the messages that are lost
\* are finitely many. Nobody has to invite, decide or give up.
Fairness == \A a \in Attempts : WF_vars(Serve(a)) /\ WF_vars(Wait(a))

Spec == Init /\ [][Next]_vars /\ Fairness

-----------------------------------------------------------------------------
(* Properties                                                               *)

\* A device joins by invitation only when a device that was trusted approved its
\* claim and the inviting device is trusted still; and an invitation, with its code
\* and its QR, its repeated polls and lost answers, connects one device.
JoinIsApproved ==
    [][Len(devices') > Len(devices) =>
          LET a == devices'[Len(devices')].claim IN
          a # None => /\ a \in approved /\ Trusted(claim[a].by) /\ ~vault.retired
                      /\ \A d \in Ids : devices[d].claim # None =>
                            claim[devices[d].claim].from # claim[a].from]_vars

\* Once the cancellation of an attempt has reached the server, no device of it has
\* access, whether the credentials were on their way or not.
CancelledIsOut ==
    \A a \in Attempts : claim[a].state = "cancelled" =>
        \A d \in Ids : devices[d].claim = a => devices[d].revoked

\* An approved attempt connects, however often the answer with the credentials is
\* lost, unless it expires, is given up or trust is withdrawn (also when the refusal
\* of a retired vault is still on its way while the vault is restored).
ApprovedConnects ==
    \A a \in Attempts :
        (claim[a].state = "approved" /\ new[a].at = "waiting" /\ new[a].poll # "refused") ~>
            \/ new[a].at = "connected" /\ Trusted(claim[a].device)
            \/ ~claim[a].live \/ new[a].at = "gone"
            \/ ~Trusted(claim[a].by) \/ vault.retired
            \/ (claim[a].device # 0 /\ ~Trusted(claim[a].device))
=============================================================================
