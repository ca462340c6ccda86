-------------------------- MODULE DeviceAccessProofs --------------------------
(***************************************************************************)
(* Proofs about DeviceAccess for any attempts, invitations and losses: the *)
(* types, that a device joins only with an approval and one for each       *)
(* invitation (JoinIsApproved), and that a cancelled attempt is out        *)
(* (CancelledIsOut).                                                       *)
(*                                                                         *)
(* Both follow from the books the server keeps: an invitation is consumed  *)
(* by one claim, a claim has one device, and that device names the claim.  *)
(***************************************************************************)
EXTENDS DeviceAccess, TLAPS, SequenceTheorems, WellFoundedInduction

Devices == [claim : Attempts \cup {None}, revoked : BOOLEAN]

Invites == [state : {"none", "open", "consumed"}, by : Nat, code : BOOLEAN, qr : BOOLEAN]
Claims  == [state : {"none", "pending", "approved", "rejected", "consumed", "cancelled"},
            from : Invitations \cup {None}, by : Nat, live : BOOLEAN, device : Nat]
Places  == {"idle", "asking", "leaving", "waiting", "opening", "connected", "gone", "refused"}
Polls   == {"none", "claimed", "sent", "pending", "approved", "refused", "lost"}
Uses    == [from : Invitations \cup {None}, secret : {"none", "code", "qr"}]
News    == [at : Places, uses : Uses, poll : Polls, cancel : BOOLEAN]

TypeOK ==
    /\ devices \in Seq(Devices)
    /\ vault \in [retired : BOOLEAN, held : BOOLEAN]
    /\ invitation \in [Invitations -> Invites]
    /\ claim \in [Attempts -> Claims]
    /\ new \in [Attempts -> News]
    /\ lost \in Nat
    /\ approved \subseteq Attempts

\* Who asks, asks with an invitation.
AsksWithOne ==
    \A a \in Attempts : new[a].at # "idle" => new[a].uses.from \in Invitations

\* An invitation is consumed by one claim.
OneClaimEach ==
    /\ \A a \in Attempts : claim[a].state # "none" =>
          /\ claim[a].from \in Invitations
          /\ invitation[claim[a].from].state = "consumed"
    /\ \A a, b \in Attempts : /\ claim[a].state # "none" /\ claim[b].state # "none"
                              /\ claim[a].from = claim[b].from
                              => a = b
    /\ \A a \in Attempts : claim[a].live => claim[a].state # "none"

\* Credentials are for a claim that a trusted device approved.
ApprovedFirst ==
    \A a \in Attempts : claim[a].state \in {"approved", "consumed"} => a \in approved

\* A device that joined by invitation is the one its claim names.
OneDeviceEach ==
    \A d \in Ids : devices[d].claim # None =>
        /\ claim[devices[d].claim].device = d
        /\ claim[devices[d].claim].state \in {"consumed", "cancelled"}

Booked ==
    /\ TypeOK /\ AsksWithOne
    /\ OneClaimEach /\ ApprovedFirst /\ OneDeviceEach /\ CancelledIsOut

-----------------------------------------------------------------------------
(* The sequence of devices                                                  *)

\* Ids are the places of the sequence.
LEMMA DeviceTypes ==
    ASSUME TypeOK
    PROVE  Len(devices) \in Nat /\ Ids = 1..Len(devices) /\ \A d \in Ids : devices[d] \in Devices
BY LenProperties, ElementOfSeq DEF TypeOK, Ids

\* What the proofs use of the devices from one state to the next.
DevicesKept ==
    /\ devices' \in Seq(Devices)
    /\ Ids \subseteq Ids'
    /\ \A d \in Ids : /\ devices'[d].claim = devices[d].claim
                      /\ devices[d].revoked => devices'[d].revoked

\* A device that joins leaves those before it as they were.
LEMMA Joins ==
    ASSUME TypeOK, NEW row \in Devices, devices' = Append(devices, row)
    PROVE  /\ DevicesKept
           /\ Len(devices) + 1 \notin Ids
           /\ Len(devices') = Len(devices) + 1
           /\ Ids' = Ids \cup {Len(devices) + 1}
           /\ \A d \in Ids : devices'[d] = devices[d]
           /\ devices'[Len(devices) + 1] = row
<1>1. /\ devices' \in Seq(Devices)
      /\ Len(devices') = Len(devices) + 1
      /\ \A d \in Ids : devices'[d] = devices[d]
      /\ devices'[Len(devices) + 1] = row
  BY AppendProperties DEF TypeOK, Ids
<1>2. Ids' = Ids \cup {Len(devices) + 1} /\ Len(devices) + 1 \notin Ids
  BY <1>1, DeviceTypes DEF Ids
<1> QED
  BY <1>1, <1>2 DEF DevicesKept

\* Revocation leaves everything but the mark as it was.
LEMMA Withdraws ==
    ASSUME TypeOK, NEW D \in SUBSET Ids,
           devices' = [d \in Ids |-> IF d \in D THEN [devices[d] EXCEPT !.revoked = TRUE]
                                     ELSE devices[d]]
    PROVE  /\ DevicesKept /\ Ids' = Ids
           /\ \A d \in D : devices'[d].revoked
           /\ Len(devices') = Len(devices)
<1>1. devices' \in [1..Len(devices) -> Devices]
  BY DeviceTypes DEF Devices
<1>2. devices' \in Seq(Devices) /\ Len(devices') = Len(devices)
  BY <1>1, DeviceTypes, LenProperties
<1>3. Ids' = Ids
  BY <1>2 DEF Ids
<1>4. \A d \in Ids : /\ devices'[d].claim = devices[d].claim
                     /\ devices[d].revoked => devices'[d].revoked
                     /\ d \in D => devices'[d].revoked
  BY DeviceTypes DEF Devices
<1> QED
  BY <1>2, <1>3, <1>4 DEF DevicesKept

-----------------------------------------------------------------------------
(* The parts of the invariant from one state to the next                    *)

\* Devices change when one connects, registers, is cancelled or is revoked.
LEMMA DevicesChange ==
    [Next]_vars => \/ UNCHANGED devices
                   \/ Setup
                   \/ \E a \in Attempts : Valid(a) /\ Register(a)
                   \/ \E a \in Attempts : CancelClaim(a)
                   \/ \E d, e \in Ids : Revoke(d, e)
<1>1. Retire \/ Contain \/ UNCHANGED vars => UNCHANGED devices
  BY DEF Retire, Contain, Control, vars
<1>2. \A d, i, a : Invite(d, i) \/ Decide(d, a) \/ Expire(i) => UNCHANGED devices
  BY DEF Invite, Decide, Expire
<1>3. \A a : ExpireClaim(a) \/ GiveUp(a) \/ Lose(a) \/ Claim(a) \/ Wait(a) => UNCHANGED devices
  BY DEF ExpireClaim, GiveUp, Lose, Claim, Wait, Claimed, Poll, Answered, Accept, NewFrame
<1>4. \A a, i, s : Ask(a, i, s) => UNCHANGED devices
  BY DEF Ask, NewFrame
<1>5. \A a : ServePoll(a) => (Valid(a) /\ Register(a)) \/ UNCHANGED devices
  BY DEF ServePoll
<1>6. \A a : ServeCancel(a) => CancelClaim(a) \/ UNCHANGED devices
  BY DEF ServeCancel
<1> QED
  BY <1>1, <1>2, <1>3, <1>4, <1>5, <1>6 DEF Next, Serve

\* No step takes a device away or trusts a revoked one again.
LEMMA DevicesStay == TypeOK /\ [Next]_vars => DevicesKept
<1> SUFFICES ASSUME TypeOK, [Next]_vars PROVE DevicesKept
  OBVIOUS
<1>1. CASE UNCHANGED devices
  BY <1>1 DEF DevicesKept, TypeOK, Ids
<1>2. CASE Setup
  BY <1>2, Joins DEF Setup, Devices
<1>3. ASSUME NEW a \in Attempts, Register(a) PROVE DevicesKept
  BY <1>3, Joins DEF Register, Devices
<1>4. ASSUME NEW a \in Attempts, CancelClaim(a) PROVE DevicesKept
  <2> DEFINE D == {d \in Ids : d = claim[a].device}
  <2>1. devices' = [d \in Ids |-> IF d \in D THEN [devices[d] EXCEPT !.revoked = TRUE]
                                  ELSE devices[d]]
    BY <1>4 DEF CancelClaim
  <2> QED
    BY <2>1, Withdraws
<1>5. ASSUME NEW d \in Ids, NEW e \in Ids, Revoke(d, e) PROVE DevicesKept
  <2>1. devices' = [x \in Ids |-> IF x \in {e} THEN [devices[x] EXCEPT !.revoked = TRUE]
                                  ELSE devices[x]]
    BY <1>5, LenProperties DEF Revoke, TypeOK, Ids
  <2> QED
    BY <2>1, Withdraws
<1> QED
  BY <1>1, <1>2, <1>3, <1>4, <1>5, DevicesChange

\* An invitation keeps its type.
LEMMA InvitationType == TypeOK /\ AsksWithOne /\ [Next]_vars
    => invitation' \in [Invitations -> Invites]
<1> SUFFICES ASSUME TypeOK /\ AsksWithOne, [Next]_vars
      PROVE  invitation' \in [Invitations -> Invites]
  OBVIOUS
<1>t. invitation \in [Invitations -> Invites] /\ Ids \subseteq Nat /\ new \in [Attempts -> News]
  BY DeviceTypes DEF TypeOK
<1> USE <1>t DEF Invites
<1>1. CASE Setup
  BY <1>1 DEF Setup
<1>2. CASE Retire \/ Contain
  BY <1>2 DEF Retire, Contain, Control
<1>3. ASSUME NEW d \in Ids, NEW i \in Invitations, Invite(d, i)
      PROVE  invitation' \in [Invitations -> Invites]
  BY <1>3 DEF Invite
<1>4. ASSUME NEW d \in Ids, NEW a \in Attempts, Decide(d, a)
      PROVE  invitation' \in [Invitations -> Invites]
  BY <1>4 DEF Decide
<1>5. ASSUME NEW d \in Ids, NEW e \in Ids, Revoke(d, e)
      PROVE  invitation' \in [Invitations -> Invites]
  BY <1>5 DEF Revoke
<1>6. ASSUME NEW i \in Invitations, Expire(i) PROVE invitation' \in [Invitations -> Invites]
  <2>1. CASE invitation' = [invitation EXCEPT ![i].code = FALSE]
    BY <2>1
  <2>2. CASE invitation' = [invitation EXCEPT ![i].qr = FALSE]
    BY <2>2
  <2> QED
    BY <1>6, <2>1, <2>2 DEF Expire
<1>7. ASSUME NEW a \in Attempts, ExpireClaim(a) PROVE invitation' \in [Invitations -> Invites]
  BY <1>7 DEF ExpireClaim
<1>8. ASSUME NEW a \in Attempts, GiveUp(a) PROVE invitation' \in [Invitations -> Invites]
  BY <1>8 DEF GiveUp, Goes, NewFrame
<1>9. ASSUME NEW a \in Attempts, Lose(a) PROVE invitation' \in [Invitations -> Invites]
  BY <1>9 DEF Lose, Answers, NewFrame
<1>10. ASSUME NEW a \in Attempts, Claim(a) PROVE invitation' \in [Invitations -> Invites]
  BY <1>10 DEF Claim, Goes, ServerFrame
<1>11. ASSUME NEW a \in Attempts, ServePoll(a) PROVE invitation' \in [Invitations -> Invites]
  BY <1>11 DEF ServePoll, Register, Redeliver, Answers, ServerFrame
<1>12. ASSUME NEW a \in Attempts, ServeCancel(a) PROVE invitation' \in [Invitations -> Invites]
  BY <1>12 DEF ServeCancel, CancelClaim, ServerFrame
<1>13. ASSUME NEW a \in Attempts, Claimed(a) PROVE invitation' \in [Invitations -> Invites]
  BY <1>13 DEF Claimed, NewFrame
<1>14. ASSUME NEW a \in Attempts, Poll(a) PROVE invitation' \in [Invitations -> Invites]
  BY <1>14 DEF Poll, Goes, Answers, NewFrame
<1>15. ASSUME NEW a \in Attempts, Answered(a) PROVE invitation' \in [Invitations -> Invites]
  BY <1>15 DEF Answered, NewFrame
<1>16. ASSUME NEW a \in Attempts, Accept(a) PROVE invitation' \in [Invitations -> Invites]
  BY <1>16 DEF Accept, Goes, NewFrame
<1>17. ASSUME NEW a \in Attempts, NEW i \in Invitations, NEW s \in {"code", "qr"}, Ask(a, i, s)
      PROVE  invitation' \in [Invitations -> Invites]
  BY <1>17 DEF Ask, NewFrame
<1>18. CASE UNCHANGED vars
  BY <1>18 DEF vars
<1> QED
  BY ONLY [Next]_vars, <1>1, <1>2, <1>3, <1>4, <1>5, <1>6, <1>7, <1>8, <1>9, <1>10, <1>11,
     <1>12, <1>13, <1>14, <1>15, <1>16, <1>17, <1>18
     DEF Next, Serve, Wait

\* A claim keeps its type: the identity it is given is a number.
LEMMA ClaimType == TypeOK /\ AsksWithOne /\ [Next]_vars => claim' \in [Attempts -> Claims]
<1> SUFFICES ASSUME TypeOK /\ AsksWithOne, [Next]_vars PROVE claim' \in [Attempts -> Claims]
  OBVIOUS
<1>t. claim \in [Attempts -> Claims] /\ Len(devices) \in Nat
  BY DeviceTypes DEF TypeOK
<1>i. AsksWithOne /\ invitation \in [Invitations -> Invites]
  BY DEF TypeOK
<1> USE <1>t
<1>s. ASSUME NEW a \in Attempts, NEW st \in {"approved", "rejected", "cancelled"},
             claim' = [claim EXCEPT ![a].state = st]
      PROVE  claim' \in [Attempts -> Claims]
  BY <1>s DEF Claims
<1>r. ASSUME NEW a \in Attempts, NEW d \in Nat,
             claim' = [claim EXCEPT ![a].state = "consumed", ![a].device = d]
      PROVE  claim' \in [Attempts -> Claims]
  <2>1. [claim EXCEPT ![a].state = "consumed"] \in [Attempts -> Claims]
    BY DEF Claims
  <2>2. \A row \in Claims : [row EXCEPT !.device = d] \in Claims
    BY DEF Claims
  <2> QED
    BY <1>r, <2>1, <2>2
<1>1. CASE Setup
  BY <1>1 DEF Setup
<1>2. CASE Retire \/ Contain
  BY <1>2 DEF Retire, Contain, Control
<1>3. ASSUME NEW d \in Ids, NEW i \in Invitations, Invite(d, i)
      PROVE  claim' \in [Attempts -> Claims]
  BY <1>3 DEF Invite
<1>4. ASSUME NEW d \in Ids, NEW a \in Attempts, Decide(d, a)
      PROVE  claim' \in [Attempts -> Claims]
  BY <1>4, <1>s DEF Decide
<1>5. ASSUME NEW d \in Ids, NEW e \in Ids, Revoke(d, e) PROVE claim' \in [Attempts -> Claims]
  BY <1>5 DEF Revoke
<1>6. ASSUME NEW i \in Invitations, Expire(i) PROVE claim' \in [Attempts -> Claims]
  BY <1>6 DEF Expire
<1>7. ASSUME NEW a \in Attempts, ExpireClaim(a) PROVE claim' \in [Attempts -> Claims]
  BY <1>7 DEF ExpireClaim, Claims
<1>8. ASSUME NEW a \in Attempts, GiveUp(a) PROVE claim' \in [Attempts -> Claims]
  BY <1>8 DEF GiveUp, Goes, NewFrame
<1>9. ASSUME NEW a \in Attempts, Lose(a) PROVE claim' \in [Attempts -> Claims]
  BY <1>9 DEF Lose, Answers, NewFrame
<1>10. ASSUME NEW a \in Attempts, Claim(a) PROVE claim' \in [Attempts -> Claims]
  <2> DEFINE i == new[a].uses.from
  <2>1. CASE Claimable(i, new[a].uses.secret)
    <3>1. i \in Invitations /\ invitation[i].by \in Nat
      BY <1>10, <1>i DEF Claim, AsksWithOne, Invites
    <3>2. [state |-> "pending", from |-> i, by |-> invitation[i].by, live |-> TRUE,
           device |-> 0] \in Claims
      BY <3>1 DEF Claims
    <3> QED
      BY <1>10, <2>1, <3>2 DEF Claim
  <2>2. CASE ~Claimable(i, new[a].uses.secret)
    BY <1>10, <2>2 DEF Claim
  <2> QED
    BY <2>1, <2>2
<1>11. ASSUME NEW a \in Attempts, ServePoll(a) PROVE claim' \in [Attempts -> Claims]
  <2>1. CASE Register(a)
    <3>1. Len(devices) + 1 \in Nat
      OBVIOUS
    <3> QED
      BY <2>1, <3>1, <1>r DEF Register
  <2>2. CASE ~Register(a)
    BY <1>11, <2>2 DEF ServePoll
  <2> QED
    BY <2>1, <2>2
<1>12. ASSUME NEW a \in Attempts, ServeCancel(a) PROVE claim' \in [Attempts -> Claims]
  BY <1>12, <1>s DEF ServeCancel, CancelClaim
<1>13. ASSUME NEW a \in Attempts, Claimed(a) PROVE claim' \in [Attempts -> Claims]
  BY <1>13 DEF Claimed, NewFrame
<1>14. ASSUME NEW a \in Attempts, Poll(a) PROVE claim' \in [Attempts -> Claims]
  BY <1>14 DEF Poll, Goes, Answers, NewFrame
<1>15. ASSUME NEW a \in Attempts, Answered(a) PROVE claim' \in [Attempts -> Claims]
  BY <1>15 DEF Answered, NewFrame
<1>16. ASSUME NEW a \in Attempts, Accept(a) PROVE claim' \in [Attempts -> Claims]
  BY <1>16 DEF Accept, Goes, NewFrame
<1>17. ASSUME NEW a \in Attempts, NEW i \in Invitations, NEW s \in {"code", "qr"}, Ask(a, i, s)
      PROVE  claim' \in [Attempts -> Claims]
  BY <1>17 DEF Ask, NewFrame
<1>18. CASE UNCHANGED vars
  BY <1>18 DEF vars
<1> QED
  BY ONLY [Next]_vars, <1>1, <1>2, <1>3, <1>4, <1>5, <1>6, <1>7, <1>8, <1>9, <1>10, <1>11,
     <1>12, <1>13, <1>14, <1>15, <1>16, <1>17, <1>18
     DEF Next, Serve, Wait

\* The new device keeps its type.
LEMMA NewType == TypeOK /\ AsksWithOne /\ [Next]_vars => new' \in [Attempts -> News]
<1> SUFFICES ASSUME TypeOK /\ AsksWithOne, [Next]_vars PROVE new' \in [Attempts -> News]
  OBVIOUS
<1>t. new \in [Attempts -> News]
  BY DEF TypeOK
<1> USE <1>t
<1>x. ASSUME NEW rows \in [Attempts -> News], NEW a \in Attempts
      PROVE  /\ \A poll \in Polls : [rows EXCEPT ![a].poll = poll] \in [Attempts -> News]
             /\ \A at \in Places : [rows EXCEPT ![a].at = at] \in [Attempts -> News]
             /\ \A cancel \in BOOLEAN : [rows EXCEPT ![a].cancel = cancel] \in [Attempts -> News]
             /\ \A uses \in Uses : [rows EXCEPT ![a].uses = uses] \in [Attempts -> News]
  BY DEF News
<1>g. \A a \in Attempts, at \in Places : Goes(a, at) => new' \in [Attempts -> News]
  BY <1>x DEF Goes
<1>w. \A a \in Attempts, poll \in Polls : Answers(a, poll) => new' \in [Attempts -> News]
  BY <1>x DEF Answers
<1> USE DEF Places, Polls
<1>1. CASE Setup
  BY <1>1 DEF Setup
<1>2. CASE Retire \/ Contain
  BY <1>2 DEF Retire, Contain, Control
<1>3. ASSUME NEW d \in Ids, NEW i \in Invitations, Invite(d, i)
      PROVE  new' \in [Attempts -> News]
  BY <1>3 DEF Invite
<1>4. ASSUME NEW d \in Ids, NEW a \in Attempts, Decide(d, a) PROVE new' \in [Attempts -> News]
  BY <1>4 DEF Decide
<1>5. ASSUME NEW d \in Ids, NEW e \in Ids, Revoke(d, e) PROVE new' \in [Attempts -> News]
  BY <1>5 DEF Revoke
<1>6. ASSUME NEW i \in Invitations, Expire(i) PROVE new' \in [Attempts -> News]
  BY <1>6 DEF Expire
<1>7. ASSUME NEW a \in Attempts, ExpireClaim(a) PROVE new' \in [Attempts -> News]
  BY <1>7 DEF ExpireClaim
<1>8. ASSUME NEW a \in Attempts, GiveUp(a) PROVE new' \in [Attempts -> News]
  <2>1. CASE new' = [new EXCEPT ![a].at = "gone", ![a].cancel = TRUE]
    BY <2>1, <1>x
  <2> QED
    BY <1>8, <2>1, <1>g DEF GiveUp
<1>9. ASSUME NEW a \in Attempts, Lose(a) PROVE new' \in [Attempts -> News]
  <2>1. CASE new' = [new EXCEPT ![a].poll = "none", ![a].at = "refused"]
    BY <2>1, <1>x DEF Polls, Places
  <2>2. CASE Answers(a, "lost")
    BY <2>2, <1>x DEF Answers
  <2>3. CASE new' = [new EXCEPT ![a].cancel = FALSE]
    BY <2>3, <1>x
  <2> QED
    BY <1>9, <2>1, <2>2, <2>3 DEF Lose
<1>10. ASSUME NEW a \in Attempts, Claim(a) PROVE new' \in [Attempts -> News]
  <2>1. CASE new' = [new EXCEPT ![a].poll = "claimed"]
    BY <2>1, <1>x
  <2> QED
    BY <1>10, <2>1, <1>g DEF Claim
<1>11. ASSUME NEW a \in Attempts, ServePoll(a) PROVE new' \in [Attempts -> News]
  BY <1>11, <1>w DEF ServePoll, Register, Redeliver
<1>12. ASSUME NEW a \in Attempts, ServeCancel(a) PROVE new' \in [Attempts -> News]
  BY <1>12, <1>x DEF ServeCancel
<1>13. ASSUME NEW a \in Attempts, Claimed(a) PROVE new' \in [Attempts -> News]
  BY <1>13, <1>x DEF Claimed
<1>14. ASSUME NEW a \in Attempts, Poll(a) PROVE new' \in [Attempts -> News]
  BY <1>14, <1>g, <1>w DEF Poll
<1>15. ASSUME NEW a \in Attempts, Answered(a) PROVE new' \in [Attempts -> News]
  <2>1. ASSUME NEW next \in Places, NEW cancel \in BOOLEAN,
               new' = [new EXCEPT ![a].poll = "none", ![a].at = next, ![a].cancel = cancel]
        PROVE  new' \in [Attempts -> News]
    <3> DEFINE once == [new EXCEPT ![a].poll = "none"]
                twice == [once EXCEPT ![a].at = next]
    <3>1. once \in [Attempts -> News]
      BY <1>x
    <3> HIDE DEF once
    <3>2. twice \in [Attempts -> News]
      BY <3>1, <1>x
    <3> HIDE DEF twice
    <3>3. [twice EXCEPT ![a].cancel = cancel] \in [Attempts -> News]
      BY <3>2, <1>x
    <3> QED
      BY <2>1, <3>3 DEF once, twice
  <2>2. new[a].at \in Places /\ new[a].cancel \in BOOLEAN
    BY DEF News
  <2> QED
    BY <1>15, <2>1, <2>2 DEF Answered
<1>16. ASSUME NEW a \in Attempts, Accept(a) PROVE new' \in [Attempts -> News]
  BY <1>16, <1>g DEF Accept
<1>17. ASSUME NEW a \in Attempts, NEW i \in Invitations, NEW s \in {"code", "qr"}, Ask(a, i, s)
      PROVE  new' \in [Attempts -> News]
  <2>1. [from |-> i, secret |-> s] \in Uses
    BY DEF Uses
  <2> QED
    <3>1. [new EXCEPT ![a].at = "asking"] \in [Attempts -> News]
      BY <1>x
    <3> QED
      BY <1>17, <2>1, <3>1, <1>x DEF Ask
<1>18. CASE UNCHANGED vars
  BY <1>18 DEF vars
<1> QED
  BY ONLY [Next]_vars, <1>1, <1>2, <1>3, <1>4, <1>5, <1>6, <1>7, <1>8, <1>9, <1>10, <1>11,
     <1>12, <1>13, <1>14, <1>15, <1>16, <1>17, <1>18
     DEF Next, Serve, Wait

RestTyped == /\ vault \in [retired : BOOLEAN, held : BOOLEAN]
             /\ lost \in Nat
             /\ approved \subseteq Attempts

\* What an attempt does not hold keeps its type.
LEMMA RestType == TypeOK /\ [Next]_vars => RestTyped'
<1> SUFFICES ASSUME TypeOK, [Next]_vars PROVE RestTyped'
  OBVIOUS
<1> USE DEF TypeOK, RestTyped
<1>1. CASE Setup
  BY <1>1 DEF Setup
<1>2. CASE Retire \/ Contain
  BY <1>2 DEF Retire, Contain, Control
<1>3. ASSUME NEW d \in Ids, NEW i \in Invitations, Invite(d, i) PROVE RestTyped'
  BY <1>3 DEF Invite
<1>4. ASSUME NEW d \in Ids, NEW a \in Attempts, Decide(d, a) PROVE RestTyped'
  BY <1>4 DEF Decide
<1>5. ASSUME NEW d \in Ids, NEW e \in Ids, Revoke(d, e) PROVE RestTyped'
  BY <1>5 DEF Revoke
<1>6. ASSUME NEW i \in Invitations, Expire(i) PROVE RestTyped'
  BY <1>6 DEF Expire
<1>7. ASSUME NEW a \in Attempts, ExpireClaim(a) PROVE RestTyped'
  BY <1>7 DEF ExpireClaim
<1>8. ASSUME NEW a \in Attempts, GiveUp(a) PROVE RestTyped'
  BY <1>8 DEF GiveUp, Goes, NewFrame
<1>9. ASSUME NEW a \in Attempts, Lose(a) PROVE RestTyped'
  BY <1>9 DEF Lose, Answers, NewFrame
<1>10. ASSUME NEW a \in Attempts, Claim(a) PROVE RestTyped'
  BY <1>10 DEF Claim, Goes, ServerFrame
<1>11. ASSUME NEW a \in Attempts, ServePoll(a) PROVE RestTyped'
  BY <1>11 DEF ServePoll, Register, Redeliver, Answers, ServerFrame
<1>12. ASSUME NEW a \in Attempts, ServeCancel(a) PROVE RestTyped'
  BY <1>12 DEF ServeCancel, CancelClaim, ServerFrame
<1>13. ASSUME NEW a \in Attempts, Claimed(a) PROVE RestTyped'
  BY <1>13 DEF Claimed, NewFrame
<1>14. ASSUME NEW a \in Attempts, Poll(a) PROVE RestTyped'
  BY <1>14 DEF Poll, Goes, Answers, NewFrame
<1>15. ASSUME NEW a \in Attempts, Answered(a) PROVE RestTyped'
  BY <1>15 DEF Answered, NewFrame
<1>16. ASSUME NEW a \in Attempts, Accept(a) PROVE RestTyped'
  BY <1>16 DEF Accept, Goes, NewFrame
<1>17. ASSUME NEW a \in Attempts, NEW i \in Invitations, NEW s \in {"code", "qr"}, Ask(a, i, s)
      PROVE  RestTyped'
  BY <1>17 DEF Ask, NewFrame
<1>18. CASE UNCHANGED vars
  BY <1>18 DEF vars
<1> QED
  BY ONLY [Next]_vars, <1>1, <1>2, <1>3, <1>4, <1>5, <1>6, <1>7, <1>8, <1>9, <1>10, <1>11,
     <1>12, <1>13, <1>14, <1>15, <1>16, <1>17, <1>18
     DEF Next, Serve, Wait

\* Types together.
LEMMA TypeNext == TypeOK /\ AsksWithOne /\ [Next]_vars => TypeOK'
BY DevicesStay, InvitationType, ClaimType, NewType, RestType
   DEF TypeOK, RestTyped, DevicesKept

\* Only the entry of an invitation takes a new device out of rest.
LEMMA AsksWithOneNext == Booked /\ [Next]_vars => AsksWithOne'
<1> SUFFICES ASSUME Booked, [Next]_vars PROVE AsksWithOne'
  OBVIOUS
<1>0. /\ TypeOK /\ TypeOK' /\ AsksWithOne
      /\ OneClaimEach /\ ApprovedFirst /\ OneDeviceEach /\ CancelledIsOut
      /\ None \notin Attempts \cup Invitations
  BY TypeNext, NoneAssumption DEF Booked
<1>t. /\ claim \in [Attempts -> Claims]
      /\ invitation \in [Invitations -> Invites]
      /\ new \in [Attempts -> News]
      /\ DevicesKept
  BY <1>0, DevicesStay DEF TypeOK
<1> USE <1>0, <1>t DEF AsksWithOne, News, Uses
<1>1. CASE Setup
  BY <1>1 DEF Setup
<1>2. CASE Retire \/ Contain
  BY <1>2 DEF Retire, Contain, Control
<1>3. ASSUME NEW d \in Ids, NEW i \in Invitations, Invite(d, i) PROVE AsksWithOne'
  BY <1>3 DEF Invite
<1>4. ASSUME NEW d \in Ids, NEW a \in Attempts, Decide(d, a) PROVE AsksWithOne'
  BY <1>4 DEF Decide
<1>5. ASSUME NEW d \in Ids, NEW e \in Ids, Revoke(d, e) PROVE AsksWithOne'
  BY <1>5 DEF Revoke
<1>6. ASSUME NEW i \in Invitations, Expire(i) PROVE AsksWithOne'
  BY <1>6 DEF Expire
<1>7. ASSUME NEW a \in Attempts, ExpireClaim(a) PROVE AsksWithOne'
  BY <1>7 DEF ExpireClaim
<1>8. ASSUME NEW a \in Attempts, GiveUp(a) PROVE AsksWithOne'
  <2>1. \A x \in Attempts : /\ new'[x].uses = new[x].uses
                            /\ new'[x].at # "idle" => new[x].at # "idle"
    BY <1>8 DEF GiveUp, Goes
  <2> QED
    BY <2>1
<1>9. ASSUME NEW a \in Attempts, Lose(a) PROVE AsksWithOne'
  BY <1>9 DEF Lose, Answers, NewFrame
<1>10. ASSUME NEW a \in Attempts, Claim(a) PROVE AsksWithOne'
  <2>1. \A x \in Attempts : /\ new'[x].uses = new[x].uses
                            /\ new'[x].at # "idle" => new[x].at # "idle"
    <3>1. /\ new[a].at \in {"asking", "leaving"}
          /\ \/ new' = [new EXCEPT ![a].poll = "claimed"]
             \/ new' = [new EXCEPT ![a].at = "refused"]
      BY <1>10 DEF Claim, Goes
    <3>2. new[a].at # "idle"
      BY <3>1
    <3>3. CASE new' = [new EXCEPT ![a].poll = "claimed"]
      BY <3>3
    <3>4. CASE new' = [new EXCEPT ![a].at = "refused"]
      BY <3>2, <3>4
    <3> QED
      BY <3>1, <3>3, <3>4
  <2> QED
    BY <2>1
<1>11. ASSUME NEW a \in Attempts, ServePoll(a) PROVE AsksWithOne'
  <2>1. \A x \in Attempts : new'[x].uses = new[x].uses /\ new'[x].at = new[x].at
    BY <1>11 DEF ServePoll, Register, Redeliver, Answers
  <2> QED
    BY <2>1
<1>12. ASSUME NEW a \in Attempts, ServeCancel(a) PROVE AsksWithOne'
  BY <1>12 DEF ServeCancel, CancelClaim, ServerFrame
<1>13. ASSUME NEW a \in Attempts, Claimed(a) PROVE AsksWithOne'
  BY <1>13 DEF Claimed, NewFrame
<1>14. ASSUME NEW a \in Attempts, Poll(a) PROVE AsksWithOne'
  BY <1>14 DEF Poll, Goes, Answers, NewFrame
<1>15. ASSUME NEW a \in Attempts, Answered(a) PROVE AsksWithOne'
  BY <1>15 DEF Answered, NewFrame
<1>16. ASSUME NEW a \in Attempts, Accept(a) PROVE AsksWithOne'
  BY <1>16 DEF Accept, Goes, NewFrame
<1>17. ASSUME NEW a \in Attempts, NEW i \in Invitations, NEW s \in {"code", "qr"}, Ask(a, i, s)
      PROVE  AsksWithOne'
  BY <1>17 DEF Ask, NewFrame
<1>18. CASE UNCHANGED vars
  BY <1>18 DEF vars
<1> QED
  BY ONLY [Next]_vars, <1>1, <1>2, <1>3, <1>4, <1>5, <1>6, <1>7, <1>8, <1>9, <1>10, <1>11,
     <1>12, <1>13, <1>14, <1>15, <1>16, <1>17, <1>18
     DEF Next, Serve, Wait

\* A claim is made by the request that consumes the invitation.
LEMMA OneClaimEachNext == Booked /\ [Next]_vars => OneClaimEach'
<1> SUFFICES ASSUME Booked, [Next]_vars PROVE OneClaimEach'
  OBVIOUS
<1>0. /\ TypeOK /\ TypeOK' /\ AsksWithOne
      /\ OneClaimEach /\ ApprovedFirst /\ OneDeviceEach /\ CancelledIsOut
      /\ None \notin Attempts \cup Invitations
  BY TypeNext, NoneAssumption DEF Booked
<1>t. /\ claim \in [Attempts -> Claims]
      /\ invitation \in [Invitations -> Invites]
      /\ new \in [Attempts -> News]
      /\ DevicesKept
  BY <1>0, DevicesStay DEF TypeOK
<1> USE <1>0, <1>t DEF OneClaimEach, AsksWithOne, Claims, Invites, Claimable
<1>1. CASE Setup
  BY <1>1 DEF Setup
<1>2. CASE Retire \/ Contain
  BY <1>2 DEF Retire, Contain, Control
<1>3. ASSUME NEW d \in Ids, NEW i \in Invitations, Invite(d, i) PROVE OneClaimEach'
  BY <1>3 DEF Invite
<1>4. ASSUME NEW d \in Ids, NEW a \in Attempts, Decide(d, a) PROVE OneClaimEach'
  <2>1. \A x \in Attempts : /\ claim'[x].from = claim[x].from
                            /\ claim'[x].live = claim[x].live
                            /\ claim'[x].state = "none" <=> claim[x].state = "none"
    BY <1>4 DEF Decide
  <2> QED
    BY <1>4, <2>1 DEF Decide
<1>5. ASSUME NEW d \in Ids, NEW e \in Ids, Revoke(d, e) PROVE OneClaimEach'
  BY <1>5 DEF Revoke
<1>6. ASSUME NEW i \in Invitations, Expire(i) PROVE OneClaimEach'
  BY <1>6 DEF Expire
<1>7. ASSUME NEW a \in Attempts, ExpireClaim(a) PROVE OneClaimEach'
  BY <1>7 DEF ExpireClaim
<1>8. ASSUME NEW a \in Attempts, GiveUp(a) PROVE OneClaimEach'
  BY <1>8 DEF GiveUp, Goes, NewFrame
<1>9. ASSUME NEW a \in Attempts, Lose(a) PROVE OneClaimEach'
  BY <1>9 DEF Lose, Answers, NewFrame
<1>10. ASSUME NEW a \in Attempts, Claim(a) PROVE OneClaimEach'
  <2> DEFINE i == new[a].uses.from
  <2>1. CASE Claimable(i, new[a].uses.secret)
    <3>1. /\ i \in Invitations /\ invitation[i].state = "open" /\ claim[a].state = "none"
          /\ invitation'[i].state = "consumed"
          /\ \A j \in Invitations : j # i => invitation'[j] = invitation[j]
      BY <1>10, <2>1 DEF Claim
    <3>2. /\ claim'[a].state = "pending" /\ claim'[a].from = i
          /\ \A x \in Attempts : x # a => claim'[x] = claim[x]
      BY <1>10, <2>1 DEF Claim
    <3>3. \A x \in Attempts : claim[x].state # "none" => claim[x].from # i
      BY <3>1
    <3>4. \A x \in Attempts :
             claim[x].state # "none" => invitation'[claim[x].from].state = "consumed"
      BY <3>1, <3>3
    <3>5. \A x \in Attempts : claim'[x].state # "none" =>
             claim'[x].from \in Invitations /\ invitation'[claim'[x].from].state = "consumed"
      BY <3>1, <3>2, <3>4
    <3>6. ASSUME NEW x \in Attempts, NEW y \in Attempts, claim'[x].state # "none",
                 claim'[y].state # "none", claim'[x].from = claim'[y].from
          PROVE  x = y
      BY <3>2, <3>3, <3>6
    <3>7. \A x \in Attempts : claim'[x].live => claim'[x].state # "none"
      BY <3>2
    <3> QED
      BY <3>5, <3>6, <3>7
  <2>2. CASE ~Claimable(i, new[a].uses.secret)
    BY <1>10, <2>2 DEF Claim
  <2> QED
    BY <2>1, <2>2
<1>11. ASSUME NEW a \in Attempts, ServePoll(a) PROVE OneClaimEach'
  <2>1. \A x \in Attempts : /\ claim'[x].from = claim[x].from
                            /\ claim'[x].live = claim[x].live
                            /\ claim'[x].state = "none" <=> claim[x].state = "none"
    <3>1. CASE Register(a)
      BY <3>1 DEF Register
    <3>2. CASE ~Register(a)
      BY <3>2, <1>11 DEF ServePoll
    <3> QED
      BY <3>1, <3>2
  <2> QED
    BY <1>11, <2>1 DEF ServePoll
<1>12. ASSUME NEW a \in Attempts, ServeCancel(a) PROVE OneClaimEach'
  <2>1. \A x \in Attempts : /\ claim'[x].from = claim[x].from
                            /\ claim'[x].live = claim[x].live
                            /\ claim'[x].state = "none" <=> claim[x].state = "none"
    BY <1>12 DEF ServeCancel, CancelClaim
  <2> QED
    BY <1>12, <2>1 DEF ServeCancel
<1>13. ASSUME NEW a \in Attempts, Claimed(a) PROVE OneClaimEach'
  BY <1>13 DEF Claimed, NewFrame
<1>14. ASSUME NEW a \in Attempts, Poll(a) PROVE OneClaimEach'
  BY <1>14 DEF Poll, Goes, Answers, NewFrame
<1>15. ASSUME NEW a \in Attempts, Answered(a) PROVE OneClaimEach'
  BY <1>15 DEF Answered, NewFrame
<1>16. ASSUME NEW a \in Attempts, Accept(a) PROVE OneClaimEach'
  BY <1>16 DEF Accept, Goes, NewFrame
<1>17. ASSUME NEW a \in Attempts, NEW i \in Invitations, NEW s \in {"code", "qr"}, Ask(a, i, s)
      PROVE  OneClaimEach'
  BY <1>17 DEF Ask, NewFrame
<1>18. CASE UNCHANGED vars
  BY <1>18 DEF vars
<1> QED
  BY ONLY [Next]_vars, <1>1, <1>2, <1>3, <1>4, <1>5, <1>6, <1>7, <1>8, <1>9, <1>10, <1>11,
     <1>12, <1>13, <1>14, <1>15, <1>16, <1>17, <1>18
     DEF Next, Serve, Wait

\* Credentials are made by the approval only.
LEMMA ApprovedFirstNext == Booked /\ [Next]_vars => ApprovedFirst'
<1> SUFFICES ASSUME Booked, [Next]_vars PROVE ApprovedFirst'
  OBVIOUS
<1>0. /\ TypeOK /\ TypeOK' /\ AsksWithOne
      /\ OneClaimEach /\ ApprovedFirst /\ OneDeviceEach /\ CancelledIsOut
      /\ None \notin Attempts \cup Invitations
  BY TypeNext, NoneAssumption DEF Booked
<1>t. /\ claim \in [Attempts -> Claims]
      /\ invitation \in [Invitations -> Invites]
      /\ new \in [Attempts -> News]
      /\ DevicesKept
  BY <1>0, DevicesStay DEF TypeOK
<1> USE <1>0, <1>t DEF ApprovedFirst, Claims
<1>1. CASE Setup
  BY <1>1 DEF Setup
<1>2. CASE Retire \/ Contain
  BY <1>2 DEF Retire, Contain, Control
<1>3. ASSUME NEW d \in Ids, NEW i \in Invitations, Invite(d, i) PROVE ApprovedFirst'
  BY <1>3 DEF Invite
<1>4. ASSUME NEW d \in Ids, NEW a \in Attempts, Decide(d, a) PROVE ApprovedFirst'
  BY <1>4 DEF Decide
<1>5. ASSUME NEW d \in Ids, NEW e \in Ids, Revoke(d, e) PROVE ApprovedFirst'
  BY <1>5 DEF Revoke
<1>6. ASSUME NEW i \in Invitations, Expire(i) PROVE ApprovedFirst'
  BY <1>6 DEF Expire
<1>7. ASSUME NEW a \in Attempts, ExpireClaim(a) PROVE ApprovedFirst'
  BY <1>7 DEF ExpireClaim
<1>8. ASSUME NEW a \in Attempts, GiveUp(a) PROVE ApprovedFirst'
  BY <1>8 DEF GiveUp, Goes, NewFrame
<1>9. ASSUME NEW a \in Attempts, Lose(a) PROVE ApprovedFirst'
  BY <1>9 DEF Lose, Answers, NewFrame
<1>10. ASSUME NEW a \in Attempts, Claim(a) PROVE ApprovedFirst'
  BY <1>10 DEF Claim, Goes, ServerFrame
<1>11. ASSUME NEW a \in Attempts, ServePoll(a) PROVE ApprovedFirst'
  BY <1>11 DEF ServePoll, Register, Redeliver, Answers, ServerFrame
<1>12. ASSUME NEW a \in Attempts, ServeCancel(a) PROVE ApprovedFirst'
  BY <1>12 DEF ServeCancel, CancelClaim, ServerFrame
<1>13. ASSUME NEW a \in Attempts, Claimed(a) PROVE ApprovedFirst'
  BY <1>13 DEF Claimed, NewFrame
<1>14. ASSUME NEW a \in Attempts, Poll(a) PROVE ApprovedFirst'
  BY <1>14 DEF Poll, Goes, Answers, NewFrame
<1>15. ASSUME NEW a \in Attempts, Answered(a) PROVE ApprovedFirst'
  BY <1>15 DEF Answered, NewFrame
<1>16. ASSUME NEW a \in Attempts, Accept(a) PROVE ApprovedFirst'
  BY <1>16 DEF Accept, Goes, NewFrame
<1>17. ASSUME NEW a \in Attempts, NEW i \in Invitations, NEW s \in {"code", "qr"}, Ask(a, i, s)
      PROVE  ApprovedFirst'
  BY <1>17 DEF Ask, NewFrame
<1>18. CASE UNCHANGED vars
  BY <1>18 DEF vars
<1> QED
  BY ONLY [Next]_vars, <1>1, <1>2, <1>3, <1>4, <1>5, <1>6, <1>7, <1>8, <1>9, <1>10, <1>11,
     <1>12, <1>13, <1>14, <1>15, <1>16, <1>17, <1>18
     DEF Next, Serve, Wait

\* The poll that joins a device writes its identity on the claim; the cancellation
\* of a consumed claim revokes that very device.
LEMMA JoinedAndOut == Booked /\ [Next]_vars => OneDeviceEach' /\ CancelledIsOut'
<1> SUFFICES ASSUME Booked, [Next]_vars PROVE OneDeviceEach' /\ CancelledIsOut'
  OBVIOUS
<1>0. /\ TypeOK /\ DevicesKept /\ OneDeviceEach /\ CancelledIsOut
      /\ claim \in [Attempts -> Claims] /\ None \notin Attempts
      /\ \A d \in Ids : devices[d] \in Devices
  BY DevicesStay, DeviceTypes, NoneAssumption DEF Booked, TypeOK
\* A step that brings no device and moves no claim to or from its end.
<1>k. ASSUME Ids' = Ids,
             \A x \in Attempts :
                /\ claim'[x].device = claim[x].device
                /\ claim[x].state \in {"consumed", "cancelled"} => claim'[x].state = claim[x].state
                /\ claim'[x].state = "cancelled" => claim[x].state = "cancelled"
      PROVE  OneDeviceEach' /\ CancelledIsOut'
  <2>1. \A d \in Ids : devices[d].claim # None => devices[d].claim \in Attempts
    BY <1>0 DEF Devices
  <2> QED
    BY <1>0, <1>k, <2>1 DEF OneDeviceEach, CancelledIsOut, DevicesKept
<1>1. CASE UNCHANGED <<devices, claim>>
  BY <1>1, <1>k DEF Ids
<1>2. CASE Setup
  <2>1. /\ Ids' = Ids \cup {Len(devices) + 1}
        /\ \A d \in Ids : devices'[d] = devices[d]
        /\ devices'[Len(devices) + 1].claim = None
        /\ claim' = claim
    <3>1. [claim |-> None, revoked |-> FALSE] \in Devices
      BY DEF Devices
    <3>2. devices' = Append(devices, [claim |-> None, revoked |-> FALSE]) /\ claim' = claim
      BY <1>2 DEF Setup
    <3>3. devices'[Len(devices) + 1] = [claim |-> None, revoked |-> FALSE]
      BY <1>0, <3>1, <3>2, Joins
    <3>4. /\ Ids' = Ids \cup {Len(devices) + 1}
          /\ \A d \in Ids : devices'[d] = devices[d]
      BY <1>0, <3>1, <3>2, Joins
    <3>5. claim' = claim
      BY <3>2
    <3> QED
      BY ONLY <3>3, <3>4, <3>5
  <2> QED
    BY <1>0, <2>1 DEF OneDeviceEach, CancelledIsOut
<1>3. ASSUME NEW a \in Attempts, Register(a) PROVE OneDeviceEach' /\ CancelledIsOut'
  <2>1. /\ Ids' = Ids \cup {Len(devices) + 1} /\ Len(devices) + 1 \notin Ids
        /\ \A d \in Ids : devices'[d] = devices[d]
        /\ devices'[Len(devices) + 1] = [claim |-> a, revoked |-> FALSE]
    BY <1>0, <1>3, Joins DEF Register, Devices
  <2>2. /\ claim[a].state = "approved"
        /\ claim'[a].state = "consumed" /\ claim'[a].device = Len(devices) + 1
        /\ \A x \in Attempts : x # a => claim'[x] = claim[x]
    BY <1>0, <1>3 DEF Register, Claims
  <2>3. \A d \in Ids : devices[d].claim # a
    BY <1>0, <2>2 DEF OneDeviceEach
  <2> QED
    BY <1>0, <2>1, <2>2, <2>3 DEF OneDeviceEach, CancelledIsOut, Devices
<1>4. ASSUME NEW a \in Attempts, CancelClaim(a) PROVE OneDeviceEach' /\ CancelledIsOut'
  <2> DEFINE D == {d \in Ids : d = claim[a].device}
  <2>1. devices' = [d \in Ids |-> IF d \in D THEN [devices[d] EXCEPT !.revoked = TRUE]
                                  ELSE devices[d]]
    BY <1>4 DEF CancelClaim
  <2>2. Ids' = Ids /\ \A d \in D : devices'[d].revoked
    BY <1>0, <2>1, Withdraws
  <2>3. /\ claim'[a].state = "cancelled" /\ claim'[a].device = claim[a].device
        /\ \A x \in Attempts : x # a => claim'[x] = claim[x]
    BY <1>0, <1>4 DEF CancelClaim, Claims
  <2> QED
    BY <1>0, <2>2, <2>3 DEF OneDeviceEach, CancelledIsOut, DevicesKept, Devices
<1>5. ASSUME NEW d \in Ids, NEW e \in Ids, Revoke(d, e) PROVE OneDeviceEach' /\ CancelledIsOut'
  <2>1. devices' = [x \in Ids |-> IF x \in {e} THEN [devices[x] EXCEPT !.revoked = TRUE]
                                  ELSE devices[x]]
    BY <1>0, <1>5, LenProperties DEF Revoke, TypeOK, Ids
  <2>2. Ids' = Ids /\ claim' = claim
    BY <1>0, <1>5, <2>1, Withdraws DEF Revoke
  <2> QED
    BY <1>k, <2>2
<1>6. ASSUME NEW d \in Ids, NEW a \in Attempts, Decide(d, a)
      PROVE  OneDeviceEach' /\ CancelledIsOut'
  <2>1. \A x \in Attempts :
           /\ claim'[x].device = claim[x].device
           /\ \/ claim'[x].state = claim[x].state
              \/ claim[x].state = "pending" /\ claim'[x].state \in {"approved", "rejected"}
    BY <1>0, <1>6 DEF Decide, Claims
  <2>2. Ids' = Ids
    BY <1>6 DEF Decide, Ids
  <2> QED
    BY <2>1, <2>2, <1>k
<1>7. ASSUME NEW a \in Attempts, ExpireClaim(a) PROVE OneDeviceEach' /\ CancelledIsOut'
  BY <1>0, <1>7, <1>k DEF ExpireClaim, Claims, Ids
<1>8. ASSUME NEW a \in Attempts, Claim(a) PROVE OneDeviceEach' /\ CancelledIsOut'
  <2>1. CASE UNCHANGED claim
    BY <1>8, <2>1, <1>1 DEF Claim
  <2>2. CASE claim' # claim
    <3>1. /\ Ids' = Ids /\ claim[a].state = "none" /\ claim'[a].state = "pending"
          /\ \A x \in Attempts : x # a => claim'[x] = claim[x]
      BY <1>0, <1>8, <2>2 DEF Claim, Ids
    <3>2. \A d \in Ids : devices[d].claim # a
      BY <1>0, <3>1 DEF OneDeviceEach
    <3> QED
      BY <1>0, <3>1, <3>2 DEF OneDeviceEach, CancelledIsOut, DevicesKept, Devices
  <2> QED
    BY <2>1, <2>2
<1>9. Retire \/ Contain \/ UNCHANGED vars => UNCHANGED <<devices, claim>>
  BY DEF Retire, Contain, Control, vars
<1>10. \A d, i : Invite(d, i) \/ Expire(i) => UNCHANGED <<devices, claim>>
  BY DEF Invite, Expire
<1>11. \A a : GiveUp(a) \/ Lose(a) \/ Wait(a) => UNCHANGED <<devices, claim>>
  BY DEF GiveUp, Lose, Wait, Claimed, Poll, Answered, Accept, NewFrame
<1>12. \A a, i, s : Ask(a, i, s) => UNCHANGED <<devices, claim>>
  BY DEF Ask, NewFrame
<1>13. \A a : ServePoll(a) => Register(a) \/ UNCHANGED <<devices, claim>>
  BY DEF ServePoll
<1>14. \A a : ServeCancel(a) => CancelClaim(a) \/ UNCHANGED <<devices, claim>>
  BY DEF ServeCancel
<1> QED
  BY <1>1, <1>2, <1>3, <1>4, <1>5, <1>6, <1>7, <1>8, <1>9, <1>10, <1>11, <1>12, <1>13, <1>14
     DEF Next, Serve

\* The invariant is inductive.
LEMMA BookedNext == Booked /\ [Next]_vars => Booked'
BY TypeNext, AsksWithOneNext, OneClaimEachNext, ApprovedFirstNext, JoinedAndOut DEF Booked

\* It holds in the beginning.
LEMMA BookedInit == Init => Booked
<1> SUFFICES ASSUME Init PROVE Booked
  OBVIOUS
<1>1. devices = <<[claim |-> None, revoked |-> FALSE]>> /\ Len(devices) = 1 /\ Ids = {1}
  BY DEF Init, Ids
<1>2. TypeOK
  <2>1. devices \in Seq(Devices)
    BY <1>1 DEF Devices
  <2> QED
    BY <2>1 DEF Init, TypeOK, Invites, Claims, News, NoUse, Uses, Places, Polls
<1> QED
  BY <1>1, <1>2, NoneAssumption
     DEF Init, Booked, AsksWithOne, OneClaimEach, ApprovedFirst, OneDeviceEach, CancelledIsOut

-----------------------------------------------------------------------------
(* Theorems                                                                 *)

\* The books of the server hold for every number of attempts, invitations and losses.
THEOREM Invariance == Spec => []Booked
BY BookedInit, BookedNext, PTL DEF Spec

\* The variables hold what the model says they hold.
THEOREM TypeCorrect == Spec => []TypeOK
BY Invariance, PTL DEF Booked

\* Once its cancellation has reached the server, no device of an attempt has access.
THEOREM CancelledOut == Spec => []CancelledIsOut
BY Invariance, PTL DEF Booked

\* A device joins by invitation only with the approval of a trusted device, and an
\* invitation connects one device.
THEOREM JoinApproved == Spec => JoinIsApproved
<1> DEFINE Join == Len(devices') > Len(devices) =>
          LET a == devices'[Len(devices')].claim IN
          a # None => /\ a \in approved /\ Trusted(claim[a].by) /\ ~vault.retired
                      /\ \A d \in Ids : devices[d].claim # None =>
                            claim[devices[d].claim].from # claim[a].from
<1>1. ASSUME Booked, [Next]_vars PROVE Join
  <2>0. TypeOK /\ OneClaimEach /\ ApprovedFirst /\ OneDeviceEach /\ None \notin Attempts
    BY <1>1, NoneAssumption DEF Booked
  <2>1. CASE UNCHANGED devices \/ Len(devices') = Len(devices)
    BY <2>0, <2>1, DeviceTypes
  <2>2. CASE Setup
    <3>1. [claim |-> None, revoked |-> FALSE] \in Devices
      BY DEF Devices
    <3>2. devices' = Append(devices, [claim |-> None, revoked |-> FALSE])
      BY <2>2 DEF Setup
    <3>3. devices'[Len(devices')].claim = None
      BY <2>0, <3>1, <3>2, Joins
    <3> QED
      BY <3>3
  <2>3. ASSUME NEW a \in Attempts, Valid(a), Register(a) PROVE Join
    <3>1. [claim |-> a, revoked |-> FALSE] \in Devices
      BY DEF Devices
    <3>2. devices' = Append(devices, [claim |-> a, revoked |-> FALSE])
      BY <2>3 DEF Register
    <3>3. devices'[Len(devices')].claim = a
      BY <2>0, <3>1, <3>2, Joins
    <3>4. a \in approved /\ Trusted(claim[a].by) /\ ~vault.retired
      BY <2>0, <2>3 DEF Register, Valid, ApprovedFirst
    <3>5. ASSUME NEW d \in Ids, devices[d].claim # None
          PROVE  claim[devices[d].claim].from # claim[a].from
      <4>1. /\ devices[d].claim \in Attempts
            /\ claim[devices[d].claim].state \in {"consumed", "cancelled"}
        BY <2>0, <3>5, DeviceTypes DEF Devices, OneDeviceEach
      <4>2. claim[a].state = "approved"
        BY <2>3 DEF Register
      <4> QED
        BY <2>0, <4>1, <4>2 DEF OneClaimEach
    <3> QED
      BY <3>3, <3>4, <3>5
  <2>4. ASSUME NEW a \in Attempts, CancelClaim(a) PROVE Len(devices') = Len(devices)
    <3> DEFINE D == {d \in Ids : d = claim[a].device}
    <3>1. devices' = [d \in Ids |-> IF d \in D THEN [devices[d] EXCEPT !.revoked = TRUE]
                                    ELSE devices[d]]
      BY <2>4 DEF CancelClaim
    <3> QED
      BY <2>0, <3>1, Withdraws
  <2>5. ASSUME NEW d \in Ids, NEW e \in Ids, Revoke(d, e) PROVE Len(devices') = Len(devices)
    <3>1. devices' = [x \in Ids |-> IF x \in {e} THEN [devices[x] EXCEPT !.revoked = TRUE]
                                    ELSE devices[x]]
      BY <2>0, <2>5, LenProperties DEF Revoke, TypeOK, Ids
    <3> QED
      BY <2>0, <3>1, Withdraws
  <2> QED
    BY <1>1, <2>1, <2>2, <2>3, <2>4, <2>5, DevicesChange
<1> QED
  BY <1>1, Invariance, PTL DEF Spec, JoinIsApproved

-----------------------------------------------------------------------------
(***************************************************************************)
(* The uploads of connected devices: proofs about ContentUpload for any    *)
(* number of chunks and requests and any bounds.  What ContentUpload       *)
(* assumes of its constants is a hypothesis here.  The types, that only    *)
(* the declared file is stored (OnlyTheDeclaredIsStored) and that what was *)
(* acknowledged stays acknowledged (AcknowledgedStays).                    *)
(*                                                                         *)
(* What is stored rests on the job, which encrypts what it has compared    *)
(* and stores what it has encrypted (StoredSound), so it needs nothing of  *)
(* leases.  The second needs them: while none has run out, one worker      *)
(* knows the session as it is (SessionKnown), and while the file is not    *)
(* damaged either, it holds every chunk with a receipt (Staged), so the    *)
(* offset a restart begins with is not above what is whole.                *)
(***************************************************************************)
CONSTANTS Requests, Finalizer, Chunks, MaxEdits, MaxFaults, MaxStalls, Torn
VARIABLES row, receipts, lease, staged, sealed, object, blob, verified, failure, calls, known,
          source, client, edits, faults, stalls, damaged

Upload == INSTANCE ContentUpload

\* Where a worker is: after Arrive it holds the lease, and some places are the job's alone.
Holding == {"stat", "read", "record", "trim", "act", "write", "receipt", "close",
            "encrypt", "put", "register", "unlink"}
JobOnly == {"encrypt", "put", "register", "unlink"}
WorkPlaces  == {"idle", "sent"} \cup Holding

\* A worker and a device, and the types of what the server keeps.
WorkRows == [pc : WorkPlaces, kind : {"begin", "chunk", "complete"}, index : Upload!Index,
              val : BOOLEAN,
          size : Nat, offset : 0 .. Chunks, complete : BOOLEAN, live : BOOLEAN]

ClientRows == [pc : {"idle", "begin", "send", "chunk", "poll", "finish", "done"},
            next : 1 .. Chunks + 1, changed : BOOLEAN]

TypeServer ==
    /\ row \in [offset : 0 .. Chunks, complete : BOOLEAN]
    /\ receipts \in [Upload!Index -> {TRUE, FALSE, None}]
    /\ lease \in {"free", "ours", "past"}
    /\ staged \in Seq(Upload!Values) \cup {None}
TypeStored == /\ sealed \in {None, Upload!Original} /\ object \in {None, Upload!Original}
              /\ blob \in BOOLEAN
TypeMemory == /\ verified \in BOOLEAN /\ failure \in BOOLEAN /\ known \in BOOLEAN
              /\ calls \in [Upload!Workers -> WorkRows]
TypeDevice == /\ source \in [Upload!Index -> BOOLEAN]
              /\ client \in ClientRows
TypeBounds == edits \in Nat /\ faults \in Nat /\ stalls \in Nat /\ damaged \in BOOLEAN
UploadTypeOK == TypeServer /\ TypeStored /\ TypeMemory /\ TypeDevice /\ TypeBounds

\* What only the job does, and the job only.
JobAlone ==
    \A w \in Upload!Workers :
        /\ calls[w].pc \in JobOnly => w = Finalizer
        /\ calls[w].kind = "complete" => w = Finalizer

\* What is stored is the declared file, and a complete session has it.
StoredSound ==
    /\ Upload!At(Finalizer, "put") => sealed = Upload!Original
    /\ Upload!At(Finalizer, "register") => object = Upload!Original
    /\ blob => object = Upload!Original
    /\ row.complete => blob
    /\ client.pc \in {"finish", "done"} => blob

\* Worker w has taken the lease.
Holds(w) == calls[w].pc \in Holding

\* Until a lease runs out, one worker holds it ...
LeaseExclusive ==
    stalls = 0 =>
        /\ \A w \in Upload!Workers : Holds(w) => lease = "ours"
        /\ \A w, v \in Upload!Workers : Holds(w) /\ Holds(v) => w = v

\* ... the receipts are those of the chunks before the offset ...
Recorded == \A i \in Upload!Index : receipts[i] # None <=> i <= row.offset

\* ... and what the holder has read of the session is so.
KnownBy(w) ==
    /\ calls[w].pc \in {"stat", "act"} => calls[w].complete = row.complete
    /\ calls[w].pc \in {"read", "record", "trim", "write", "receipt"} =>
          ~row.complete /\ ~calls[w].complete
    /\ calls[w].pc \in {"stat", "read", "trim", "act"} => calls[w].offset = row.offset
    /\ calls[w].pc \in {"write", "receipt"} => calls[w].index = row.offset + 1
    /\ calls[w].pc = "record" => calls[w].offset <= row.offset
    /\ calls[w].pc = "unlink" => row.complete
SessionKnown == stalls = 0 => Recorded /\ \A w \in Upload!Workers : KnownBy(w)

\* And until somebody damages the staging file, its first chunks are the ones recorded, ...
Whole(n) == \A i \in 1 .. n : i <= Len(Upload!Bytes) /\ receipts[i] = Upload!Bytes[i]
Kept     == ~row.complete => Whole(row.offset)

\* ... and the holder knows how much of it there is.
StagedFor(w) ==
    /\ calls[w].pc = "read" => calls[w].size = Len(Upload!Bytes)
    /\ calls[w].pc = "record" => calls[w].offset >= row.offset /\ Whole(calls[w].offset)
    /\ calls[w].pc = "receipt" => /\ calls[w].index <= Len(Upload!Bytes)
                                  /\ Upload!Bytes[calls[w].index] = calls[w].val
Staged == stalls = 0 /\ ~damaged => Kept /\ \A w \in Upload!Workers : StagedFor(w)

\* The inductive invariant; Sound is the part of it that is about the holder of the lease.
UploadInv == UploadTypeOK /\ JobAlone /\ StoredSound /\ LeaseExclusive /\ SessionKnown /\ Staged

Sound == LeaseExclusive /\ SessionKnown /\ Staged /\ JobAlone

\* A set of natural numbers that has a member has a least one.
LEMMA LeastNumber ==
  ASSUME NEW T \in SUBSET Nat, T # {}
  PROVE  \E n \in T : \A m \in T : n <= m
<1>1. \E n \in T : \A m \in T : ~(<<m, n>> \in OpToRel(<, Nat))
  <2> DEFINE R == OpToRel(<, Nat)
  <2>1. IsWellFoundedOn(R, Nat) BY NatLessThanWellFounded
  <2> HIDE DEF R
  <2>2. \E n \in T : \A m \in T : ~(<<m, n>> \in R) BY <2>1, WFMin
  <2> QED BY <2>2 DEF R
<1>2. PICK n \in T : \A m \in T : ~(<<m, n>> \in OpToRel(<, Nat))
  BY <1>1, Zenon
<1>3. ASSUME NEW m \in T PROVE n <= m
  <2>1. ~(<<m, n>> \in {ss \in Nat \X Nat : ss[1] < ss[2]})
    BY <1>2, Zenon DEF OpToRel
  <2>2. m \in Nat /\ n \in Nat OBVIOUS
  <2>3. <<m, n>> \in Nat \X Nat /\ <<m, n>>[1] = m /\ <<m, n>>[2] = n
    BY <2>2
  <2>4. ~(m < n) BY <2>1, <2>3
  <2> QED BY <2>4, <2>2
<1> QED BY <1>3, <1>2

\* What the types say of the staging file, the session and the workers.
LEMMA Types ==
  ASSUME Upload!ChunksAssumption,
         UploadTypeOK
  PROVE  /\ Upload!Bytes \in Seq(Upload!Values) /\ Len(Upload!Bytes) \in Nat
         /\ row.offset \in 0 .. Chunks /\ row.complete \in BOOLEAN
         /\ \A w \in Upload!Workers : calls[w] \in WorkRows
         /\ Upload!Original \in Seq(BOOLEAN) /\ Chunks \in Nat
         /\ client.next \in Nat
<1>1. staged = None \/ staged \in Seq(Upload!Values) BY DEF UploadTypeOK, TypeServer
<1>2. Upload!Bytes \in Seq(Upload!Values) BY <1>1 DEF Upload!Bytes
<1>3. Chunks \in Nat /\ Upload!Original \in Seq(BOOLEAN) BY DEF Upload!Original, Upload!Index
<1> QED BY <1>2, <1>3 DEF UploadTypeOK, TypeServer, TypeMemory, TypeDevice, ClientRows

\* The job is a worker, and what nobody does and has.
LEMMA Workplaces ==
  ASSUME Upload!ChunksAssumption
  PROVE  /\ Finalizer \in Upload!Workers /\ Requests \subseteq Upload!Workers
         /\ Upload!NoCall \in WorkRows
         /\ Upload!Idle.pc = "idle" /\ Upload!Idle.next = 1 /\ Upload!Idle.changed = FALSE
<1>1. 1 \in Upload!Index /\ 0 \in 0 .. Chunks BY DEF Upload!Index
<1> QED BY <1>1 DEF Upload!Workers, Upload!NoCall, WorkRows, WorkPlaces, Upload!Idle

\* One call moves on.
LEMMA Going ==
  ASSUME UploadTypeOK, NEW w \in Upload!Workers, NEW pc \in WorkPlaces, Upload!Go(w, pc)
  PROVE  /\ calls' \in [Upload!Workers -> WorkRows] /\ calls'[w] = [calls[w] EXCEPT !.pc = pc]
         /\ \A v \in Upload!Workers \ {w} : calls'[v] = calls[v]
         /\ calls'[w].pc = pc /\ calls'[w].kind = calls[w].kind /\ calls'[w].index = calls[w].index
         /\ calls'[w].val = calls[w].val /\ calls'[w].size = calls[w].size
         /\ calls'[w].offset = calls[w].offset /\ calls'[w].complete = calls[w].complete
         /\ calls'[w].live = calls[w].live
BY DEF UploadTypeOK, TypeMemory, Upload!Go, WorkRows

\* One call is over, ...
LEMMA Ending ==
  ASSUME Upload!ChunksAssumption,
         UploadTypeOK, NEW w \in Upload!Workers, Upload!End(w)
  PROVE  /\ calls' \in [Upload!Workers -> WorkRows] /\ calls'[w] = Upload!NoCall
              /\ calls'[w].pc = "idle"
         /\ \A v \in Upload!Workers \ {w} : calls'[v] = calls[v]
         /\ lease' = Upload!Released /\ known' \in BOOLEAN /\ lease' \in {"free", "ours", "past"}
         /\ calls'[w].kind = "begin"
<1>1. Upload!NoCall.pc = "idle" /\ Upload!NoCall.kind = "begin" BY DEF Upload!NoCall
<1> QED BY <1>1, Workplaces DEF UploadTypeOK, TypeMemory, TypeServer, Upload!End, Upload!Released

\* ... the device is told ...
LEMMA Replying ==
  ASSUME UploadTypeOK, NEW w \in Upload!Workers, NEW state \in ClientRows,
         state.pc \in {"idle", "send"}, Upload!Reply(w, state)
  PROVE  client' \in ClientRows /\ (client'.pc \in {"finish", "done"} => client.pc \in {"finish",
           "done"})
BY DEF Upload!Reply, UploadTypeOK, TypeDevice

\* ... that it failed.
LEMMA Aborting ==
  ASSUME Upload!ChunksAssumption,
         UploadTypeOK, NEW w \in Upload!Workers, Upload!Abort(w)
  PROVE  /\ Upload!End(w) /\ failure' \in BOOLEAN /\ client' \in ClientRows
         /\ client'.pc \in {"finish", "done"} => client.pc \in {"finish", "done"}
<1>1. Upload!Idle \in ClientRows /\ Upload!Idle.pc = "idle" BY DEF Upload!Idle, ClientRows
<1>2. calls[w].live \in BOOLEAN BY Types DEF WorkRows
<1> QED BY <1>1, <1>2, Replying DEF Upload!Abort, UploadTypeOK, TypeMemory, TypeDevice

\* What the worker that holds the lease does: the others do not hold it, so only what it knows
\* itself is in question.
LEMMA HolderSteps ==
  ASSUME UploadInv, NEW w \in Upload!Workers, Holds(w), UNCHANGED <<stalls, damaged>>,
         \A v \in Upload!Workers \ {w} : calls'[v] = calls[v],
         \/ Holds(w)' /\ lease' = lease
         \/ ~Holds(w)' /\ lease' = Upload!Released,
         calls'[w].pc \in JobOnly => w = Finalizer,
         calls'[w].kind = calls[w].kind \/ calls'[w].kind # "complete",
         stalls = 0 => Recorded' /\ KnownBy(w)',
         stalls = 0 /\ ~damaged => Kept' /\ StagedFor(w)'
  PROVE  Sound'
<1>1. JobAlone' BY DEF UploadInv, JobAlone
<1>2. stalls = 0 => \A v \in Upload!Workers \ {w} : ~Holds(v) /\ ~Holds(v)'
  BY DEF UploadInv, LeaseExclusive, Holds
<1>3. stalls = 0 => \A v \in Upload!Workers \ {w} : KnownBy(v)' /\ StagedFor(v)'
  BY <1>2 DEF KnownBy, StagedFor, Holds, Holding
<1>4. LeaseExclusive'
  <2>1. stalls = 0 => lease = "ours" BY DEF UploadInv, LeaseExclusive
  <2>2. stalls = 0 => \A v \in Upload!Workers : Holds(v)' => v = w /\ lease' = "ours" BY <1>2, <2>1
  <2> QED BY <2>2 DEF LeaseExclusive
<1>5. SessionKnown' BY <1>3 DEF SessionKnown
<1>6. Staged' BY <1>3 DEF Staged
<1> QED BY <1>1, <1>4, <1>5, <1>6 DEF Sound

\* ... and when it ends: what it leaves is as it found it.
LEMMA HolderEnds ==
  ASSUME Upload!ChunksAssumption,
         UploadInv, NEW w \in Upload!Workers, Holds(w), UNCHANGED <<stalls, damaged>>,
           Upload!End(w),
         stalls = 0 => Recorded', stalls = 0 /\ ~damaged => Kept'
  PROVE  Sound'
<1>1. UploadTypeOK BY DEF UploadInv
<1>2. ~Holds(w)' /\ calls'[w].pc = "idle" /\ calls'[w].kind = "begin" /\ lease' = Upload!Released
      /\ \A v \in Upload!Workers \ {w} : calls'[v] = calls[v]
  BY <1>1, Ending DEF Holds, Holding
<1>3. KnownBy(w)' /\ StagedFor(w)' BY <1>2 DEF KnownBy, StagedFor
<1> QED BY <1>2, <1>3, HolderSteps DEF JobOnly

\* Nothing of a session has changed.
LEMMA SessionStays ==
  ASSUME UploadInv, UNCHANGED <<row, receipts, staged>>
  PROVE  (stalls = 0 => Recorded') /\ (stalls = 0 /\ ~damaged => Kept')
BY DEF UploadInv, SessionKnown, Staged, Recorded, Kept, Whole, Upload!Bytes

\* The invariant is these three parts, before a step and after it.
LEMMA InvIs ==
  /\ (UploadInv <=> UploadTypeOK /\ StoredSound /\ Sound)
  /\ (UploadInv' <=> UploadTypeOK' /\ StoredSound' /\ Sound')
BY DEF UploadInv, Sound

\* Nothing is stored: what is, stays.
LEMMA StoredStays ==
  ASSUME UploadInv, blob' = blob, object' \in {object, Upload!Original},
         sealed' = sealed \/ calls'[Finalizer].pc # "put",
         calls'[Finalizer].pc \in {"put", "register"} => calls'[Finalizer].pc = calls[Finalizer].pc,
         row'.complete => row.complete,
         client'.pc \in {"finish", "done"} => client.pc \in {"finish", "done"}
  PROVE  StoredSound'
BY DEF UploadInv, StoredSound, Upload!At

\* The holder looks at the session and at the length of the file, ...
LEMMA StatStep ==
  ASSUME Upload!ChunksAssumption, Upload!NoneAssumption, UploadInv, NEW w \in Upload!Workers,
         Upload!Stat(w)
  PROVE  UploadInv'
<1>0. /\ UploadTypeOK /\ Finalizer \in Upload!Workers /\ calls[w] \in WorkRows /\ Holds(w)
           /\ calls[w].pc = "stat"
      /\ UNCHANGED <<row, receipts, lease, Upload!stored, verified, failure, known,
           Upload!device, Upload!bounds>>
  BY Workplaces, Types DEF UploadInv, Upload!Stat, Holds, Holding, Upload!At
<1>1. /\ staged' \in Seq(Upload!Values) \cup {None} /\ Upload!Bytes' = Upload!Bytes
      /\ calls' \in [Upload!Workers -> WorkRows]
           /\ \A v \in Upload!Workers \ {w} : calls'[v] = calls[v]
      /\ calls'[w].kind = calls[w].kind /\ calls'[w].offset = calls[w].offset
      /\ calls'[w].complete = calls[w].complete
      /\ \/ calls'[w].pc = "act" /\ calls[w].complete
         \/ calls'[w].pc \in {"read", "trim"} /\ ~calls[w].complete
              /\ calls'[w].size = Len(Upload!Bytes)
  <2>1. CASE calls[w].complete
    <3>1. Upload!Go(w, "act") /\ staged' = staged BY <2>1 DEF Upload!Stat
    <3>2. "act" \in WorkPlaces BY DEF WorkPlaces, Holding
    <3> QED BY <1>0, <2>1, <3>1, <3>2, Going DEF Upload!Bytes, UploadTypeOK, TypeServer
  <2>2. CASE ~calls[w].complete
    <3> DEFINE pc == IF ~verified \/ Len(Upload!Bytes) < calls[w].offset THEN "read" ELSE "trim"
               call == [calls[w] EXCEPT !.size = Len(Upload!Bytes), !.pc = pc]
    <3>1. staged' = Upload!Bytes /\ calls' = [calls EXCEPT ![w] = call] BY <2>2 DEF Upload!Stat
    <3>2. /\ call \in WorkRows /\ call.kind = calls[w].kind /\ call.offset = calls[w].offset
          /\ call.complete = calls[w].complete /\ call.pc \in {"read", "trim"}
               /\ call.size = Len(Upload!Bytes)
      BY <1>0, Types DEF WorkRows, WorkPlaces, Holding
    <3>3. staged' # None BY <1>0, <3>1, Types
    <3> HIDE DEF call
    <3> QED BY <1>0, <2>2, <3>1, <3>2, <3>3, Types DEF Upload!Bytes, UploadTypeOK, TypeMemory
  <2> QED BY <2>1, <2>2
<1>t. UploadTypeOK'
  BY <1>0, <1>1
     DEF UploadTypeOK, TypeServer, TypeStored, TypeMemory, TypeDevice, TypeBounds,
         Upload!stored, Upload!device, Upload!bounds
<1>s. StoredSound' BY <1>0, <1>1, StoredStays DEF Upload!stored, Upload!device
<1>p. Sound'
  <2>1. Recorded' = Recorded /\ Kept' = Kept BY <1>0, <1>1 DEF Recorded, Kept, Whole
  <2>2. stalls = 0 => Recorded /\ KnownBy(w) BY DEF UploadInv, SessionKnown
  <2>3. stalls = 0 => KnownBy(w)' BY <1>0, <1>1, <2>2 DEF KnownBy
  <2>4. stalls = 0 /\ ~damaged => Kept /\ StagedFor(w)'
    BY <1>0, <1>1
       DEF UploadInv, Staged, StagedFor
  <2>5. Holds(w)' /\ calls'[w].pc \notin JobOnly BY <1>1 DEF Holds, Holding, JobOnly
  <2> QED BY <1>0, <1>1, <2>1, <2>2, <2>3, <2>4, <2>5, HolderSteps DEF Upload!bounds
<1> QED BY <1>t, <1>s, <1>p, InvIs

\* What the disk is found to hold.
LEMMA ProvenIs ==
  ASSUME Upload!ChunksAssumption,
         UploadTypeOK, NEW size \in Nat
  PROVE  /\ Upload!Proven(size) \in 0 .. Chunks
         /\ \A i \in 1 .. Upload!Proven(size) : receipts[i] # None /\ i <= Len(Upload!Bytes)
              /\ Upload!Bytes[i] = receipts[i]
         /\ \A n \in 0 .. Chunks :
               (\A i \in 1 .. n : receipts[i] # None /\ i <= size /\ i <= Len(Upload!Bytes)
                 /\ Upload!Bytes[i] = receipts[i])
                  => n <= Upload!Proven(size)
<1> DEFINE P(n) == \A i \in 1 .. n : /\ receipts[i] # None /\ i <= size
                                    /\ i <= Len(Upload!Bytes) /\ Upload!Bytes[i] = receipts[i]
           T == {Chunks - n : n \in {m \in 0 .. Chunks : P(m)}}
<1>1. Chunks \in Nat OBVIOUS
<1>2. P(0) OBVIOUS
<1>3. T \in SUBSET Nat /\ T # {} BY <1>1, <1>2
<1> HIDE DEF P
<1>4. PICK t \in T : \A m \in T : t <= m
  <2> HIDE DEF T
  <2> QED BY <1>3, LeastNumber
<1>5. PICK n \in 0 .. Chunks : P(n) /\ t = Chunks - n BY <1>4
<1>6. ASSUME NEW m \in 0 .. Chunks, P(m) PROVE m <= n
  <2>1. Chunks - m \in T BY <1>6
  <2>2. Chunks - n <= Chunks - m BY <1>4, <1>5, <2>1
  <2> QED BY <1>1, <2>2
<1>7. Upload!Proven(size) \in 0 .. Chunks /\ P(Upload!Proven(size))
        /\ \A m \in 0 .. Chunks : P(m) => m <= Upload!Proven(size)
  BY <1>5, <1>6 DEF Upload!Proven, P
<1> QED BY <1>7 DEF P

\* ... reads the file against its receipts if it has to, ...
LEMMA ReadStep ==
  ASSUME Upload!ChunksAssumption, UploadInv, NEW w \in Upload!Workers, Upload!Read(w)
  PROVE  UploadInv'
<1>0. /\ UploadTypeOK /\ Finalizer \in Upload!Workers /\ calls[w] \in WorkRows /\ Holds(w)
           /\ calls[w].pc = "read"
      /\ UNCHANGED <<Upload!session, Upload!stored, verified, failure, known, Upload!device,
           Upload!bounds>>
  BY Workplaces, Types DEF UploadInv, Upload!Read, Holds, Holding, Upload!At
<1>1. calls[w].size \in Nat BY <1>0 DEF WorkRows
<1> DEFINE n == Upload!Proven(calls[w].size)
           call == [calls[w] EXCEPT !.offset = n, !.pc = "record"]
<1>2. n \in 0 .. Chunks BY <1>0, <1>1, ProvenIs
<1>3. call \in WorkRows /\ call.pc = "record" /\ call.offset = n /\ call.kind = calls[w].kind
        /\ call.complete = calls[w].complete
  BY <1>0, <1>2 DEF WorkRows, WorkPlaces, Holding
<1>4. calls' = [calls EXCEPT ![w] = call] BY DEF Upload!Read
<1> HIDE DEF call
<1>5. calls' \in [Upload!Workers -> WorkRows] /\ calls'[w] = call
        /\ \A v \in Upload!Workers \ {w} : calls'[v] = calls[v]
  BY <1>0, <1>3, <1>4 DEF UploadTypeOK, TypeMemory
<1>t. UploadTypeOK'
  BY <1>0, <1>5
     DEF UploadTypeOK, TypeServer, TypeStored, TypeMemory, TypeDevice, TypeBounds,
         Upload!session, Upload!stored, Upload!device, Upload!bounds
<1>s. StoredSound' BY <1>0, <1>3, <1>5, StoredStays DEF Upload!stored, Upload!device, Upload!session
<1>p. Sound'
  <2>1. /\ stalls = 0 => Recorded' /\ (stalls = 0 /\ ~damaged => Kept')
        /\ row' = row /\ lease' = lease /\ UNCHANGED <<stalls, damaged>>
        /\ \A m \in 0 .. Chunks : Whole(m)' = Whole(m)
    BY <1>0, SessionStays DEF Upload!session, Upload!bounds, Whole, Upload!Bytes
  <2>2. stalls = 0 => Recorded /\ KnownBy(w) BY DEF UploadInv, SessionKnown
  <2>3. stalls = 0 => KnownBy(w)'
    <3>1. SUFFICES ASSUME stalls = 0 PROVE KnownBy(w)' OBVIOUS
    <3>2. n <= row.offset
      <4>1. CASE n = 0 BY <1>0, <4>1, Types
      <4>2. CASE n # 0
        <5>1. n \in Upload!Index /\ n \in 1 .. n BY <1>2, <4>2 DEF Upload!Index
        <5>2. receipts[n] # None BY <1>0, <1>1, <5>1, ProvenIs
        <5> QED BY <2>2, <3>1, <5>1, <5>2 DEF Recorded
      <4> QED BY <4>1, <4>2
    <3> QED BY <1>0, <1>3, <1>5, <2>1, <2>2, <3>1, <3>2 DEF KnownBy
  <2>4. stalls = 0 /\ ~damaged => StagedFor(w)'
    <3>1. SUFFICES ASSUME stalls = 0, ~damaged PROVE StagedFor(w)' OBVIOUS
    <3>2. Kept /\ ~row.complete /\ calls[w].size = Len(Upload!Bytes) /\ Recorded
      BY <1>0, <2>2, <3>1 DEF UploadInv, Staged, StagedFor, KnownBy
    <3>3. Whole(n) BY <1>0, <1>1, ProvenIs DEF Whole
    <3>4. row.offset <= n
      <4>1. \A i \in 1 .. row.offset : i \in Upload!Index BY <1>0, Types DEF Upload!Index
      <4>2. \A i \in 1 .. row.offset :
              receipts[i] # None /\ i <= Len(Upload!Bytes) /\ Upload!Bytes[i] = receipts[i]
        BY <3>2, <4>1 DEF Kept, Whole, Recorded
      <4>3. row.offset \in 0 .. Chunks BY <1>0, Types
      <4> QED BY <1>0, <1>1, <3>2, <4>2, <4>3, ProvenIs, Types
    <3> QED BY <1>2, <1>3, <1>5, <2>1, <3>3, <3>4, Types, <1>0 DEF StagedFor
  <2>5. Holds(w)' /\ calls'[w].pc \notin JobOnly BY <1>3, <1>5 DEF Holds, Holding, JobOnly
  <2> QED BY <1>0, <1>3, <1>5, <2>1, <2>3, <2>4, <2>5, HolderSteps
<1> QED BY <1>t, <1>s, <1>p, InvIs

\* An operation that ends in error.
LEMMA AbortStep ==
  ASSUME Upload!ChunksAssumption,
         UploadInv, NEW w \in Upload!Workers, Holds(w), Upload!Abort(w),
         UNCHANGED <<row, receipts, staged, blob, source, stalls, damaged>>, object' \in {object,
           Upload!Original},
         verified' \in BOOLEAN, sealed' \in {None, Upload!Original}, edits' \in Nat,
           faults' \in Nat,
         sealed' = sealed \/ w = Finalizer
  PROVE  UploadInv'
<1>1. UploadTypeOK /\ Finalizer \in Upload!Workers BY Workplaces DEF UploadInv
<1>2. /\ Upload!End(w) /\ failure' \in BOOLEAN /\ client' \in ClientRows
      /\ client'.pc \in {"finish", "done"} => client.pc \in {"finish", "done"}
  BY <1>1, Aborting
<1>3. /\ calls' \in [Upload!Workers -> WorkRows] /\ calls'[w].pc = "idle"
      /\ \A v \in Upload!Workers \ {w} : calls'[v] = calls[v]
      /\ known' \in BOOLEAN /\ lease' \in {"free", "ours", "past"}
  BY <1>1, <1>2, Ending
<1>t. UploadTypeOK'
  <2>1. TypeServer' /\ TypeDevice' BY <1>1, <1>2, <1>3 DEF UploadTypeOK, TypeServer, TypeDevice
  <2>2. TypeStored' /\ TypeMemory' /\ TypeBounds'
    BY <1>1, <1>2, <1>3
       DEF UploadTypeOK, TypeStored, TypeMemory, TypeBounds
  <2> QED BY <2>1, <2>2 DEF UploadTypeOK
<1>s. StoredSound' BY <1>1, <1>2, <1>3, StoredStays
<1>p. Sound' BY <1>2, SessionStays, HolderEnds
<1> QED BY <1>t, <1>s, <1>p, InvIs

\* One call of the holder moves on, and nothing is stored or answered.
LEMMA GoStep ==
  ASSUME UploadInv, NEW w \in Upload!Workers, NEW pc \in Holding, Upload!Go(w, pc), Holds(w),
         UNCHANGED <<lease, failure, known, client, source, stalls, damaged>>,
         TypeServer', TypeStored', verified' \in BOOLEAN, edits' \in Nat, faults' \in Nat,
         pc \in JobOnly => w = Finalizer,
         StoredSound',
         stalls = 0 => Recorded' /\ KnownBy(w)',
         stalls = 0 /\ ~damaged => Kept' /\ StagedFor(w)'
  PROVE  UploadInv'
<1>1. UploadTypeOK /\ pc \in WorkPlaces BY DEF UploadInv, WorkPlaces
<1>2. /\ calls' \in [Upload!Workers -> WorkRows] /\ calls'[w].pc = pc
           /\ calls'[w].kind = calls[w].kind
      /\ \A v \in Upload!Workers \ {w} : calls'[v] = calls[v]
  BY <1>1, Going
<1>3. UploadTypeOK' BY <1>1, <1>2 DEF UploadTypeOK, TypeMemory, TypeDevice, TypeBounds
<1>4. Holds(w)' BY <1>2 DEF Holds
<1>5. Sound' BY <1>2, <1>4, HolderSteps
<1> QED BY <1>3, <1>5, InvIs

\* ... takes the session back to what it has proven ...
LEMMA RecordStep ==
  ASSUME Upload!ChunksAssumption, UploadInv, NEW w \in Upload!Workers, Upload!Record(w)
  PROVE  UploadInv'
<1>0. /\ UploadTypeOK /\ Finalizer \in Upload!Workers /\ calls[w] \in WorkRows /\ Holds(w)
           /\ calls[w].pc = "record"
      /\ UNCHANGED <<staged, sealed, object, blob, source, edits, faults, stalls, damaged>>
  BY Workplaces, Types
     DEF UploadInv, Upload!Record, Holds, Holding, Upload!At, Upload!stored, Upload!bounds
<1>1. CASE lease = "ours"
  <2>1. /\ Upload!RecordProven(w) /\ Upload!Go(w, "trim")
             /\ UNCHANGED <<lease, failure, known, client>>
    BY <1>1 DEF Upload!Record
  <2>2. /\ calls'[w].pc = "trim" /\ calls'[w].offset = calls[w].offset
             /\ calls'[w].complete = calls[w].complete
        /\ \A v \in Upload!Workers \ {w} : calls'[v] = calls[v]
    BY <1>0, <2>1, Going DEF WorkPlaces, Holding
  <2>3. calls[w].offset \in 0 .. Chunks BY <1>0 DEF WorkRows
  <2>4. row' = [offset |-> calls[w].offset, complete |-> FALSE] /\ verified' = TRUE
        /\ receipts' = [i \in Upload!Index |-> IF i <= calls[w].offset THEN receipts[i] ELSE None]
    BY <2>1 DEF Upload!RecordProven
  <2>5. TypeServer' /\ TypeStored'
    BY <1>0, <2>1, <2>3, <2>4
       DEF UploadTypeOK, TypeServer, TypeStored
  <2>6. StoredSound' BY <1>0, <2>1, <2>2, <2>4, StoredStays
  <2>7. stalls = 0 => KnownBy(w) BY DEF UploadInv, SessionKnown
  <2>8. stalls = 0 => KnownBy(w)' BY <1>0, <2>2, <2>4, <2>7 DEF KnownBy
  <2>9. stalls = 0 => Recorded'
    <3>1. SUFFICES ASSUME stalls = 0 PROVE Recorded' OBVIOUS
    <3>2. Recorded /\ calls[w].offset <= row.offset
      BY <1>0, <2>7, <3>1
         DEF UploadInv, SessionKnown, KnownBy
    <3>3. \A i \in Upload!Index : receipts'[i] = IF i <= calls[w].offset THEN receipts[i] ELSE None
      BY <2>4
    <3>4. row'.offset = calls[w].offset /\ \A i \in Upload!Index : i \in Nat
      BY <2>4
         DEF Upload!Index
    <3>5. \A i \in Upload!Index : i <= calls[w].offset => i <= row.offset
      BY <1>0, <2>3, <3>2, <3>4, Types
    <3> QED BY <3>2, <3>3, <3>4, <3>5 DEF Recorded
  <2>10. stalls = 0 /\ ~damaged => Kept' /\ StagedFor(w)'
    <3>1. SUFFICES ASSUME stalls = 0, ~damaged PROVE Kept' /\ StagedFor(w)' OBVIOUS
    <3>2. Whole(calls[w].offset) BY <1>0, <3>1 DEF UploadInv, Staged, StagedFor
    <3>3. \A i \in 1 .. calls[w].offset : i \in Upload!Index /\ i <= calls[w].offset
      BY <2>3
         DEF Upload!Index
    <3> QED BY <1>0, <2>2, <2>4, <3>2, <3>3 DEF Kept, Whole, Upload!Bytes, StagedFor
  <2> QED BY <1>0, <2>1, <2>4, <2>5, <2>6, <2>8, <2>9, <2>10, GoStep
      DEF Holding, JobOnly, UploadTypeOK, TypeBounds
<1>2. CASE lease # "ours"
  <2>1. Upload!Abort(w) /\ UNCHANGED <<row, receipts, verified>> BY <1>2 DEF Upload!Record
  <2> QED BY <1>0, <2>1, AbortStep DEF UploadTypeOK, TypeStored, TypeMemory, TypeBounds
<1> QED BY <1>1, <1>2

\* The file at another length.
LEMMA ResizedIs ==
  ASSUME Upload!ChunksAssumption,
         UploadTypeOK, NEW n \in Nat
  PROVE  /\ Upload!Resized(n) \in Seq(Upload!Values) /\ Len(Upload!Resized(n)) = n
         /\ \A i \in 1 .. n : i <= Len(Upload!Bytes) => Upload!Resized(n)[i] = Upload!Bytes[i]
<1>1. Upload!Bytes \in Seq(Upload!Values) /\ Len(Upload!Bytes) \in Nat BY Types
<1>2. \A i \in 1 .. n : i <= Len(Upload!Bytes) => Upload!Bytes[i] \in Upload!Values BY <1>1
<1>3. Torn \in Upload!Values BY DEF Upload!Values
<1>4. Upload!Resized(n) = [i \in 1 .. n |-> IF i <= Len(Upload!Bytes)
        THEN Upload!Bytes[i] ELSE Torn]
  BY DEF Upload!Resized
<1> QED BY <1>2, <1>3, <1>4

\* ... and cuts off what nobody acknowledged.
LEMMA TrimStep ==
  ASSUME Upload!ChunksAssumption, Upload!NoneAssumption, UploadInv, NEW w \in Upload!Workers,
         Upload!Trim(w)
  PROVE  UploadInv'
<1>0. /\ UploadTypeOK /\ Finalizer \in Upload!Workers /\ calls[w] \in WorkRows /\ Holds(w)
           /\ calls[w].pc = "trim"
      /\ Upload!Go(w, "act")
      /\ UNCHANGED <<row, receipts, lease, sealed, object, blob, verified, failure, known,
           source, client, edits, faults, stalls, damaged>>
  BY Workplaces, Types
     DEF UploadInv, Upload!Trim, Holds, Holding, Upload!At, Upload!stored, Upload!bounds,
         Upload!device
<1>1. calls[w].offset \in 0 .. Chunks /\ calls[w].offset \in Nat BY <1>0 DEF WorkRows
<1>2. /\ calls'[w].pc = "act" /\ calls'[w].offset = calls[w].offset
           /\ calls'[w].complete = calls[w].complete
      /\ \A v \in Upload!Workers \ {w} : calls'[v] = calls[v]
  BY <1>0, Going DEF WorkPlaces, Holding
<1>3. \/ staged' = staged
      \/ staged' = Upload!Resized(calls[w].offset) /\ staged' # None
           /\ staged' \in Seq(Upload!Values)
  BY <1>0, <1>1, ResizedIs DEF Upload!Trim
<1>4. TypeServer' /\ TypeStored' BY <1>0, <1>3 DEF UploadTypeOK, TypeServer, TypeStored
<1>5. StoredSound' BY <1>0, <1>2, StoredStays
<1>6. stalls = 0 => Recorded /\ KnownBy(w) BY DEF UploadInv, SessionKnown
<1>7. stalls = 0 => Recorded' /\ KnownBy(w)'
  <2>1. calls[w].complete \in BOOLEAN /\ row.complete \in BOOLEAN BY <1>0, Types DEF WorkRows
  <2> QED BY <1>0, <1>2, <1>6, <2>1 DEF KnownBy, Recorded
<1>8. stalls = 0 /\ ~damaged => Kept' /\ StagedFor(w)'
  <2>1. SUFFICES ASSUME stalls = 0, ~damaged PROVE Kept' BY <1>2 DEF StagedFor
  <2>2. Whole(row.offset) /\ calls[w].offset = row.offset
    BY <1>0, <1>6, <2>1
       DEF UploadInv, Staged, Kept, KnownBy
  <2>3. CASE staged' = staged BY <1>0, <2>2, <2>3 DEF Kept, Whole, Upload!Bytes
  <2>4. CASE staged' # staged
    <3>1. Upload!Bytes' = Upload!Resized(row.offset) BY <1>3, <2>2, <2>4 DEF Upload!Bytes
    <3>2. Len(Upload!Bytes') = row.offset
            /\ \A i \in 1 .. row.offset : i <= Len(Upload!Bytes)
                 => Upload!Bytes'[i] = Upload!Bytes[i]
      BY <1>0, <1>1, <2>2, <3>1, ResizedIs
    <3>3. \A i \in 1 .. row.offset : i <= Len(Upload!Bytes) /\ receipts[i] = Upload!Bytes[i]
            /\ i <= row.offset
      BY <1>1, <2>2 DEF Whole
    <3>4. \A i \in 1 .. row.offset : i <= Len(Upload!Bytes') /\ receipts'[i] = Upload!Bytes'[i]
      BY <1>0, <3>2, <3>3
    <3> QED BY <1>0, <3>4 DEF Kept, Whole
  <2> QED BY <2>3, <2>4
<1> QED
  BY <1>0, <1>4, <1>5, <1>7, <1>8, GoStep
     DEF Holding, JobOnly, UploadTypeOK, TypeBounds, TypeMemory

\* The device is told where to go on.
LEMMA Resuming ==
  ASSUME Upload!ChunksAssumption,
         UploadTypeOK, NEW state, state.offset \in 0 .. Chunks
  PROVE  /\ Upload!Resume(state) \in 1 .. Chunks + 1
         /\ [client EXCEPT !.pc = "send", !.next = Upload!Resume(state)] \in ClientRows
         /\ [client EXCEPT !.pc = "send", !.next = Upload!Resume(state)].pc = "send"
<1>1. Upload!Resume(state) \in 1 .. Chunks + 1 BY DEF Upload!Resume
<1> QED BY <1>1 DEF UploadTypeOK, TypeDevice, ClientRows

\* A call that ends well.
LEMMA EndStep ==
  ASSUME Upload!ChunksAssumption,
         UploadInv, NEW w \in Upload!Workers, Holds(w), Upload!End(w), client' \in ClientRows,
         client'.pc \in {"finish", "done"} => client.pc \in {"finish", "done"},
         TypeServer', verified' \in BOOLEAN,
         UNCHANGED <<row, receipts, sealed, object, blob, failure, source, edits, faults, stalls,
           damaged>>,
         stalls = 0 /\ ~damaged => Kept'
  PROVE  UploadInv'
<1>1. UploadTypeOK /\ Finalizer \in Upload!Workers BY Workplaces DEF UploadInv
<1>2. /\ calls' \in [Upload!Workers -> WorkRows] /\ calls'[w].pc = "idle"
      /\ known' \in BOOLEAN /\ \A v \in Upload!Workers \ {w} : calls'[v] = calls[v]
  BY <1>1, Ending
<1>t. UploadTypeOK' BY <1>1, <1>2 DEF UploadTypeOK, TypeStored, TypeMemory, TypeDevice, TypeBounds
<1>s. StoredSound' BY <1>1, <1>2, StoredStays
<1>3. stalls = 0 => Recorded' BY DEF UploadInv, SessionKnown, Recorded
<1>p. Sound' BY <1>3, HolderEnds
<1> QED BY <1>t, <1>s, <1>p, InvIs

\* The device is told the offset, ...
LEMMA AnswerBeginStep ==
  ASSUME Upload!ChunksAssumption, UploadInv, NEW w \in Upload!Workers, Upload!AnswerBegin(w)
  PROVE  UploadInv'
<1>0. /\ UploadTypeOK /\ calls[w] \in WorkRows /\ Holds(w) /\ Upload!End(w)
      /\ UNCHANGED <<row, receipts, staged, sealed, object, blob, verified, failure, source,
           edits, faults, stalls, damaged>>
  BY Types
     DEF UploadInv, Upload!AnswerBegin, Holds, Holding, Upload!At, Upload!stored, Upload!bounds
<1>1. calls[w].offset \in 0 .. Chunks BY <1>0 DEF WorkRows
<1>2. client' \in ClientRows /\ (client'.pc \in {"finish", "done"} => client.pc \in {"finish",
        "done"})
  BY <1>0, <1>1, Resuming, Replying DEF Upload!AnswerBegin
<1>3. TypeServer' BY <1>0, Ending DEF UploadTypeOK, TypeServer
<1> QED BY <1>0, <1>2, <1>3, SessionStays, EndStep DEF UploadTypeOK, TypeMemory

\* ... or that its chunk is there.
LEMMA Acknowledging ==
  ASSUME Upload!ChunksAssumption,
         UploadTypeOK, NEW w \in Upload!Workers, Upload!Acknowledged(w)
  PROVE  client' \in ClientRows /\ (client'.pc \in {"finish", "done"} => client.pc \in {"finish",
           "done"})
<1>1. calls[w].index + 1 \in 1 .. Chunks + 1 BY Types DEF WorkRows, Upload!Index
<1>2. [client EXCEPT !.pc = "send", !.next = calls[w].index + 1] \in ClientRows
      /\ [client EXCEPT !.pc = "send", !.next = calls[w].index + 1].pc = "send"
  BY <1>1 DEF UploadTypeOK, TypeDevice, ClientRows
<1> QED BY <1>2, Replying DEF Upload!Acknowledged

\* A chunk is answered from its receipt, is the next one, or is refused.
LEMMA ChunkStep ==
  ASSUME Upload!ChunksAssumption, UploadInv, NEW w \in Upload!Workers, Upload!Chunk(w)
  PROVE  UploadInv'
<1>0. /\ UploadTypeOK /\ Finalizer \in Upload!Workers /\ calls[w] \in WorkRows /\ Holds(w)
           /\ calls[w].pc = "act"
      /\ UNCHANGED <<row, receipts, staged, sealed, object, blob, verified, source, edits,
           faults, stalls, damaged>>
  BY Workplaces, Types
     DEF UploadInv, Upload!Chunk, Holds, Holding, Upload!At, Upload!stored, Upload!bounds
<1>1. CASE Upload!End(w) /\ Upload!Acknowledged(w) /\ UNCHANGED failure
  <2>1. TypeServer' BY <1>0, <1>1, Ending DEF UploadTypeOK, TypeServer
  <2> QED BY <1>0, <1>1, <2>1, Acknowledging, SessionStays, EndStep DEF UploadTypeOK, TypeMemory
<1>2. CASE Upload!Abort(w)
  BY <1>0, <1>2, AbortStep
     DEF UploadTypeOK, TypeStored, TypeMemory, TypeBounds
<1>3. CASE /\ calls[w].index = calls[w].offset + 1 /\ ~calls[w].complete
           /\ Upload!Go(w, "write") /\ UNCHANGED <<lease, known, client, failure>>
  <2>1. /\ calls'[w].pc = "write" /\ calls'[w].index = calls[w].index
             /\ calls'[w].complete = calls[w].complete
        /\ \A v \in Upload!Workers \ {w} : calls'[v] = calls[v]
    BY <1>0, <1>3, Going DEF WorkPlaces, Holding
  <2>2. TypeServer' /\ TypeStored' BY <1>0, <1>3 DEF UploadTypeOK, TypeServer, TypeStored
  <2>3. StoredSound' BY <1>0, <1>3, <2>1, StoredStays
  <2>4. stalls = 0 => Recorded /\ KnownBy(w) BY DEF UploadInv, SessionKnown
  <2>5. stalls = 0 => Recorded' /\ KnownBy(w)' BY <1>0, <1>3, <2>1, <2>4 DEF KnownBy, Recorded
  <2>6. StagedFor(w)' BY <2>1 DEF StagedFor
  <2> QED BY <1>0, <1>3, <2>2, <2>3, <2>5, <2>6, SessionStays, GoStep
      DEF Holding, JobOnly, UploadTypeOK, TypeBounds, TypeMemory
<1> QED BY <1>1, <1>2, <1>3 DEF Upload!Chunk

\* It is written at its place, ...
LEMMA WriteStep ==
  ASSUME Upload!ChunksAssumption, Upload!NoneAssumption, UploadInv, NEW w \in Upload!Workers,
         Upload!Write(w)
  PROVE  UploadInv'
<1>0. /\ UploadTypeOK /\ Finalizer \in Upload!Workers /\ calls[w] \in WorkRows /\ Holds(w)
           /\ calls[w].pc = "write"
      /\ UNCHANGED <<row, receipts, sealed, object, blob, verified, source, edits, faults,
           stalls, damaged>>
  BY Workplaces, Types
     DEF UploadInv, Upload!Write, Holds, Holding, Upload!At, Upload!stored, Upload!bounds
<1>1. CASE staged = None
  <2>1. Upload!Abort(w) /\ staged' = staged BY <1>1 DEF Upload!Write
  <2> QED BY <1>0, <2>1, AbortStep DEF UploadTypeOK, TypeStored, TypeMemory, TypeBounds
<1>2. CASE staged # None
  <2> DEFINE i == calls[w].index
             n == IF Len(staged) < i THEN i ELSE Len(staged)
             next == [Upload!Resized(n) EXCEPT ![i] = calls[w].val]
  <2>0. calls[w].val \in BOOLEAN /\ i \in Upload!Index BY <1>0 DEF WorkRows
  <2>1. i \in Nat /\ i > 0 /\ calls[w].val \in Upload!Values
    <3>1. calls[w].val \in Upload!Values BY <2>0, Zenon DEF Upload!Values
    <3> QED BY <2>0, <3>1 DEF Upload!Index
  <2>2. Upload!Bytes = staged /\ Len(staged) \in Nat /\ n \in Nat /\ i \in 1 .. n
    BY <1>0, <1>2, <2>1, Types
       DEF Upload!Bytes
  <2>3. /\ Upload!Resized(n) \in Seq(Upload!Values) /\ Len(Upload!Resized(n)) = n
        /\ \A j \in 1 .. n : j <= Len(Upload!Bytes) => Upload!Resized(n)[j] = Upload!Bytes[j]
    BY <1>0, <2>2, ResizedIs
  <2>4. /\ staged' = next /\ Upload!Go(w, "receipt") /\ UNCHANGED <<lease, known, client, failure>>
    BY <1>2 DEF Upload!Write
  <2> HIDE DEF n
  <2>5. /\ next \in Seq(Upload!Values) /\ Len(next) = n /\ next[i] = calls[w].val
        /\ \A j \in 1 .. n : j # i => next[j] = Upload!Resized(n)[j]
    BY <2>1, <2>2, <2>3
  <2> HIDE DEF next
  <2>6. staged' # None /\ Upload!Bytes' = next BY <2>4, <2>5 DEF Upload!Bytes
  <2>7. /\ calls'[w].pc = "receipt" /\ calls'[w].index = i /\ calls'[w].complete = calls[w].complete
        /\ calls'[w].val = calls[w].val
        /\ \A v \in Upload!Workers \ {w} : calls'[v] = calls[v]
    BY <1>0, <2>4, Going DEF WorkPlaces, Holding
  <2>8. TypeServer' /\ TypeStored' BY <1>0, <2>4, <2>5 DEF UploadTypeOK, TypeServer, TypeStored
  <2>9. StoredSound' BY <1>0, <2>4, <2>7, StoredStays
  <2>10. stalls = 0 => Recorded /\ KnownBy(w) BY DEF UploadInv, SessionKnown
  <2>11. stalls = 0 => Recorded' /\ KnownBy(w)' BY <1>0, <2>7, <2>10 DEF KnownBy, Recorded
  <2>12. stalls = 0 /\ ~damaged => Kept' /\ StagedFor(w)'
    <3>1. SUFFICES ASSUME stalls = 0, ~damaged PROVE Kept' /\ StagedFor(w)' OBVIOUS
    <3>2. StagedFor(w)' BY <2>2, <2>5, <2>6, <2>7 DEF StagedFor
    <3>3. Whole(row.offset) /\ i = row.offset + 1
      BY <1>0, <2>10, <3>1
         DEF UploadInv, Staged, Kept, KnownBy
    <3>4. \A j \in 1 .. row.offset : j <= Len(Upload!Bytes) /\ j \in 1 .. n /\ j # i
      BY <1>0, <2>2, <3>3, Types DEF Whole
    <3>5. Kept' BY <1>0, <2>2, <2>3, <2>5, <2>6, <3>3, <3>4 DEF Kept, Whole
    <3> QED BY <3>2, <3>5
  <2> QED
    BY <1>0, <2>4, <2>8, <2>9, <2>11, <2>12, GoStep
       DEF Holding, JobOnly, UploadTypeOK, TypeBounds, TypeMemory
<1> QED BY <1>1, <1>2

\* ... its receipt is recorded and the offset moves on.
LEMMA ReceiptStep ==
  ASSUME Upload!ChunksAssumption, Upload!NoneAssumption, UploadInv, NEW w \in Upload!Workers,
         Upload!Receipt(w)
  PROVE  UploadInv'
<1>0. /\ UploadTypeOK /\ Finalizer \in Upload!Workers /\ calls[w] \in WorkRows /\ Holds(w)
           /\ calls[w].pc = "receipt"
      /\ UNCHANGED <<staged, sealed, object, blob, verified, source, edits, faults, stalls,
           damaged>>
  BY Workplaces, Types
     DEF UploadInv, Upload!Receipt, Holds, Holding, Upload!At, Upload!stored, Upload!bounds
<1>1. CASE lease = "ours" /\ receipts[calls[w].index] = None
  <2> DEFINE i == calls[w].index
  <2>1. /\ receipts' = [receipts EXCEPT ![i] = calls[w].val] /\ row' = [row EXCEPT !.offset = i]
        /\ Upload!Go(w, "close") /\ UNCHANGED <<lease, known, client, failure>>
    BY <1>1 DEF Upload!Receipt
  <2>2. i \in Upload!Index /\ calls[w].val \in BOOLEAN /\ i \in 0 .. Chunks
    BY <1>0
       DEF WorkRows, Upload!Index
  <2>3. calls'[w].pc = "close" /\ \A v \in Upload!Workers \ {w} : calls'[v] = calls[v]
    BY <1>0, <2>1, Going DEF WorkPlaces, Holding
  <2>4. /\ row'.offset = i /\ row'.complete = row.complete /\ receipts'[i] = calls[w].val
        /\ \A j \in Upload!Index : j # i => receipts'[j] = receipts[j]
    BY <1>0, <2>1, <2>2 DEF UploadTypeOK, TypeServer
  <2>5. TypeServer' /\ TypeStored' BY <1>0, <2>1, <2>2 DEF UploadTypeOK, TypeServer, TypeStored
  <2>6. StoredSound' BY <1>0, <2>1, <2>3, <2>4, StoredStays
  <2>7. stalls = 0 => Recorded /\ i = row.offset + 1 BY <1>0 DEF UploadInv, SessionKnown, KnownBy
  <2>8. calls[w].val # None BY <2>2 DEF Upload!Values
  <2>9. stalls = 0 => Recorded' BY <1>0, <2>2, <2>4, <2>7, <2>8, Types DEF Recorded, Upload!Index
  <2>10. KnownBy(w)' /\ StagedFor(w)' BY <2>3 DEF KnownBy, StagedFor
  <2>11. stalls = 0 /\ ~damaged => Kept'
    <3>1. SUFFICES ASSUME stalls = 0, ~damaged PROVE \A j \in 1 .. i : j <= Len(Upload!Bytes)
                     /\ receipts'[j] = Upload!Bytes[j]
      BY <1>0, <2>4 DEF Kept, Whole, Upload!Bytes
    <3>2. i <= Len(Upload!Bytes) /\ Upload!Bytes[i] = calls[w].val /\ ~row.complete
            /\ Whole(row.offset)
      BY <1>0, <3>1 DEF UploadInv, Staged, StagedFor, Kept, SessionKnown, KnownBy
    <3>3. \A j \in 1 .. i : j = i \/ (j \in 1 .. row.offset /\ j # i /\ j \in Upload!Index)
      BY <1>0, <2>7, <3>1, Types DEF Upload!Index
    <3>4. i <= Len(Upload!Bytes) /\ receipts'[i] = Upload!Bytes[i] BY <2>4, <3>2
    <3>5. \A j \in 1 .. row.offset : j <= Len(Upload!Bytes) /\ receipts[j] = Upload!Bytes[j]
      BY <3>2
         DEF Whole
    <3>6. \A j \in Upload!Index : j # i => receipts'[j] = receipts[j] BY <2>4
    <3> HIDE DEF i
    <3> QED BY <3>3, <3>4, <3>5, <3>6
  <2> QED
    BY <1>0, <2>1, <2>5, <2>6, <2>9, <2>10, <2>11, GoStep
       DEF Holding, JobOnly, UploadTypeOK, TypeBounds, TypeMemory
<1>2. CASE ~(lease = "ours" /\ receipts[calls[w].index] = None)
  <2>1. Upload!Abort(w) /\ UNCHANGED <<row, receipts>> BY <1>2 DEF Upload!Receipt
  <2> QED BY <1>0, <2>1, AbortStep DEF UploadTypeOK, TypeStored, TypeMemory, TypeBounds
<1> QED BY <1>1, <1>2

\* The device is told, and the lease given back.
LEMMA CloseStep ==
  ASSUME Upload!ChunksAssumption, UploadInv, NEW w \in Upload!Workers, Upload!Close(w)
  PROVE  UploadInv'
<1>0. /\ UploadTypeOK /\ Holds(w) /\ Upload!End(w) /\ Upload!Acknowledged(w)
      /\ UNCHANGED <<row, receipts, staged, sealed, object, blob, verified, failure, source,
           edits, faults, stalls, damaged>>
  BY DEF UploadInv, Upload!Close, Holds, Holding, Upload!At, Upload!stored, Upload!bounds
<1>1. TypeServer' BY <1>0, Ending DEF UploadTypeOK, TypeServer
<1> QED BY <1>0, <1>1, Acknowledging, SessionStays, EndStep DEF UploadTypeOK, TypeMemory

\* The job begins when every chunk has been acknowledged, ...
LEMMA CompleteStep ==
  ASSUME Upload!ChunksAssumption, UploadInv, NEW w \in Upload!Workers, Upload!Complete(w)
  PROVE  UploadInv'
<1>0. /\ UploadTypeOK /\ Finalizer \in Upload!Workers /\ calls[w] \in WorkRows /\ Holds(w)
           /\ calls[w].pc = "act"
      /\ w = Finalizer
      /\ UNCHANGED <<row, receipts, staged, sealed, object, blob, verified, source, edits,
           faults, stalls, damaged>>
  BY Workplaces, Types
     DEF UploadInv, JobAlone, Upload!Complete, Holds, Holding, Upload!At, Upload!stored,
         Upload!bounds
<1>1. CASE Upload!End(w) /\ UNCHANGED <<client, failure>>
  <2>1. TypeServer' BY <1>0, <1>1, Ending DEF UploadTypeOK, TypeServer
  <2> QED BY <1>0, <1>1, <2>1, SessionStays, EndStep DEF UploadTypeOK, TypeMemory, TypeDevice
<1>2. CASE Upload!Abort(w)
  BY <1>0, <1>2, AbortStep
     DEF UploadTypeOK, TypeStored, TypeMemory, TypeBounds
<1>3. CASE Upload!Go(w, "encrypt") /\ UNCHANGED <<lease, known, client, failure>>
  <2>1. /\ calls'[w].pc = "encrypt" /\ \A v \in Upload!Workers \ {w} : calls'[v] = calls[v]
    BY <1>0, <1>3, Going DEF WorkPlaces, Holding
  <2>2. TypeServer' /\ TypeStored' BY <1>0, <1>3 DEF UploadTypeOK, TypeServer, TypeStored
  <2>3. StoredSound' BY <1>0, <1>3, <2>1, StoredStays
  <2>4. KnownBy(w)' /\ StagedFor(w)' BY <2>1 DEF KnownBy, StagedFor
  <2> QED BY <1>0, <1>3, <2>2, <2>3, <2>4, SessionStays, GoStep
      DEF Holding, JobOnly, UploadTypeOK, TypeBounds, TypeMemory
<1> QED BY <1>1, <1>2, <1>3 DEF Upload!Complete

\* ... compares the bytes with the declared ones, encrypts them ...
LEMMA EncryptStep ==
  ASSUME Upload!ChunksAssumption, UploadInv, NEW w \in Upload!Workers, Upload!Encrypt(w)
  PROVE  UploadInv'
<1>0. /\ UploadTypeOK /\ Finalizer \in Upload!Workers /\ calls[w] \in WorkRows /\ Holds(w)
           /\ calls[w].pc = "encrypt"
      /\ w = Finalizer
      /\ UNCHANGED <<row, receipts, staged, object, blob, source, edits, faults, stalls, damaged>>
  BY Workplaces, Types
     DEF UploadInv, JobAlone, JobOnly, Upload!Encrypt, Holds, Holding, Upload!At, Upload!bounds
<1>1. CASE verified' = FALSE /\ Upload!Abort(w) /\ UNCHANGED sealed
  BY <1>0, <1>1, AbortStep DEF UploadTypeOK, TypeStored, TypeMemory, TypeBounds
<1>2. CASE sealed' = Upload!Original /\ Upload!Go(w, "put")
             /\ UNCHANGED <<lease, known, client, failure, verified>>
  <2>1. /\ calls'[w].pc = "put" /\ \A v \in Upload!Workers \ {w} : calls'[v] = calls[v]
    BY <1>0, <1>2, Going DEF WorkPlaces, Holding
  <2>2. TypeServer' /\ TypeStored' BY <1>0, <1>2 DEF UploadTypeOK, TypeServer, TypeStored
  <2>3. StoredSound' BY <1>0, <1>2, <2>1 DEF UploadInv, StoredSound, Upload!At
  <2>4. KnownBy(w)' /\ StagedFor(w)' BY <2>1 DEF KnownBy, StagedFor
  <2> QED BY <1>0, <1>2, <2>2, <2>3, <2>4, SessionStays, GoStep
      DEF Holding, JobOnly, UploadTypeOK, TypeBounds, TypeMemory
<1> QED BY <1>1, <1>2 DEF Upload!Encrypt, Upload!DigestMatches, Upload!Suspect

\* ... and stores them; ...
LEMMA PutStep ==
  ASSUME Upload!ChunksAssumption, UploadInv, NEW w \in Upload!Workers, Upload!Put(w)
  PROVE  UploadInv'
<1>0. /\ UploadTypeOK /\ Finalizer \in Upload!Workers /\ calls[w] \in WorkRows /\ Holds(w)
           /\ calls[w].pc = "put"
      /\ w = Finalizer /\ sealed = Upload!Original
      /\ UNCHANGED <<row, receipts, staged, blob, verified, source, edits, faults, stalls, damaged>>
  BY Workplaces, Types
     DEF UploadInv, JobAlone, JobOnly, StoredSound, Upload!Put, Holds, Holding, Upload!At,
         Upload!bounds
<1>1. CASE Upload!Abort(w) /\ sealed' = None /\ UNCHANGED object
  BY <1>0, <1>1, AbortStep DEF UploadTypeOK, TypeStored, TypeMemory, TypeBounds
<1>2. CASE object' = sealed /\ Upload!Go(w, "register")
             /\ UNCHANGED <<lease, known, client, failure, sealed>>
  <2>1. /\ calls'[w].pc = "register" /\ \A v \in Upload!Workers \ {w} : calls'[v] = calls[v]
    BY <1>0, <1>2, Going DEF WorkPlaces, Holding
  <2>2. TypeServer' /\ TypeStored' BY <1>0, <1>2 DEF UploadTypeOK, TypeServer, TypeStored
  <2>3. StoredSound' BY <1>0, <1>2, <2>1 DEF UploadInv, StoredSound, Upload!At
  <2>4. KnownBy(w)' /\ StagedFor(w)' BY <2>1 DEF KnownBy, StagedFor
  <2> QED BY <1>0, <1>2, <2>2, <2>3, <2>4, SessionStays, GoStep
      DEF Holding, JobOnly, UploadTypeOK, TypeBounds, TypeMemory
<1> QED BY <1>1, <1>2 DEF Upload!Put

\* ... the object storage fails; ...
LEMMA PutFailsStep ==
  ASSUME Upload!ChunksAssumption, UploadInv, Upload!PutFails(Finalizer)
  PROVE  UploadInv'
<1>0. /\ UploadTypeOK /\ Finalizer \in Upload!Workers /\ Holds(Finalizer)
      /\ sealed = Upload!Original /\ Upload!Abort(Finalizer) /\ sealed' = None
           /\ object' \in {object, Upload!Original}
      /\ faults' = faults + 1
      /\ UNCHANGED <<row, receipts, staged, blob, verified, source, edits, stalls, damaged>>
  BY Workplaces DEF UploadInv, StoredSound, Upload!PutFails, Holds, Holding, Upload!At
<1> QED BY <1>0, AbortStep DEF UploadTypeOK, TypeStored, TypeMemory, TypeBounds

\* ... the blob is registered and the session complete ...
LEMMA RegisterStep ==
  ASSUME Upload!ChunksAssumption, UploadInv, NEW w \in Upload!Workers, Upload!Register(w)
  PROVE  UploadInv'
<1>0. /\ UploadTypeOK /\ Finalizer \in Upload!Workers /\ calls[w] \in WorkRows /\ Holds(w)
           /\ calls[w].pc = "register"
      /\ w = Finalizer /\ object = Upload!Original /\ sealed' = None
      /\ UNCHANGED <<receipts, staged, object, verified, source, edits, faults, stalls, damaged>>
  BY Workplaces, Types
     DEF UploadInv, JobAlone, JobOnly, StoredSound, Upload!Register, Holds, Holding, Upload!At,
         Upload!bounds
<1>1. CASE Upload!Abort(w) /\ UNCHANGED <<blob, row>>
  BY <1>0, <1>1, AbortStep DEF UploadTypeOK, TypeStored, TypeMemory, TypeBounds
<1>2. CASE /\ blob' = TRUE /\ row' = [row EXCEPT !.complete = TRUE]
           /\ Upload!Go(w, "unlink") /\ UNCHANGED <<lease, known, client, failure>>
  <2>1. /\ calls'[w].pc = "unlink" /\ \A v \in Upload!Workers \ {w} : calls'[v] = calls[v]
    BY <1>0, <1>2, Going DEF WorkPlaces, Holding
  <2>2. row'.offset = row.offset /\ row'.complete = TRUE BY <1>0, <1>2 DEF UploadTypeOK, TypeServer
  <2>3. TypeServer' /\ TypeStored' BY <1>0, <1>2 DEF UploadTypeOK, TypeServer, TypeStored
  <2>4. StoredSound' BY <1>0, <1>2, <2>1 DEF UploadInv, StoredSound, Upload!At
  <2>5. KnownBy(w)' /\ StagedFor(w)' /\ Kept' BY <2>1, <2>2 DEF KnownBy, StagedFor, Kept
  <2>6. stalls = 0 => Recorded' BY <1>0, <2>2 DEF UploadInv, SessionKnown, Recorded
  <2> QED BY <1>0, <1>2, <2>3, <2>4, <2>5, <2>6, GoStep
      DEF Holding, JobOnly, UploadTypeOK, TypeBounds, TypeMemory
<1> QED BY <1>1, <1>2 DEF Upload!Register

\* ... and the staging file is removed.
LEMMA UnlinkStep ==
  ASSUME Upload!ChunksAssumption, UploadInv, NEW w \in Upload!Workers, Upload!Unlink(w)
  PROVE  UploadInv'
<1>0. /\ UploadTypeOK /\ Holds(w) /\ Upload!End(w) /\ calls[w].pc = "unlink" /\ staged' = None
           /\ verified' = FALSE
      /\ UNCHANGED <<row, receipts, sealed, object, blob, failure, source, client, edits, faults,
           stalls, damaged>>
  BY DEF UploadInv, Upload!Unlink, Holds, Holding, Upload!At, Upload!stored, Upload!bounds
<1>1. TypeServer' BY <1>0, Ending DEF UploadTypeOK, TypeServer
<1>2. stalls = 0 => Kept' BY <1>0 DEF UploadInv, SessionKnown, KnownBy, Kept
<1> QED BY <1>0, <1>1, <1>2, EndStep DEF UploadTypeOK, TypeMemory, TypeDevice

\* Calls that are not at work come and go, and the others stay where they are.
LEMMA OthersStep ==
  ASSUME UploadInv, UNCHANGED <<row, receipts, staged, lease, stalls, damaged>>,
         \A v \in Upload!Workers :
            \/ calls'[v].pc \in {"idle", "sent"} /\ calls'[v].kind # "complete"
            \/ /\ calls'[v].pc = calls[v].pc /\ calls'[v].kind = calls[v].kind
               /\ calls'[v].index = calls[v].index /\ calls'[v].val = calls[v].val
               /\ calls'[v].size = calls[v].size /\ calls'[v].offset = calls[v].offset
               /\ calls'[v].complete = calls[v].complete
  PROVE  Sound'
<1>1. JobAlone' BY DEF UploadInv, JobAlone, JobOnly
<1>2. \A v \in Upload!Workers : Holds(v)' => Holds(v) BY DEF Holds, Holding
<1>3. LeaseExclusive' BY <1>2 DEF UploadInv, LeaseExclusive
<1>4. \A v \in Upload!Workers : KnownBy(v) => KnownBy(v)' BY DEF KnownBy
<1>5. \A n : Whole(n)' = Whole(n) BY DEF Whole, Upload!Bytes
<1>6. \A v \in Upload!Workers : StagedFor(v) => StagedFor(v)' BY <1>5 DEF StagedFor, Upload!Bytes
<1>7. SessionKnown' BY <1>4, SessionStays DEF UploadInv, SessionKnown
<1>8. Staged' BY <1>6, SessionStays DEF UploadInv, Staged
<1> QED BY <1>1, <1>3, <1>7, <1>8 DEF Sound

\* One worker takes a lease that was free, so nobody else holds it.
LEMMA AcquireStep ==
  ASSUME Upload!ChunksAssumption,
         UploadInv, NEW w \in Upload!Workers, ~Holds(w), lease = "free",
         NEW call \in WorkRows, Upload!Acquired(w, call), call.kind = "complete" => w = Finalizer,
         UNCHANGED <<row, receipts, staged, Upload!stored, verified, failure, source, client,
                     edits, faults, stalls, damaged>>,
         known' \in BOOLEAN
  PROVE  UploadInv'
<1>0. UploadTypeOK /\ Finalizer \in Upload!Workers BY Workplaces DEF UploadInv
<1>1. row.offset \in 0 .. Chunks /\ row.complete \in BOOLEAN BY <1>0, Types
<1> DEFINE next == [call EXCEPT !.pc = "stat", !.offset = row.offset, !.complete = row.complete]
<1>2. /\ next \in WorkRows /\ next.pc = "stat" /\ next.offset = row.offset
           /\ next.complete = row.complete
      /\ next.kind = call.kind
  BY <1>1 DEF WorkRows, WorkPlaces, Holding
<1>3. lease' = "ours" /\ calls' = [calls EXCEPT ![w] = next] BY DEF Upload!Acquired
<1> HIDE DEF next
<1>4. calls' \in [Upload!Workers -> WorkRows] /\ calls'[w] = next
        /\ \A v \in Upload!Workers \ {w} : calls'[v] = calls[v]
  BY <1>0, <1>2, <1>3 DEF UploadTypeOK, TypeMemory
<1>t. UploadTypeOK'
  BY <1>0, <1>3, <1>4
     DEF UploadTypeOK, TypeServer, TypeStored, TypeMemory, TypeDevice, TypeBounds, Upload!stored
<1>s. StoredSound' BY <1>0, <1>2, <1>4, StoredStays DEF Upload!stored
<1>5. JobAlone' BY <1>2, <1>4 DEF UploadInv, JobAlone, JobOnly
<1>6. stalls = 0 => \A v \in Upload!Workers \ {w} : ~Holds(v) /\ ~Holds(v)'
  BY <1>4 DEF UploadInv, LeaseExclusive, Holds
<1>7. LeaseExclusive' BY <1>3, <1>6 DEF LeaseExclusive
<1>8. stalls = 0 => \A v \in Upload!Workers \ {w} : KnownBy(v)' /\ StagedFor(v)'
  BY <1>6 DEF KnownBy, StagedFor, Holds, Holding
<1>9. KnownBy(w)' /\ StagedFor(w)' BY <1>2, <1>4 DEF KnownBy, StagedFor
<1>10. SessionKnown' BY <1>8, <1>9, SessionStays DEF SessionKnown
<1>11. Staged' BY <1>8, <1>9, SessionStays DEF Staged
<1> QED BY <1>t, <1>s, <1>5, <1>7, <1>10, <1>11, InvIs DEF Sound

\* A request arrives and takes the lease, or is refused.
LEMMA ArriveStep ==
  ASSUME Upload!ChunksAssumption, UploadInv, NEW w \in Upload!Workers, Upload!Arrive(w)
  PROVE  UploadInv'
<1>0. /\ UploadTypeOK /\ Finalizer \in Upload!Workers /\ calls[w] \in WorkRows /\ ~Holds(w)
           /\ calls[w].pc = "sent"
      /\ calls[w].live \in BOOLEAN
      /\ UNCHANGED <<row, receipts, staged, Upload!stored, sealed, object, blob, verified,
           failure, source, edits, faults, stalls, damaged>>
  BY Workplaces, Types
     DEF UploadInv, Upload!Arrive, Holds, Holding, Upload!At, Upload!stored, Upload!bounds,
         WorkRows
<1>1. CASE calls' = [calls EXCEPT ![w] = Upload!NoCall] /\ UNCHANGED lease /\ known' \in BOOLEAN
           /\ client' \in ClientRows /\ (client'.pc \in {"finish", "done"}
                => client.pc \in {"finish", "done"})
  <2>1. Upload!NoCall.pc = "idle" /\ Upload!NoCall.kind = "begin" /\ Upload!NoCall \in WorkRows
    BY Workplaces
       DEF Upload!NoCall
  <2>2. /\ calls' \in [Upload!Workers -> WorkRows] /\ calls'[w].pc = "idle"
             /\ calls'[w].kind = "begin"
        /\ \A v \in Upload!Workers \ {w} : calls'[v] = calls[v]
    BY <1>0, <1>1, <2>1 DEF UploadTypeOK, TypeMemory
  <2>3. UploadTypeOK'
    BY <1>0, <1>1, <2>2
       DEF UploadTypeOK, TypeServer, TypeStored, TypeMemory, TypeDevice, TypeBounds
  <2>4. StoredSound' BY <1>0, <1>1, <2>2, StoredStays
  <2>5. Sound' BY <1>0, <1>1, <2>2, OthersStep
  <2> QED BY <2>3, <2>4, <2>5, InvIs
<1>2. CASE /\ calls[w].kind = "begin" /\ Upload!Running
                /\ calls' = [calls EXCEPT ![w] = Upload!NoCall]
           /\ Upload!Reply(w, [client EXCEPT !.pc = "send", !.next = Upload!Resume(row)])
           /\ known' = (known \/ calls[w].live) /\ UNCHANGED lease
  <2>1. row.offset \in 0 .. Chunks BY <1>0, Types
  <2>2. client' \in ClientRows /\ (client'.pc \in {"finish", "done"} => client.pc \in {"finish",
          "done"})
    BY <1>0, <1>2, <2>1, Resuming, Replying
  <2> QED BY <1>0, <1>1, <1>2, <2>2 DEF UploadTypeOK, TypeMemory
<1>3. CASE calls' = [calls EXCEPT ![w] = Upload!NoCall] /\ Upload!Reply(w, Upload!Idle)
             /\ UNCHANGED <<lease, known>>
  <2>1. Upload!Idle \in ClientRows /\ Upload!Idle.pc = "idle" BY DEF Upload!Idle, ClientRows
  <2>2. client' \in ClientRows /\ (client'.pc \in {"finish", "done"} => client.pc \in {"finish",
          "done"})
    BY <1>0, <1>3, <2>1, Replying
  <2> QED BY <1>1, <1>3, <2>2, <1>0 DEF UploadTypeOK, TypeMemory
<1>4. CASE ~Upload!LeaseTaken /\ Upload!Acquired(w, calls[w]) /\ UNCHANGED <<client, known>>
  <2>1. calls[w].kind = "complete" => w = Finalizer BY DEF UploadInv, JobAlone
  <2> QED BY <1>0, <1>4, <2>1, AcquireStep DEF Upload!LeaseTaken, UploadTypeOK, TypeMemory
<1> QED BY <1>2, <1>3, <1>4 DEF Upload!Arrive

\* A worker's step is one of these.
LEMMA WorkStep ==
  ASSUME Upload!ChunksAssumption, Upload!NoneAssumption, UploadInv, NEW w \in Upload!Workers,
         Upload!Work(w)
  PROVE  UploadInv'
BY ArriveStep, StatStep, ReadStep, RecordStep, TrimStep, AnswerBeginStep, ChunkStep, WriteStep,
   ReceiptStep, CloseStep, CompleteStep, EncryptStep, PutStep, RegisterStep, UnlinkStep
DEF Upload!Work

\* The device asks.
LEMMA AskStep ==
  ASSUME Upload!ChunksAssumption, Upload!JobAssumption,
         UploadInv, NEW w \in Requests, Upload!Free(w), NEW call \in WorkRows,
           call.kind # "complete", Upload!Ask(w, call),
         known' \in BOOLEAN, client' \in ClientRows, client'.pc \notin {"finish", "done"},
         UNCHANGED <<Upload!session, Upload!stored, verified, failure, source, Upload!bounds>>
  PROVE  UploadInv'
<1>0. UploadTypeOK /\ w \in Upload!Workers /\ w # Finalizer BY Workplaces DEF UploadInv
<1> DEFINE next == [call EXCEPT !.pc = "sent", !.live = TRUE]
<1>1. next \in WorkRows /\ next.pc = "sent" /\ next.kind # "complete" BY DEF WorkRows, WorkPlaces
<1>2. calls' = [calls EXCEPT ![w] = next] BY DEF Upload!Ask
<1> HIDE DEF next
<1>3. calls' \in [Upload!Workers -> WorkRows] /\ calls'[w] = next
        /\ \A v \in Upload!Workers \ {w} : calls'[v] = calls[v]
  BY <1>0, <1>1, <1>2 DEF UploadTypeOK, TypeMemory
<1>t. UploadTypeOK'
  BY <1>0, <1>3
     DEF UploadTypeOK, TypeServer, TypeStored, TypeMemory, TypeDevice, TypeBounds,
         Upload!session, Upload!stored, Upload!bounds
<1>s. StoredSound'
  <2>1. Finalizer \in Upload!Workers \ {w} BY <1>0, Workplaces
  <2> QED BY <1>3, <2>1, StoredStays DEF Upload!session, Upload!stored
<1>p. Sound' BY <1>1, <1>3, OthersStep DEF Upload!session, Upload!bounds
<1> QED BY <1>t, <1>s, <1>p, InvIs

\* It begins a session ...
LEMMA BeginStep ==
  ASSUME Upload!ChunksAssumption, Upload!JobAssumption, UploadInv, NEW w \in Requests,
         Upload!Begin(w)
  PROVE  UploadInv'
<1>1. Upload!NoCall.kind = "begin" /\ Upload!NoCall \in WorkRows BY Workplaces DEF Upload!NoCall
<1>2. [Upload!Idle EXCEPT !.pc = "begin"] \in ClientRows
        /\ [Upload!Idle EXCEPT !.pc = "begin"].pc = "begin"
  <2>1. Upload!Idle \in ClientRows BY DEF Upload!Idle, ClientRows
  <2> QED BY <2>1 DEF ClientRows
<1> QED BY <1>1, <1>2, AskStep DEF Upload!Begin

\* ... or sends the next chunk.
LEMMA SendStep ==
  ASSUME Upload!ChunksAssumption, Upload!JobAssumption, UploadInv, NEW w \in Requests,
         Upload!Send(w)
  PROVE  UploadInv'
<1>0. UploadTypeOK BY DEF UploadInv
<1>1. client.next \in Upload!Index /\ source[client.next] \in BOOLEAN
  BY <1>0
     DEF Upload!Send, UploadTypeOK, TypeDevice
<1> DEFINE call == [Upload!NoCall EXCEPT !.kind = "chunk", !.index = client.next,
  !.val = source[client.next]]
<1>2. call.kind = "chunk" /\ call \in WorkRows BY <1>1, Workplaces DEF Upload!NoCall, WorkRows
<1>3. [client EXCEPT !.pc = "chunk"] \in ClientRows /\ [client EXCEPT !.pc = "chunk"].pc = "chunk"
  BY <1>0 DEF UploadTypeOK, TypeDevice, ClientRows
<1>4. Upload!Ask(w, call) BY DEF Upload!Send
<1> HIDE DEF call
<1>5. known' \in BOOLEAN BY <1>0 DEF Upload!Send, UploadTypeOK, TypeMemory
<1> QED BY <1>2, <1>3, <1>4, <1>5, AskStep DEF Upload!Send

\* Only the device, the server's memory of its answers and the bounds change.
LEMMA DeviceStep ==
  ASSUME UploadInv, UNCHANGED <<Upload!session, Upload!stored, verified, calls, stalls, damaged>>,
         TypeDevice', failure' \in BOOLEAN, known' \in BOOLEAN, edits' \in Nat, faults' \in Nat,
         client'.pc \in {"finish", "done"} => blob
  PROVE  UploadInv'
<1>t. UploadTypeOK'
  BY DEF UploadInv, UploadTypeOK, TypeServer, TypeStored, TypeMemory, TypeBounds,
         Upload!session, Upload!stored
<1>s. StoredSound' BY DEF UploadInv, StoredSound, Upload!At, Upload!session, Upload!stored
<1>p. Sound' BY OthersStep DEF Upload!session
<1> QED BY <1>t, <1>s, <1>p, InvIs

\* It asks for the completion, which may start the job, ...
LEMMA PollStep ==
  ASSUME Upload!ChunksAssumption, UploadInv, Upload!Poll
  PROVE  UploadInv'
<1>0. /\ UploadTypeOK /\ Finalizer \in Upload!Workers
      /\ UNCHANGED <<row, receipts, staged, Upload!stored, verified, source, Upload!bounds>>
  BY Workplaces DEF UploadInv, Upload!Poll
<1>1. Upload!Idle \in ClientRows /\ Upload!Idle.pc = "idle" BY DEF Upload!Idle, ClientRows
<1>2. /\ \A pc \in {"finish"} : [client EXCEPT !.pc = pc] \in ClientRows
      /\ client.pc = "poll" /\ row.complete \in BOOLEAN /\ Upload!Running \in BOOLEAN
           /\ failure \in BOOLEAN
  BY <1>0
     DEF UploadTypeOK, TypeDevice, TypeServer, TypeMemory, ClientRows, Upload!Poll,
         Upload!Running
<1>3. \/ row.complete /\ client' = [client EXCEPT !.pc = "finish"]
           /\ UNCHANGED <<lease, calls, failure, known>>
      \/ known' = TRUE /\ UNCHANGED <<lease, calls, failure, client>>
      \/ failure' = FALSE /\ client' = Upload!Idle /\ UNCHANGED <<lease, calls, known>>
      \/ client' = Upload!Idle /\ UNCHANGED <<lease, calls, failure, known>>
      \/ /\ ~Upload!Running /\ lease = "free" /\ known' = TRUE
         /\ Upload!Acquired(Finalizer, [Upload!NoCall EXCEPT !.kind = "complete", !.live = TRUE])
         /\ UNCHANGED <<failure, client>>
  BY <1>2 DEF Upload!Poll
<1>4. CASE /\ ~Upload!Running /\ lease = "free" /\ known' = TRUE
           /\ Upload!Acquired(Finalizer, [Upload!NoCall EXCEPT !.kind = "complete", !.live = TRUE])
           /\ UNCHANGED <<failure, client>>
  <2>1. [Upload!NoCall EXCEPT !.kind = "complete", !.live = TRUE] \in WorkRows
    BY Workplaces
       DEF Upload!NoCall, WorkRows
  <2>2. ~Holds(Finalizer) BY <1>4 DEF Upload!Running, Upload!At, Holds, Holding
  <2> QED BY <1>0, <1>4, <2>1, <2>2, AcquireStep DEF Upload!bounds
<1>5. CASE row.complete /\ client' = [client EXCEPT !.pc = "finish"]
             /\ UNCHANGED <<lease, calls, failure, known>>
  <2>1. blob BY <1>5 DEF UploadInv, StoredSound
  <2>2. TypeDevice' BY <1>0, <1>2, <1>5 DEF UploadTypeOK, TypeDevice
  <2> QED
    BY <1>0, <1>5, <2>1, <2>2, DeviceStep
       DEF Upload!session, Upload!bounds, UploadTypeOK, TypeMemory, TypeBounds
<1>6. CASE /\ UNCHANGED <<lease, calls>> /\ client' \in {client, Upload!Idle}
           /\ failure' \in BOOLEAN /\ known' \in BOOLEAN
  <2>1. TypeDevice' /\ client'.pc \notin {"finish", "done"}
    BY <1>0, <1>1, <1>2, <1>6
       DEF UploadTypeOK, TypeDevice
  <2> QED
    BY <1>0, <1>6, <2>1, DeviceStep
       DEF Upload!session, Upload!bounds, UploadTypeOK, TypeBounds
<1> QED BY <1>0, <1>3, <1>4, <1>5, <1>6 DEF UploadTypeOK, TypeMemory

\* ... having sent everything, ...
LEMMA AllSentStep ==
  ASSUME Upload!ChunksAssumption, UploadInv, Upload!AllSent
  PROVE  UploadInv'
<1>1. UploadTypeOK /\ Upload!Idle \in ClientRows /\ Upload!Idle.pc = "idle"
  BY DEF UploadInv, Upload!Idle, ClientRows
<1>2. [client EXCEPT !.pc = "poll"] \in ClientRows /\ [client EXCEPT !.pc = "poll"].pc = "poll"
  BY <1>1 DEF UploadTypeOK, TypeDevice, ClientRows
<1>3. TypeDevice' /\ client'.pc \notin {"finish", "done"}
  BY <1>1, <1>2
     DEF Upload!AllSent, UploadTypeOK, TypeDevice
<1> QED
  BY <1>1, <1>3, DeviceStep
     DEF Upload!AllSent, Upload!memory, Upload!bounds, UploadTypeOK, TypeMemory, TypeBounds

\* ... and is done.
LEMMA FinishStep ==
  ASSUME Upload!ChunksAssumption, UploadInv, Upload!Finish
  PROVE  UploadInv'
<1>1. UploadTypeOK /\ Upload!Idle \in ClientRows /\ Upload!Idle.pc = "idle"
  BY DEF UploadInv, Upload!Idle, ClientRows
<1>2. [client EXCEPT !.pc = "done"] \in ClientRows BY <1>1 DEF UploadTypeOK, TypeDevice, ClientRows
<1>3. TypeDevice' /\ blob
  BY <1>1, <1>2
     DEF Upload!Finish, UploadTypeOK, TypeDevice, UploadInv, StoredSound
<1> QED
  BY <1>1, <1>3, DeviceStep
     DEF Upload!Finish, Upload!memory, Upload!bounds, UploadTypeOK, TypeMemory, TypeBounds

\* The file changes on the device.
LEMMA EditStep == ASSUME UploadInv, NEW i \in Upload!Index, Upload!Edit(i) PROVE UploadInv'
<1>1. UploadTypeOK BY DEF UploadInv
<1>2. client' \in ClientRows /\ client'.pc = client.pc
  BY <1>1
     DEF Upload!Edit, UploadTypeOK, TypeDevice, ClientRows
<1>3. source' \in [Upload!Index -> BOOLEAN] BY <1>1 DEF Upload!Edit, UploadTypeOK, TypeDevice
<1>4. client'.pc \in {"finish", "done"} => blob BY <1>2 DEF UploadInv, StoredSound
<1> QED
  BY <1>1, <1>2, <1>3, <1>4, DeviceStep
     DEF Upload!Edit, Upload!memory, UploadTypeOK, TypeMemory, TypeBounds, TypeDevice

\* Nobody waits for the answers any more.
LEMMA GiveUpStep ==
  ASSUME Upload!ChunksAssumption, UploadInv, Upload!GiveUp
  PROVE  UploadInv'
<1>1. UploadTypeOK /\ Finalizer \in Upload!Workers BY Workplaces DEF UploadInv
<1>2. Upload!Idle \in ClientRows /\ Upload!Idle.pc = "idle" BY DEF Upload!Idle, ClientRows
<1>3. /\ Upload!Unheard \in [Upload!Workers -> WorkRows]
      /\ \A w \in Upload!Workers : Upload!Unheard[w] = calls[w]
           \/ Upload!Unheard[w] = [calls[w] EXCEPT !.live = FALSE]
  <2>1. \A w \in Upload!Workers : calls[w] \in WorkRows
          /\ [calls[w] EXCEPT !.live = FALSE] \in WorkRows
    BY <1>1, Types DEF WorkRows
  <2> QED BY <2>1 DEF Upload!Unheard
<1>4. PICK some \in [Upload!Workers -> BOOLEAN] :
         calls' = [w \in Upload!Workers |-> IF some[w] THEN [calls[w]
           EXCEPT !.live = FALSE] ELSE calls[w]]
  <2> DEFINE f == [w \in Upload!Workers |-> w # Finalizer]
             g == [w \in Upload!Workers |-> TRUE]
  <2>1. CASE calls' = Upload!Unheard
    <3>1. f \in [Upload!Workers -> BOOLEAN] OBVIOUS
    <3>2. calls' = [w \in Upload!Workers |-> IF f[w] THEN [calls[w]
            EXCEPT !.live = FALSE] ELSE calls[w]]
      BY <2>1 DEF Upload!Unheard
    <3> QED BY <3>1, <3>2
  <2>2. CASE calls' = [Upload!Unheard EXCEPT ![Finalizer].live = FALSE]
    <3>1. g \in [Upload!Workers -> BOOLEAN] OBVIOUS
    <3>2. calls' = [w \in Upload!Workers |-> IF g[w] THEN [calls[w]
            EXCEPT !.live = FALSE] ELSE calls[w]]
      BY <2>2, <1>1 DEF Upload!Unheard
    <3> QED BY <3>1, <3>2
  <2> QED BY <2>1, <2>2 DEF Upload!GiveUp
<1>5. \A w \in Upload!Workers : calls[w] \in WorkRows BY <1>1, Types
<1>6. \A w \in Upload!Workers :
         /\ calls'[w] \in WorkRows /\ calls'[w].pc = calls[w].pc /\ calls'[w].kind = calls[w].kind
         /\ calls'[w].index = calls[w].index /\ calls'[w].val = calls[w].val
         /\ calls'[w].size = calls[w].size /\ calls'[w].offset = calls[w].offset
         /\ calls'[w].complete = calls[w].complete
  BY <1>4, <1>5 DEF WorkRows
<1>7. calls' \in [Upload!Workers -> WorkRows] BY <1>4, <1>6
<1>8. /\ UNCHANGED <<row, receipts, staged, lease, sealed, object, blob, verified, failure,
           known, source,
                     edits, stalls, damaged>>
      /\ client' = Upload!Idle /\ faults' = faults + 1
  BY DEF Upload!GiveUp, Upload!session, Upload!stored
<1>t. UploadTypeOK'
  <2>1. TypeServer' /\ TypeStored' BY <1>1, <1>8 DEF UploadTypeOK, TypeServer, TypeStored
  <2>2. TypeMemory' /\ TypeDevice'
    BY <1>1, <1>2, <1>7, <1>8
       DEF UploadTypeOK, TypeMemory, TypeDevice
  <2>3. TypeBounds' BY <1>1, <1>8 DEF UploadTypeOK, TypeBounds
  <2> QED BY <2>1, <2>2, <2>3 DEF UploadTypeOK
<1>s. StoredSound' BY <1>1, <1>2, <1>6, <1>8, StoredStays
<1>p. Sound' BY <1>6, <1>8, OthersStep
<1> QED BY <1>t, <1>s, <1>p, InvIs

\* What is lost was not acknowledged.
LEMMA CrashStep ==
  ASSUME Upload!ChunksAssumption, Upload!NoneAssumption, UploadInv, Upload!Crash
  PROVE  UploadInv'
<1>1. UploadTypeOK /\ Finalizer \in Upload!Workers /\ Upload!NoCall \in WorkRows
  BY Workplaces
     DEF UploadInv
<1>2. Upload!NoCall.pc = "idle" /\ Upload!NoCall.kind = "begin" BY DEF Upload!NoCall
<1>3. /\ calls' \in [Upload!Workers -> WorkRows]
           /\ \A w \in Upload!Workers : calls'[w].pc = "idle" /\ calls'[w].kind = "begin"
  BY <1>1, <1>2 DEF Upload!Crash
<1>4. Upload!Idle \in ClientRows /\ Upload!Idle.pc = "idle" BY DEF Upload!Idle, ClientRows
<1>5. /\ staged' \in Seq(Upload!Values) \cup {None}
      /\ \/ staged' = staged
         \/ \E n \in row.offset .. Len(Upload!Bytes) : staged' = SubSeq(Upload!Bytes, 1, n)
  <2>1. CASE staged' = staged BY <1>1, <2>1 DEF UploadTypeOK, TypeServer
  <2>2. ASSUME NEW n \in row.offset .. Len(Upload!Bytes), staged' = SubSeq(Upload!Bytes, 1, n)
        PROVE staged' \in Seq(Upload!Values)
    BY <1>1, <2>2, Types
  <2> QED BY <2>1, <2>2 DEF Upload!Crash
<1>6. /\ UNCHANGED <<row, receipts, object, blob, source, edits, stalls, damaged>>
      /\ lease' \in {"free", "ours", "past"} /\ faults' = faults + 1
      /\ verified' = FALSE /\ failure' = FALSE /\ known' = FALSE /\ sealed' = None
      /\ client' = client \/ client' = Upload!Idle
  BY <1>1 DEF Upload!Crash, UploadTypeOK, TypeServer
<1>t. UploadTypeOK'
  <2>1. TypeServer' BY <1>1, <1>5, <1>6 DEF UploadTypeOK, TypeServer
  <2>2. TypeStored' /\ TypeDevice' BY <1>1, <1>4, <1>6 DEF UploadTypeOK, TypeStored, TypeDevice
  <2>3. TypeMemory' BY <1>1, <1>3, <1>6 DEF UploadTypeOK, TypeMemory
  <2>4. TypeBounds' BY <1>1, <1>6 DEF UploadTypeOK, TypeBounds
  <2> QED BY <2>1, <2>2, <2>3, <2>4 DEF UploadTypeOK
<1>s. StoredSound' BY <1>1, <1>3, <1>4, <1>6, StoredStays
<1>7. JobAlone' /\ LeaseExclusive' BY <1>3 DEF JobAlone, JobOnly, LeaseExclusive, Holds, Holding
<1>8. \A w \in Upload!Workers : KnownBy(w)' /\ StagedFor(w)' BY <1>3 DEF KnownBy, StagedFor
<1>9. SessionKnown' BY <1>6, <1>8 DEF UploadInv, SessionKnown, Recorded
<1>10. ASSUME stalls = 0, ~damaged PROVE Kept'
  <2>1. CASE staged' = staged BY <1>6, <1>10, <2>1 DEF UploadInv, Staged, Kept, Whole, Upload!Bytes
  <2>2. ASSUME NEW n \in row.offset .. Len(Upload!Bytes), staged' = SubSeq(Upload!Bytes, 1,
                 n) PROVE Kept'
    <3>1. SUFFICES ASSUME ~row.complete PROVE Whole(row.offset)' BY <1>6 DEF Kept, Whole
    <3>2. Whole(row.offset) BY <1>10, <3>1 DEF UploadInv, Staged, Kept
    <3>3. n \in Nat /\ row.offset \in Nat /\ row.offset <= n /\ n <= Len(Upload!Bytes)
      BY <1>1, Types
    <3>4. staged' \in Seq(Upload!Values) /\ Len(staged') = n
            /\ \A i \in 1 .. n : staged'[i] = Upload!Bytes[i]
      BY <1>1, <2>2, <3>3, Types
    <3>5. Upload!Bytes' = staged' BY <3>4 DEF Upload!Bytes
    <3>6. \A i \in 1 .. row.offset : i \in 1 .. n BY <3>3
    <3>7. \A i \in 1 .. row.offset : i <= Len(Upload!Bytes') /\ receipts'[i] = Upload!Bytes'[i]
      BY <1>6, <3>2, <3>4, <3>5, <3>6 DEF Whole
    <3> QED BY <1>6, <3>7 DEF Whole
  <2> QED BY <1>5, <2>1, <2>2
<1>11. Staged' BY <1>6, <1>8, <1>10 DEF Staged
<1> QED BY <1>t, <1>s, <1>7, <1>9, <1>11, InvIs DEF Sound

\* A lease of the past runs out.
LEMMA ExpireStep == ASSUME UploadInv, Upload!Expire PROVE UploadInv'
<1>1. UploadTypeOK'
  BY DEF UploadInv, Upload!Expire, UploadTypeOK, TypeServer, TypeStored, TypeMemory, TypeDevice,
         TypeBounds,
                     Upload!stored, Upload!memory, Upload!device, Upload!bounds
<1>2. StoredSound'
  BY DEF UploadInv, StoredSound, Upload!At, Upload!Expire, Upload!stored, Upload!memory,
         Upload!device
<1>3. JobAlone' BY DEF UploadInv, JobAlone, Upload!Expire, Upload!memory
<1>4. LeaseExclusive'
  BY DEF UploadInv, LeaseExclusive, Holds, Upload!Expire, Upload!memory, Upload!bounds
<1>5. SessionKnown'
  BY DEF UploadInv, SessionKnown, Recorded, KnownBy, Upload!Expire, Upload!memory, Upload!bounds
<1>6. Staged'
  BY DEF UploadInv, Staged, Kept, Whole, Upload!Bytes, StagedFor, Upload!Expire, Upload!memory,
         Upload!bounds
<1> QED BY <1>1, <1>2, <1>3, <1>4, <1>5, <1>6, InvIs DEF Sound

\* After that nothing is said of the leases, so nothing of what they keep.
LEMMA StallStep == ASSUME UploadInv, Upload!Stall PROVE UploadInv'
<1>0. UploadTypeOK /\ stalls' = stalls + 1 /\ stalls \in Nat
  BY DEF UploadInv, Upload!Stall, UploadTypeOK, TypeBounds
<1>1. UploadTypeOK'
  <2>1. TypeServer' /\ TypeStored'
    BY <1>0
       DEF Upload!Stall, UploadTypeOK, TypeServer, TypeStored, Upload!stored
  <2>2. TypeMemory' /\ TypeDevice'
    BY <1>0
       DEF Upload!Stall, UploadTypeOK, TypeMemory, TypeDevice, Upload!memory, Upload!device
  <2>3. TypeBounds' BY <1>0 DEF Upload!Stall, UploadTypeOK, TypeBounds
  <2> QED BY <2>1, <2>2, <2>3 DEF UploadTypeOK
<1>2. StoredSound'
  BY DEF UploadInv, StoredSound, Upload!At, Upload!Stall, Upload!stored, Upload!memory,
         Upload!device
<1>3. JobAlone' BY DEF UploadInv, JobAlone, Upload!Stall, Upload!memory
<1>4. stalls' # 0 BY <1>0
<1>5. LeaseExclusive' /\ SessionKnown' /\ Staged' BY <1>4 DEF LeaseExclusive, SessionKnown, Staged
<1> QED BY <1>1, <1>2, <1>3, <1>5, InvIs DEF Sound

\* The staging file is damaged. What the holder read of it before may be wrong from here on.
LEMMA DamageStep ==
  ASSUME Upload!ChunksAssumption, UploadInv, Upload!Damage
  PROVE  UploadInv'
<1>0. /\ UploadTypeOK /\ damaged' = TRUE /\ faults' = faults + 1
      /\ UNCHANGED <<row, receipts, lease, Upload!stored, Upload!memory, Upload!device, edits,
           stalls>>
  BY DEF UploadInv, Upload!Damage
<1>1. staged' \in Seq(Upload!Values)
  <2>1. Upload!Bytes \in Seq(Upload!Values) /\ Torn \in Upload!Values
    BY <1>0, Types
       DEF Upload!Values
  <2>2. PICK i \in DOMAIN Upload!Bytes : staged' = [Upload!Bytes EXCEPT ![i] = Torn]
          \/ staged' = SubSeq(Upload!Bytes, 1, i - 1)
    BY DEF Upload!Damage
  <2>3. i \in 1 .. Len(Upload!Bytes) BY <2>1, <2>2
  <2>4. [Upload!Bytes EXCEPT ![i] = Torn] \in Seq(Upload!Values) BY <2>1, <2>3
  <2>5. SubSeq(Upload!Bytes, 1, i - 1) \in Seq(Upload!Values) BY <2>1, <2>3
  <2> QED BY <2>2, <2>4, <2>5
<1>2. UploadTypeOK'
  <2>1. TypeServer' /\ TypeStored'
    BY <1>0, <1>1
       DEF UploadTypeOK, TypeServer, TypeStored, Upload!stored
  <2>2. TypeMemory' /\ TypeDevice'
    BY <1>0
       DEF UploadTypeOK, TypeMemory, TypeDevice, Upload!memory, Upload!device
  <2>3. TypeBounds' BY <1>0 DEF UploadTypeOK, TypeBounds
  <2> QED BY <2>1, <2>2, <2>3 DEF UploadTypeOK
<1>3. StoredSound'
  BY <1>0
     DEF UploadInv, StoredSound, Upload!At, Upload!stored, Upload!memory, Upload!device
<1>4. JobAlone' BY <1>0 DEF UploadInv, JobAlone, Upload!memory
<1>5. LeaseExclusive' BY <1>0 DEF UploadInv, LeaseExclusive, Holds, Upload!memory
<1>6. SessionKnown' BY <1>0 DEF UploadInv, SessionKnown, Recorded, KnownBy, Upload!memory
<1>7. Staged' BY <1>0 DEF Staged
<1> QED BY <1>2, <1>3, <1>4, <1>5, <1>6, <1>7, InvIs DEF Sound

\* The invariant holds at first, ...
LEMMA InitInv ==
  ASSUME Upload!ChunksAssumption
  PROVE  Upload!Init => UploadInv
<1> SUFFICES ASSUME Upload!Init PROVE UploadInv OBVIOUS
<1>0. /\ Upload!NoCall.pc = "idle" /\ Upload!NoCall.kind = "begin"
           /\ Upload!NoCall \in WorkRows /\ Upload!Idle \in ClientRows
      /\ Upload!Idle.pc = "idle" /\ Upload!Original \in [Upload!Index -> BOOLEAN]
  BY Workplaces DEF Upload!NoCall, Upload!Idle, ClientRows, Upload!Original
<1>1. row.offset = 0 /\ row.complete = FALSE /\ row \in [offset : 0 .. Chunks, complete : BOOLEAN]
  BY DEF Upload!Init
<1>2. \A w \in Upload!Workers : calls[w].pc = "idle" /\ calls[w].kind = "begin"
  BY <1>0
     DEF Upload!Init
<1>3. TypeServer /\ TypeStored BY <1>1 DEF Upload!Init, TypeServer, TypeStored
<1>4. TypeMemory /\ TypeDevice /\ TypeBounds
  BY <1>0
     DEF Upload!Init, TypeMemory, TypeDevice, TypeBounds
<1>5. JobAlone BY <1>2 DEF JobAlone, JobOnly
<1>6. StoredSound BY <1>0, <1>1, <1>2, Workplaces DEF StoredSound, Upload!At, Upload!Init
<1>7. LeaseExclusive BY <1>2 DEF LeaseExclusive, Holds, Holding
<1>8. \A w \in Upload!Workers : KnownBy(w) /\ StagedFor(w) BY <1>2 DEF KnownBy, StagedFor
<1>9. Recorded
  <2>1. \A i \in Upload!Index : receipts[i] = None /\ ~(i <= 0) BY DEF Upload!Init, Upload!Index
  <2> QED BY <1>1, <2>1 DEF Recorded
<1>10. Kept BY <1>1 DEF Kept, Whole
<1> QED
  BY <1>3, <1>4, <1>5, <1>6, <1>7, <1>8, <1>9, <1>10
     DEF UploadInv, UploadTypeOK, SessionKnown, Staged

\* ... when nothing happens ...
LEMMA Stutter == UploadInv /\ UNCHANGED Upload!vars => UploadInv'
<1> SUFFICES ASSUME UploadInv, UNCHANGED Upload!vars PROVE UploadInv' OBVIOUS
<1>1. UploadTypeOK BY DEF UploadInv
<1>2. TypeDevice' /\ (client'.pc \in {"finish", "done"} => blob)
  BY <1>1 DEF Upload!vars, UploadTypeOK, TypeDevice, UploadInv, StoredSound
<1> QED
  BY <1>1, <1>2, DeviceStep
     DEF Upload!vars, Upload!session, Upload!stored, UploadTypeOK, TypeMemory, TypeBounds

\* ... and after every step.
LEMMA NextInv ==
  ASSUME Upload!ChunksAssumption, Upload!NoneAssumption, Upload!JobAssumption
  PROVE  UploadInv /\ [Upload!Next]_(Upload!vars) => UploadInv'
<1> SUFFICES ASSUME UploadInv, [Upload!Next]_(Upload!vars) PROVE UploadInv' OBVIOUS
<1>1. CASE \E w \in Upload!Workers : Upload!Work(w) BY <1>1, WorkStep
<1>2. CASE Upload!Sync
  BY <1>2, BeginStep, SendStep, AllSentStep, PollStep, FinishStep
     DEF Upload!Sync
<1>3. CASE \E i \in Upload!Index : Upload!Edit(i) BY <1>3, EditStep
<1>4. CASE Upload!PutFails(Finalizer) \/ Upload!GiveUp \/ Upload!Crash \/ Upload!Expire
             \/ Upload!Stall \/ Upload!Damage
  BY <1>4, PutFailsStep, GiveUpStep, CrashStep, ExpireStep, StallStep, DamageStep
<1>5. CASE UNCHANGED Upload!vars BY <1>5, Stutter
<1> QED BY <1>1, <1>2, <1>3, <1>4, <1>5 DEF Upload!Next

\* In every behaviour of an upload the invariant holds.
THEOREM UploadInvariance ==
  ASSUME Upload!ChunksAssumption, Upload!NoneAssumption, Upload!JobAssumption
  PROVE  Upload!Spec => []UploadInv
BY InitInv, NextInv, PTL DEF Upload!Spec

\* Every variable of an upload keeps its type.
THEOREM UploadTypeCorrect ==
  ASSUME Upload!ChunksAssumption, Upload!NoneAssumption, Upload!JobAssumption
  PROVE  Upload!Spec => []UploadTypeOK
<1>1. UploadInv => UploadTypeOK BY DEF UploadInv
<1> QED BY <1>1, UploadInvariance, PTL

\* Only the job registers, and it has just asked whether it was cancelled.
LEMMA RegisterLive == ASSUME UploadInv, [Upload!Next]_(Upload!vars) PROVE Upload!CancelHolds
<1>0. blob \in BOOLEAN BY DEF UploadInv, UploadTypeOK, TypeStored
<1>1. SUFFICES ASSUME blob' # blob, ~blob, blob' PROVE calls[Finalizer].live
  BY <1>0
     DEF Upload!CancelHolds
<1>2. PICK w \in Upload!Workers : Upload!Work(w)
  BY <1>1
     DEF Upload!Next, Upload!vars, Upload!Sync, Upload!Begin, Upload!Send, Upload!AllSent,
         Upload!Poll, Upload!Finish, Upload!Edit, Upload!PutFails, Upload!GiveUp, Upload!Crash,
         Upload!Expire,
              Upload!Stall, Upload!Damage, Upload!stored
<1>3. Upload!Register(w)
  BY <1>1, <1>2
     DEF Upload!Work, Upload!Arrive, Upload!Stat, Upload!Read, Upload!Record, Upload!Trim,
         Upload!AnswerBegin, Upload!Chunk, Upload!Write, Upload!Receipt, Upload!Close,
                    Upload!Complete, Upload!Encrypt, Upload!Put, Upload!Unlink, Upload!stored
<1>4. w = Finalizer BY <1>3 DEF Upload!Register, Upload!At, UploadInv, JobAlone, JobOnly
<1> QED BY <1>1, <1>3, <1>4 DEF Upload!Register, Upload!MayRegister, Upload!Cancelled

\* What is stored under the declared digest is the declared file, whatever was edited, repeated,
\* damaged or restarted, and a cancelled completion registers nothing.
THEOREM StoredAsDeclared ==
  ASSUME Upload!ChunksAssumption, Upload!NoneAssumption, Upload!JobAssumption
  PROVE  Upload!Spec => Upload!OnlyTheDeclaredIsStored
<1>1. UploadInv /\ [Upload!Next]_(Upload!vars) => UploadInv' BY NextInv
<1>2. UploadInv' => Upload!StoredIsDeclared' BY DEF UploadInv, StoredSound, Upload!StoredIsDeclared
<1>3. UploadInv /\ [Upload!Next]_(Upload!vars) => Upload!CancelHolds BY RegisterLive
<1>4. UploadInv /\ [Upload!Next]_(Upload!vars) => [Upload!StoredIsDeclared'
        /\ Upload!CancelHolds]_(Upload!vars)
  BY <1>1, <1>2, <1>3
<1> QED BY <1>4, UploadInvariance, PTL DEF Upload!Spec, Upload!OnlyTheDeclaredIsStored

\* Only Record takes acknowledged chunks back, and by the invariant it finds them all.
LEMMA NothingTakenBack ==
  ASSUME Upload!ChunksAssumption, UploadInv, [Upload!Next]_(Upload!vars)
  PROVE  Upload!ProgressKept
<1>0. UploadTypeOK /\ row.offset \in Nat /\ stalls \in Nat
  BY Types
     DEF UploadInv, UploadTypeOK, TypeBounds
<1>1. SUFFICES ASSUME row'.offset < row.offset, ~damaged, stalls = 0 PROVE FALSE
  BY <1>0 DEF Upload!ProgressKept
<1>2. row' # row BY <1>0, <1>1
<1>3. PICK w \in Upload!Workers : Upload!Work(w)
  BY <1>2
     DEF Upload!Next, Upload!vars, Upload!Sync, Upload!Begin, Upload!Send, Upload!AllSent,
         Upload!Poll, Upload!Finish, Upload!Edit, Upload!PutFails, Upload!GiveUp, Upload!Crash,
         Upload!Expire,
              Upload!Stall, Upload!Damage, Upload!session
<1>4. Upload!Record(w) \/ Upload!Receipt(w) \/ Upload!Register(w)
  BY <1>2, <1>3
     DEF Upload!Work, Upload!Arrive, Upload!Stat, Upload!Read, Upload!Trim, Upload!AnswerBegin,
         Upload!Chunk, Upload!Write, Upload!Close,
                    Upload!Complete, Upload!Encrypt, Upload!Put, Upload!Unlink, Upload!session
<1>5. CASE Upload!Record(w)
  <2>1. calls[w].pc = "record" /\ row'.offset = calls[w].offset
    BY <1>2, <1>5 DEF Upload!Record, Upload!RecordProven, Upload!At
  <2>2. calls[w].offset >= row.offset BY <1>1, <2>1 DEF UploadInv, Staged, StagedFor
  <2>3. calls[w].offset \in Nat BY <1>0, Types DEF WorkRows
  <2> QED BY <1>0, <1>1, <2>1, <2>2, <2>3
<1>6. CASE Upload!Receipt(w)
  <2>1. calls[w].pc = "receipt" /\ row'.offset = calls[w].index
    BY <1>0, <1>2, <1>6 DEF Upload!Receipt, Upload!At, UploadTypeOK, TypeServer
  <2>2. calls[w].index = row.offset + 1 BY <1>1, <2>1 DEF UploadInv, SessionKnown, KnownBy
  <2> QED BY <1>0, <1>1, <2>1, <2>2
<1>7. CASE Upload!Register(w)
  <2>1. row'.offset = row.offset BY <1>0, <1>2, <1>7 DEF Upload!Register, UploadTypeOK, TypeServer
  <2> QED BY <1>0, <1>1, <2>1
<1> QED BY <1>4, <1>5, <1>6, <1>7

\* A chunk the server has acknowledged is not asked for again unless a lease ran out under a
\* worker or the staging file was damaged (ContentUploads.recover, chunk).
THEOREM AcknowledgedIsKept ==
  ASSUME Upload!ChunksAssumption, Upload!NoneAssumption, Upload!JobAssumption
  PROVE  Upload!Spec => Upload!AcknowledgedStays
<1>1. UploadInv /\ [Upload!Next]_(Upload!vars) => UploadInv' BY NextInv
<1>2. UploadInv' => Upload!AcknowledgedIsStaged'
  BY DEF UploadInv, Staged, Kept, Whole, Upload!AcknowledgedIsStaged
<1>3. UploadInv /\ [Upload!Next]_(Upload!vars) => Upload!ProgressKept BY NothingTakenBack
<1>4. UploadInv /\ [Upload!Next]_(Upload!vars) => [Upload!AcknowledgedIsStaged'
        /\ Upload!ProgressKept]_(Upload!vars)
  BY <1>1, <1>2, <1>3
<1> QED BY <1>4, UploadInvariance, PTL DEF Upload!Spec, Upload!AcknowledgedStays
=============================================================================
