---------------------------- MODULE MCPartsProofs ----------------------------
(***************************************************************************)
(* The theorems about MachineCoordinator, the module that MCParts extends, *)
(* for every set of commands: any number of requests, submitted, late or   *)
(* overtaken in any order.                                                 *)
(*                                                                         *)
(* Then the lemmas about the service instances and about the artifact      *)
(* store, and last what holds in the composition: a step of MCParts is a   *)
(* step of one component and leaves the variables of the rest alone, so    *)
(* that every behaviour of the composition is one of each component.       *)
(***************************************************************************)
EXTENDS MCParts, TLAPS

-----------------------------------------------------------------------------
(* The inductive invariant, as a conjunction of named parts *)

\* The thread works on a real command; while the chain decides, the envelope
\* is being admitted and carries no error.
InHand ==
    /\ thread.at \in {"taken", "admitting", "checked", "admitted", "acknowledged",
                     "driving", "raised"}
          => Cmd \in Commands
    /\ thread.at \in {"admitting", "checked", "admitted"} =>
          env[Cmd].st = "ADMITTING" /\ env[Cmd].error = "NONE" /\ ~env[Cmd].ack
    /\ At("admitted") => Cmd \in Range(admitted)
    /\ thread.at \in {"acknowledged", "driving"} => env[Cmd].st = "COMMITTED"
    /\ At("raised") => env[Cmd].st \in {"ADMITTING", "COMMITTED"}

\* A committed command's envelope says so, but for the step in which the thread
\* still has to acknowledge it.
CommittedMarked ==
    \A c \in Range(admitted) :
        env[c].st = "COMMITTED" \/ (env[c].st = "ADMITTING" /\ At("admitted") /\ Cmd = c)

\* An acknowledgement without error stands for a commit, one with an error for
\* none; an untouched envelope carries neither.
AcksHonest ==
    \A c \in Commands :
        /\ env[c].ack /\ env[c].error = "NONE" => c \in Range(admitted)
        /\ env[c].error # "NONE" => c \notin Range(admitted)
        /\ env[c].st \in {"NONE", "QUEUED"} =>
              env[c].error = "NONE" /\ ~env[c].ack /\ ~env[c].ready

\* What a request reports is what its envelope held.
CallerInformed ==
    \A c \in Commands :
        /\ caller[c] \in {"new", "denied"} => env[c].st = "NONE"
        /\ caller[c] \in {"STOPPED", "REFUSED"} => env[c].error # "NONE"
        /\ caller[c] \in {"observing", "RESULT", "UNSHOWN"} => c \in Range(admitted)

\* An observer is released without a projection only when the thread is failing.
UnshownFatal ==
    \A c \in Commands :
        /\ env[c].ready /\ env[c].error = "NONE" /\ c \notin shown => fatal \/ At("raised")
        /\ caller[c] = "UNSHOWN" => fatal \/ At("raised")

\* A queued envelope is in the mailbox or in the thread's hand.
QueuedIsHeld ==
    \A c \in Commands : env[c].st = "QUEUED" => c \in Range(box) \/ (At("taken") /\ Cmd = c)

\* The thread leaves its loop only after a stop or a fatal mark, so that nothing
\* is put behind its last look at the mailbox.
LeavesClosed ==
    /\ thread.at \in {"leaving", "closing"} => stopping \/ fatal
    /\ StopItem \in Range(box) /\ Alive => stopping
    /\ stopper \in {"draining", "joining"} => stopping
    /\ stopper = "done" => ~Alive
    /\ thread.at \in {"starting", "absent"} =>
          box = <<>> /\ stopper \in {"idle", "done"} /\ \A c \in Commands : env[c].st = "NONE"
    /\ thread.at \in {"closing", "ended"} => \A c \in Commands : c \notin Range(box)

IInv ==
    /\ TypeOK /\ InHand /\ CommittedMarked /\ AcksHonest /\ CallerInformed
    /\ UnshownFatal /\ QueuedIsHeld /\ LeavesClosed

-----------------------------------------------------------------------------
(* Mailbox facts *)

LEMMA RangeEmpty == Range(<<>>) = {}
BY DEF Range

LEMMA RangeTyped ==
    ASSUME NEW S, NEW s \in Seq(S)
    PROVE  Range(s) \subseteq S
BY DEF Range

LEMMA RangeAppend ==
    ASSUME NEW S, NEW s \in Seq(S), NEW x \in S
    PROVE  Append(s, x) \in Seq(S) /\ Range(Append(s, x)) = Range(s) \cup {x}
<1> DEFINE t == Append(s, x)
<1>1. t \in Seq(S) /\ Len(t) = Len(s) + 1 /\ t[Len(s) + 1] = x
    OBVIOUS
<1>2. \A i \in 1 .. Len(s) : t[i] = s[i]
    OBVIOUS
<1> HIDE DEF t
<1>3. Range(t) \subseteq Range(s) \cup {x}
    BY <1>1, <1>2 DEF Range
<1>4. Range(s) \cup {x} \subseteq Range(t)
    BY <1>1, <1>2 DEF Range
<1> QED
    BY <1>1, <1>3, <1>4 DEF t

LEMMA RangeTail ==
    ASSUME NEW S, NEW s \in Seq(S), s # <<>>
    PROVE  /\ Tail(s) \in Seq(S) /\ Head(s) \in S
           /\ Range(s) = {Head(s)} \cup Range(Tail(s))
<1> DEFINE t == Tail(s)
<1>1. /\ t \in Seq(S) /\ Len(s) \in Nat /\ Len(s) > 0 /\ Len(t) = Len(s) - 1
      /\ Head(s) = s[1] /\ s[1] \in S
    OBVIOUS
<1>2. \A i \in 1 .. Len(t) : t[i] = s[i + 1]
    BY <1>1
<1> HIDE DEF t
<1>3. \A i \in 2 .. Len(s) : i - 1 \in 1 .. Len(t) /\ s[i] = t[i - 1]
    BY <1>1, <1>2
<1>4. Range(s) \subseteq {s[1]} \cup Range(t)
    <2> SUFFICES ASSUME NEW i \in 1 .. Len(s) PROVE s[i] \in {s[1]} \cup Range(t)
        BY DEF Range
    <2>1. i = 1 \/ i \in 2 .. Len(s)
        BY <1>1
    <2>2. \A j \in 1 .. Len(t) : t[j] \in Range(t)
        BY <1>1 DEF Range
    <2> QED
        BY <2>1, <2>2, <1>3
<1>5. {s[1]} \cup Range(t) \subseteq Range(s)
    BY <1>1, <1>2, SMTT(30) DEF Range
<1> QED
    BY <1>1, <1>4, <1>5 DEF t

-----------------------------------------------------------------------------
(* Envelope facts *)

LEMMA EnvelopeTypes ==
    ASSUME NEW v \in Envelopes
    PROVE  /\ Withdrawn(v) \in Envelopes
           /\ Rejected(v) \in Envelopes
           /\ Committed(v) \in Envelopes
           /\ \A why \in {"REFUSED", "FAILED"} : Failed(v, why) \in Envelopes
BY DEF Envelopes, Withdrawn, Rejected, Committed, Failed

-----------------------------------------------------------------------------
(* The invariant is inductive *)

LEMMA InitInv == Init => IInv
<1> SUFFICES ASSUME Init PROVE IInv
    OBVIOUS
<1>1. NoEnvelope \in Envelopes
    BY DEF NoEnvelope, Envelopes
<1>2. \A S : <<>> \in Seq(S)
    OBVIOUS
<1>3. thread \in [at : ThreadStates, cmd : Commands \cup {StopItem}, drives : BOOLEAN]
    BY DEF Init, ThreadStates
<1>4. TypeOK
    BY <1>1, <1>2, <1>3 DEF Init, TypeOK
<1> QED
    BY <1>4, StopAssumption, RangeEmpty
    DEF Init, IInv, InHand, CommittedMarked, AcksHonest, CallerInformed, UnshownFatal,
        QueuedIsHeld, LeavesClosed, NoEnvelope, Alive, At, Cmd

LEMMA StepInv == IInv /\ [Next]_vars => IInv'
<1> SUFFICES ASSUME IInv, [Next]_vars PROVE IInv'
    OBVIOUS
<1> USE StopAssumption DEF At, To, Cmd, Update, Alive, LockFree, Answers, ThreadStates
<1> Range(admitted) \subseteq Commands /\ Range(box) \subseteq Commands \cup {StopItem}
    BY RangeTyped DEF IInv, TypeOK
<1>1. ASSUME NEW c \in Commands, Submit(c) PROVE IInv'
    <2>1. env[c].st = "NONE" /\ c \notin Range(admitted)
        BY <1>1 DEF Submit, IInv, CallerInformed, CommittedMarked
    <2>2. /\ Fresh \in Envelopes /\ Fresh.st = "QUEUED" /\ Fresh.error = "NONE"
          /\ ~Fresh.ack /\ ~Fresh.ready
        BY DEF Fresh, NoEnvelope, Envelopes
    <2>3. /\ Append(box, c) \in Seq(Commands \cup {StopItem})
          /\ Range(Append(box, c)) = Range(box) \cup {c}
        BY RangeAppend DEF IInv, TypeOK
    <2>4. Append(arrived, c) \in Seq(Commands)
        BY RangeAppend DEF IInv, TypeOK
    <2>5. \/ UNCHANGED <<env, box, arrived>>
          \/ /\ Accepting /\ box' = Append(box, c) /\ arrived' = Append(arrived, c)
             /\ env' = [env EXCEPT ![c] = Fresh]
        BY <1>1 DEF Submit, Put, Accepting
    <2>6. env' \in [Commands -> Envelopes] /\ \A d \in Commands \ {c} : env'[d] = env[d]
        BY <2>2, <2>5 DEF IInv, TypeOK
    <2>7. env'[c] = env[c] \/ env'[c] = Fresh
        BY <2>5 DEF IInv, TypeOK
    <2>8. CallerInformed'
        BY <1>1 DEF Submit, Accepting, IInv, TypeOK, CallerInformed, Envelopes
    <2>9. TypeOK'
        BY <1>1, <2>1, <2>2, <2>3, <2>4, <2>5, <2>6, <2>7, ZenonT(40)
        DEF Submit, Accepting, IInv, TypeOK
    <2>10. InHand'
        BY <1>1, <2>1, <2>2, <2>3, <2>4, <2>5, <2>6, <2>7, ZenonT(40)
        DEF Submit, Accepting, IInv, TypeOK, InHand, Envelopes
    <2>11. CommittedMarked'
        BY <1>1, <2>1, <2>2, <2>3, <2>4, <2>5, <2>6, <2>7
        DEF Submit, Accepting, IInv, TypeOK, CommittedMarked, Envelopes
    <2>12. AcksHonest'
        BY <1>1, <2>1, <2>2, <2>3, <2>4, <2>5, <2>6, <2>7
        DEF Submit, Accepting, IInv, TypeOK, AcksHonest, Envelopes
    <2>13. UnshownFatal'
        BY <1>1, <2>1, <2>2, <2>3, <2>4, <2>5, <2>6, <2>7
        DEF Submit, Accepting, IInv, TypeOK, UnshownFatal, Envelopes
    <2>14. QueuedIsHeld'
        BY <1>1, <2>1, <2>2, <2>3, <2>4, <2>5, <2>6, <2>7, ZenonT(40)
        DEF Submit, Accepting, IInv, TypeOK, QueuedIsHeld, Envelopes
    <2>15. LeavesClosed'
        BY <1>1, <2>1, <2>2, <2>3, <2>4, <2>5, <2>6, <2>7, ZenonT(40)
        DEF Submit, Accepting, IInv, TypeOK, LeavesClosed, Envelopes
    <2> QED BY <2>8, <2>9, <2>10, <2>11, <2>12, <2>13, <2>14, <2>15 DEF IInv
<1>2. ASSUME NEW c \in Commands, Deadline(c) PROVE IInv'
    BY <1>2
    DEF Deadline, IInv, TypeOK, InHand, CommittedMarked, AcksHonest, CallerInformed,
        UnshownFatal, QueuedIsHeld, LeavesClosed, Envelopes
<1>3. ASSUME NEW c \in Commands, WaitEnds(c) PROVE IInv'
    <2>1. /\ TypeOK' /\ InHand' /\ CommittedMarked' /\ AcksHonest' /\ UnshownFatal'
          /\ QueuedIsHeld' /\ LeavesClosed'
        BY <1>3
        DEF WaitEnds, IInv, TypeOK, InHand, CommittedMarked, AcksHonest, UnshownFatal,
            QueuedIsHeld, LeavesClosed, Envelopes
    <2>2. CallerInformed'
        BY <1>3 DEF WaitEnds, IInv, TypeOK, AcksHonest, CallerInformed, Envelopes
    <2> QED BY <2>1, <2>2 DEF IInv
<1>4. ASSUME NEW c \in Commands, WaitExpires(c) PROVE IInv'
    BY <1>4
    DEF WaitExpires, IInv, TypeOK, InHand, CommittedMarked, AcksHonest,
        CallerInformed, UnshownFatal, QueuedIsHeld, LeavesClosed, Envelopes
<1>5. ASSUME NEW c \in Commands, Withdraw(c) PROVE IInv'
    <2>1. /\ env' \in [Commands -> Envelopes] /\ \A d \in Commands \ {c} : env'[d] = env[d]
          /\ \/ env'[c] = env[c]
             \/ env[c].st = "QUEUED" /\ env'[c] = [env[c] EXCEPT !.st = "WITHDRAWN"]
        <3>1. env \in [Commands -> Envelopes] /\ env' = [env EXCEPT ![c] = Withdrawn(env[c])]
            BY <1>5 DEF Withdraw, IInv, TypeOK
        <3>2. \/ Withdrawn(env[c]) = env[c]
              \/ env[c].st = "QUEUED" /\ Withdrawn(env[c]) = [env[c] EXCEPT !.st = "WITHDRAWN"]
            BY DEF Withdrawn
        <3>3. [env[c] EXCEPT !.st = "WITHDRAWN"] \in Envelopes
            BY <3>1 DEF Envelopes
        <3> QED BY <3>1, <3>2, <3>3
    <2>2. TypeOK'
        BY <1>5, <2>1 DEF Withdraw, IInv, TypeOK
    <2>3. InHand'
        BY <1>5, <2>1 DEF Withdraw, IInv, TypeOK, InHand, Envelopes
    <2>4. CommittedMarked' /\ AcksHonest'
        BY <1>5, <2>1 DEF Withdraw, IInv, TypeOK, CommittedMarked, AcksHonest, Envelopes
    <2>5. CallerInformed' /\ UnshownFatal'
        BY <1>5, <2>1 DEF Withdraw, IInv, TypeOK, CallerInformed, UnshownFatal, Envelopes
    <2>6. QueuedIsHeld' /\ LeavesClosed'
        BY <1>5, <2>1 DEF Withdraw, IInv, TypeOK, QueuedIsHeld, LeavesClosed, Envelopes
    <2> QED BY <2>2, <2>3, <2>4, <2>5, <2>6 DEF IInv
<1>6. ASSUME NEW c \in Commands, Observe(c) PROVE IInv'
    <2>1. /\ TypeOK' /\ InHand' /\ CommittedMarked' /\ AcksHonest' /\ CallerInformed'
          /\ QueuedIsHeld' /\ LeavesClosed'
        BY <1>6
        DEF Observe, IInv, TypeOK, InHand, CommittedMarked, AcksHonest, CallerInformed,
            QueuedIsHeld, LeavesClosed, Envelopes
    <2>2. UnshownFatal'
        BY <1>6
        DEF Observe, IInv, TypeOK, AcksHonest, CallerInformed, UnshownFatal, Envelopes
    <2> QED BY <2>1, <2>2 DEF IInv
<1>7. ASSUME StartReady PROVE IInv'
    BY <1>7
    DEF StartReady, IInv, TypeOK, InHand, CommittedMarked, AcksHonest,
        CallerInformed, UnshownFatal, QueuedIsHeld, LeavesClosed, Envelopes
<1>8. ASSUME StartFails PROVE IInv'
    BY <1>8
    DEF StartFails, IInv, TypeOK, InHand, CommittedMarked, AcksHonest,
        CallerInformed, UnshownFatal, QueuedIsHeld, LeavesClosed, Envelopes
<1>9. ASSUME Take PROVE IInv'
    <2>1. /\ Tail(box) \in Seq(Commands \cup {StopItem})
          /\ Head(box) \in Commands \cup {StopItem}
          /\ Range(box) = {Head(box)} \cup Range(Tail(box))
        BY <1>9, RangeTail DEF Take, IInv, TypeOK
    <2>2. \/ thread' = [thread EXCEPT !.at = "leaving"]
          \/ thread' = [thread EXCEPT !.at = "taken", !.cmd = Head(box)]
        BY <1>9 DEF Take
    <2>3. thread' \in [at : ThreadStates, cmd : Commands \cup {StopItem}, drives : BOOLEAN]
        BY <2>1, <2>2 DEF IInv, TypeOK
    <2>4. CommittedMarked' /\ AcksHonest' /\ CallerInformed' /\ UnshownFatal'
        BY <1>9, RangeTail, RangeEmpty
        DEF Take, IInv, TypeOK, CommittedMarked, AcksHonest, CallerInformed,
            UnshownFatal, Envelopes
    <2>5. TypeOK'
        BY <1>9, RangeEmpty, <2>1, <2>2, <2>3 DEF Take, IInv, TypeOK
    <2>6. InHand'
        BY <1>9, RangeEmpty, <2>1, <2>2, <2>3, ZenonT(40) DEF Take, IInv, TypeOK, InHand, Envelopes
    <2>7. QueuedIsHeld'
        BY <1>9, RangeEmpty, <2>1, <2>2, <2>3, ZenonT(40)
        DEF Take, IInv, TypeOK, QueuedIsHeld, Envelopes
    <2>8. LeavesClosed'
        BY <1>9, RangeEmpty, <2>1, <2>2, <2>3, ZenonT(40)
        DEF Take, IInv, TypeOK, LeavesClosed, Envelopes
    <2> QED BY <2>4, <2>5, <2>6, <2>7, <2>8 DEF IInv
<1>10. ASSUME ClaimAdmission PROVE IInv'
    <2>1. Cmd \in Commands /\ env[Cmd] \in Envelopes
        BY <1>10 DEF ClaimAdmission, IInv, InHand, TypeOK
    <2>2. /\ [env[Cmd] EXCEPT !.st = "ADMITTING"] \in Envelopes
          /\ Rejected(env[Cmd]) \in Envelopes
        BY <2>1, EnvelopeTypes DEF Envelopes
    <2>3. Cmd \in Range(admitted) => env[Cmd].st # "QUEUED"
        BY <1>10 DEF ClaimAdmission, IInv, CommittedMarked
    <2>4. thread' \in [at : ThreadStates, cmd : Commands \cup {StopItem}, drives : BOOLEAN]
        BY <1>10, <2>1 DEF ClaimAdmission, IInv, TypeOK
    <2>5. \/ UNCHANGED env
          \/ env' = [env EXCEPT ![Cmd] = Rejected(env[Cmd])]
          \/ env[Cmd].st = "QUEUED" /\ env' = [env EXCEPT ![Cmd] = [env[Cmd] EXCEPT !.st = "ADMITTING"]]
        BY <1>10 DEF ClaimAdmission
    <2>6. env \in [Commands -> Envelopes]
        BY DEF IInv, TypeOK
    <2>7. \A v \in Envelopes : [env EXCEPT ![Cmd] = v] \in [Commands -> Envelopes]
        BY <2>6
    <2>8. env' \in [Commands -> Envelopes]
        BY <2>2, <2>5, <2>6, <2>7
    <2>9. \A d \in Commands \ {Cmd} : env'[d] = env[d]
        BY <2>5, <2>6
    <2>10. \/ Rejected(env[Cmd]) = env[Cmd]
           \/ /\ env[Cmd].st = "QUEUED" /\ Rejected(env[Cmd]).st = "WITHDRAWN"
              /\ Rejected(env[Cmd]).error = "STOPPED"
        BY DEF Rejected
    <2>11. \/ env'[Cmd] = env[Cmd]
           \/ env[Cmd].st = "QUEUED" /\ env'[Cmd].st = "WITHDRAWN" /\ env'[Cmd].error = "STOPPED"
           \/ env[Cmd].st = "QUEUED" /\ env'[Cmd] = [env[Cmd] EXCEPT !.st = "ADMITTING"]
        BY <2>1, <2>5, <2>6, <2>10
    <2>12. TypeOK'
        BY <1>10, <2>4, <2>8
        DEF ClaimAdmission, IInv, TypeOK
    <2>13. InHand'
        BY <1>10, <2>1, <2>3, <2>4, <2>5, <2>6, <2>8, <2>9, <2>11
        DEF ClaimAdmission, Rejected, IInv, TypeOK, InHand, AcksHonest, Envelopes
    <2>14. CommittedMarked'
        BY <1>10, <2>1, <2>3, <2>4, <2>8, <2>9, <2>11
        DEF ClaimAdmission, IInv, TypeOK, CommittedMarked, Envelopes
    <2>15. AcksHonest'
        BY <1>10, <2>1, <2>3, <2>4, <2>8, <2>9, <2>11
        DEF ClaimAdmission, IInv, TypeOK, AcksHonest, Envelopes
    <2>16. CallerInformed'
        BY <1>10, <2>1, <2>3, <2>4, <2>8, <2>9, <2>11
        DEF ClaimAdmission, IInv, TypeOK, CallerInformed, Envelopes
    <2>17. UnshownFatal'
        <3>1. env'[Cmd].ready /\ env'[Cmd].error = "NONE" => env[Cmd].ready /\ env[Cmd].error = "NONE"
            BY <2>1, <2>11 DEF Envelopes
        <3>2. \A d \in Commands :
                 env'[d].ready /\ env'[d].error = "NONE" => env[d].ready /\ env[d].error = "NONE"
            BY <3>1, <2>9
        <3>3. thread.at # "raised" /\ UNCHANGED <<fatal, shown, caller>>
            BY <1>10 DEF ClaimAdmission
        <3> QED
            BY <3>2, <3>3 DEF IInv, UnshownFatal
    <2>18. QueuedIsHeld'
        <3>1. env'[Cmd].st # "QUEUED" /\ UNCHANGED box
            BY <1>10, <2>1, <2>6 DEF ClaimAdmission, Rejected, Envelopes
        <3>2. \A d \in Commands \ {Cmd} : env[d].st = "QUEUED" => d \in Range(box)
            BY DEF IInv, QueuedIsHeld
        <3> QED
            BY <3>1, <3>2, <2>9 DEF QueuedIsHeld
    <2>19. LeavesClosed'
        BY <1>10, <2>1, <2>3, <2>4, <2>8, <2>9, <2>11
        DEF ClaimAdmission, IInv, TypeOK, LeavesClosed, Envelopes
    <2> QED BY <2>12, <2>13, <2>14, <2>15, <2>16, <2>17, <2>18, <2>19 DEF IInv
<1>11. ASSUME CheckRequested PROVE IInv'
    BY <1>11
    DEF CheckRequested, StillRequested, IInv, TypeOK, InHand, CommittedMarked,
        AcksHonest, CallerInformed, UnshownFatal, QueuedIsHeld, LeavesClosed,
        Envelopes
<1>12. ASSUME AdmissionRefused PROVE IInv'
    <2>1. Cmd \in Commands /\ env[Cmd] \in Envelopes
        BY <1>12 DEF AdmissionRefused, IInv, InHand, TypeOK
    <2>2. Cmd \notin Range(admitted)
        BY <1>12 DEF AdmissionRefused, IInv, InHand, CommittedMarked
    <2>3. /\ InHand' /\ CommittedMarked' /\ CallerInformed' /\ UnshownFatal'
          /\ QueuedIsHeld' /\ LeavesClosed'
        BY <1>12
        DEF AdmissionRefused, Failed, IInv, TypeOK, InHand, CommittedMarked,
            CallerInformed, UnshownFatal, QueuedIsHeld, LeavesClosed, Envelopes
    <2>4. TypeOK'
        BY <1>12, <2>1, <2>2, EnvelopeTypes DEF AdmissionRefused, IInv, TypeOK, InHand
    <2>5. AcksHonest'
        BY <1>12, <2>1, <2>2
        DEF AdmissionRefused, Failed, IInv, TypeOK, InHand, AcksHonest, Envelopes
    <2> QED BY <2>3, <2>4, <2>5 DEF IInv
<1>13. ASSUME AdmissionRaises PROVE IInv'
    <2>1. Cmd \in Commands /\ env[Cmd] \in Envelopes
        BY <1>13 DEF AdmissionRaises, IInv, InHand, TypeOK
    <2>2. Cmd \notin Range(admitted)
        BY <1>13 DEF AdmissionRaises, IInv, InHand, CommittedMarked
    <2>3. /\ InHand' /\ CommittedMarked' /\ CallerInformed' /\ UnshownFatal'
          /\ QueuedIsHeld' /\ LeavesClosed'
        BY <1>13
        DEF AdmissionRaises, Failed, IInv, TypeOK, InHand, CommittedMarked,
            CallerInformed, UnshownFatal, QueuedIsHeld, LeavesClosed, Envelopes
    <2>4. TypeOK'
        BY <1>13, <2>1, <2>2, EnvelopeTypes DEF AdmissionRaises, IInv, TypeOK, InHand
    <2>5. AcksHonest'
        BY <1>13, <2>1, <2>2
        DEF AdmissionRaises, Failed, IInv, TypeOK, InHand, AcksHonest, Envelopes
    <2> QED BY <2>3, <2>4, <2>5 DEF IInv
<1>14. ASSUME AdmissionCommits PROVE IInv'
    <2>1. Cmd \in Commands /\ env[Cmd].st = "ADMITTING" /\ env[Cmd].error = "NONE"
        BY <1>14 DEF AdmissionCommits, IInv, InHand
    <2>2. admitted' \in Seq(Commands) /\ Range(admitted') = Range(admitted) \cup {Cmd}
        BY <1>14, <2>1, RangeAppend DEF AdmissionCommits, IInv, TypeOK
    <2>3. UnshownFatal' /\ QueuedIsHeld' /\ LeavesClosed'
        BY <1>14, RangeAppend
        DEF AdmissionCommits, IInv, TypeOK, UnshownFatal, QueuedIsHeld, LeavesClosed,
            Envelopes
    <2>4. TypeOK'
        BY <1>14, <2>1, <2>2 DEF AdmissionCommits, IInv, TypeOK
    <2>5. InHand'
        BY <1>14, <2>1, <2>2 DEF AdmissionCommits, IInv, TypeOK, InHand, Envelopes
    <2>6. CommittedMarked'
        BY <1>14, <2>1, <2>2
        DEF AdmissionCommits, IInv, TypeOK, CommittedMarked, Envelopes
    <2>7. AcksHonest'
        BY <1>14, <2>1, <2>2 DEF AdmissionCommits, IInv, TypeOK, AcksHonest, Envelopes
    <2>8. CallerInformed'
        BY <1>14, <2>1, <2>2
        DEF AdmissionCommits, IInv, TypeOK, CallerInformed, Envelopes
    <2> QED BY <2>3, <2>4, <2>5, <2>6, <2>7, <2>8 DEF IInv
<1>15. ASSUME Acknowledge PROVE IInv'
    <2>1. Cmd \in Commands /\ env[Cmd] \in Envelopes
        BY <1>15 DEF Acknowledge, IInv, InHand, TypeOK
    <2>2. Cmd \in Range(admitted)
        BY <1>15 DEF Acknowledge, IInv, InHand
    <2>3. InHand' /\ CommittedMarked' /\ UnshownFatal' /\ QueuedIsHeld' /\ LeavesClosed'
        BY <1>15
        DEF Acknowledge, Committed, IInv, TypeOK, InHand, CommittedMarked, UnshownFatal,
            QueuedIsHeld, LeavesClosed, Envelopes
    <2>4. TypeOK'
        BY <1>15, <2>1, <2>2, EnvelopeTypes DEF Acknowledge, IInv, TypeOK, InHand
    <2>5. AcksHonest'
        BY <1>15, <2>1, <2>2
        DEF Acknowledge, Committed, IInv, TypeOK, InHand, AcksHonest, Envelopes
    <2>6. CallerInformed'
        BY <1>15, <2>1, <2>2
        DEF Acknowledge, Committed, IInv, TypeOK, InHand, CallerInformed, Envelopes
    <2> QED BY <2>3, <2>4, <2>5, <2>6 DEF IInv
<1>16. ASSUME Publish PROVE IInv'
    <2>1. Cmd \in Commands /\ env[Cmd].st = "COMMITTED" /\ env[Cmd] \in Envelopes
        BY <1>16 DEF Publish, IInv, InHand, TypeOK
    <2>2. [env[Cmd] EXCEPT !.ready = TRUE] \in Envelopes
        BY <2>1 DEF Envelopes
    <2>3. thread' \in [at : ThreadStates, cmd : Commands \cup {StopItem}, drives : BOOLEAN]
        BY <1>16, <2>1 DEF Publish, IInv, TypeOK
    <2>4. env' \in [Commands -> Envelopes]
        BY <1>16, <2>1, <2>2 DEF Publish, ReadyAnyway, IInv, TypeOK
    <2>5. /\ InHand' /\ CommittedMarked' /\ CallerInformed' /\ UnshownFatal'
          /\ QueuedIsHeld' /\ LeavesClosed'
        BY <1>16
        DEF Publish, ReadyAnyway, IInv, TypeOK, InHand, CommittedMarked, CallerInformed,
            UnshownFatal, QueuedIsHeld, LeavesClosed, Envelopes
    <2>6. TypeOK'
        BY <1>16, <2>1, <2>2, <2>3, <2>4 DEF Publish, ReadyAnyway, IInv, TypeOK
    <2>7. AcksHonest'
        BY <1>16, <2>1, <2>2, <2>3, <2>4
        DEF Publish, ReadyAnyway, IInv, TypeOK, AcksHonest, Envelopes
    <2> QED BY <2>5, <2>6, <2>7 DEF IInv
<1>17. ASSUME Drive PROVE IInv'
    <2>1. /\ CommittedMarked' /\ AcksHonest' /\ CallerInformed' /\ UnshownFatal'
          /\ QueuedIsHeld' /\ LeavesClosed'
        BY <1>17
        DEF Drive, IInv, TypeOK, CommittedMarked, AcksHonest, CallerInformed,
            UnshownFatal, QueuedIsHeld, LeavesClosed, Envelopes
    <2>2. TypeOK'
        BY <1>17 DEF Drive, IInv, TypeOK
    <2>3. InHand'
        BY <1>17 DEF Drive, IInv, TypeOK, InHand, Envelopes
    <2> QED BY <2>1, <2>2, <2>3 DEF IInv
<1>18. ASSUME NextRound PROVE IInv'
    BY <1>18
    DEF NextRound, IInv, TypeOK, InHand, CommittedMarked, AcksHonest,
        CallerInformed, UnshownFatal, QueuedIsHeld, LeavesClosed, Envelopes
<1>19. ASSUME SetFatal PROVE IInv'
    <2>1. Cmd \in Commands /\ env[Cmd] \in Envelopes
        BY <1>19 DEF SetFatal, IInv, InHand, TypeOK
    <2>2. Cmd \in Range(admitted) => env[Cmd].st = "COMMITTED"
        BY <1>19 DEF SetFatal, IInv, CommittedMarked
    <2>3. \A d \in Commands \ {Cmd} : env'[d] = env[d]
        BY <1>19, <2>1 DEF SetFatal, IInv, TypeOK
    <2>4. \/ env'[Cmd] = env[Cmd]
          \/ /\ env[Cmd].st # "COMMITTED" /\ env'[Cmd].error = "FAILED"
             /\ env'[Cmd].st = env[Cmd].st
        BY <1>19, <2>1 DEF SetFatal, Failed, IInv, TypeOK, Envelopes
    <2>5. /\ InHand' /\ CommittedMarked' /\ CallerInformed' /\ UnshownFatal'
          /\ QueuedIsHeld' /\ LeavesClosed'
        BY <1>19
        DEF SetFatal, Failed, FatalMark, IInv, TypeOK, InHand, CommittedMarked,
            CallerInformed, UnshownFatal, QueuedIsHeld, LeavesClosed, Envelopes
    <2>6. TypeOK'
        BY <1>19, <2>1, <2>2, <2>3, <2>4, EnvelopeTypes
        DEF SetFatal, FatalMark, IInv, TypeOK, InHand
    <2>7. AcksHonest'
        BY <1>19, <2>1, <2>2, <2>3, <2>4
        DEF SetFatal, Failed, FatalMark, IInv, TypeOK, InHand, AcksHonest, Envelopes
    <2> QED BY <2>5, <2>6, <2>7 DEF IInv
<1>20. ASSUME Drain PROVE IInv'
    <2>1. Head(box) \in Range(admitted) => env[Head(box)].st # "QUEUED"
        BY <1>20 DEF Drain, IInv, CommittedMarked
    <2>2. /\ TypeOK' /\ InHand' /\ CommittedMarked' /\ CallerInformed' /\ UnshownFatal'
          /\ QueuedIsHeld' /\ LeavesClosed'
        BY <1>20, RangeTail, RangeEmpty
        DEF Drain, RejectOne, Rejected, IInv, TypeOK, InHand, CommittedMarked,
            CallerInformed, UnshownFatal, QueuedIsHeld, LeavesClosed, Envelopes
    <2>3. AcksHonest'
        BY <1>20, RangeTail, RangeEmpty, <2>1
        DEF Drain, RejectOne, Rejected, IInv, TypeOK, AcksHonest, Envelopes
    <2> QED BY <2>2, <2>3 DEF IInv
<1>21. ASSUME Drained PROVE IInv'
    BY <1>21, RangeEmpty
    DEF Drained, IInv, TypeOK, InHand, CommittedMarked, AcksHonest, CallerInformed,
        UnshownFatal, QueuedIsHeld, LeavesClosed, Envelopes
<1>22. ASSUME ShutDown PROVE IInv'
    <2>1. fatal => fatal'
        BY <1>22 DEF ShutDown, IInv, TypeOK
    <2>2. /\ TypeOK' /\ InHand' /\ CommittedMarked' /\ AcksHonest' /\ CallerInformed'
          /\ QueuedIsHeld' /\ LeavesClosed'
        BY <1>22
        DEF ShutDown, IInv, TypeOK, InHand, CommittedMarked, AcksHonest, CallerInformed,
            QueuedIsHeld, LeavesClosed, Envelopes
    <2>3. UnshownFatal'
        BY <1>22, <2>1 DEF ShutDown, IInv, TypeOK, UnshownFatal, Envelopes
    <2> QED BY <2>2, <2>3 DEF IInv
<1>23. ASSUME StopIdle PROVE IInv'
    BY <1>23
    DEF StopIdle, IInv, TypeOK, InHand, CommittedMarked, AcksHonest, CallerInformed,
        UnshownFatal, QueuedIsHeld, LeavesClosed, Envelopes
<1>24. ASSUME StopBegins PROVE IInv'
    BY <1>24
    DEF StopBegins, IInv, TypeOK, InHand, CommittedMarked, AcksHonest,
        CallerInformed, UnshownFatal, QueuedIsHeld, LeavesClosed, Envelopes
<1>25. ASSUME StopDrains PROVE IInv'
    <2>1. Head(box) \in Range(admitted) => env[Head(box)].st # "QUEUED"
        BY <1>25 DEF StopDrains, IInv, CommittedMarked
    <2>2. /\ TypeOK' /\ InHand' /\ CommittedMarked' /\ CallerInformed' /\ UnshownFatal'
          /\ QueuedIsHeld' /\ LeavesClosed'
        BY <1>25, RangeTail, RangeEmpty
        DEF StopDrains, RejectOne, Rejected, IInv, TypeOK, InHand, CommittedMarked,
            CallerInformed, UnshownFatal, QueuedIsHeld, LeavesClosed, Envelopes
    <2>3. AcksHonest'
        BY <1>25, RangeTail, RangeEmpty, <2>1
        DEF StopDrains, RejectOne, Rejected, IInv, TypeOK, AcksHonest, Envelopes
    <2> QED BY <2>2, <2>3 DEF IInv
<1>26. ASSUME StopWakes PROVE IInv'
    <2>1. /\ Append(box, StopItem) \in Seq(Commands \cup {StopItem})
          /\ Range(Append(box, StopItem)) = Range(box) \cup {StopItem}
        BY RangeAppend DEF IInv, TypeOK
    <2>2. box' = box \/ box' = Append(box, StopItem)
        BY <1>26 DEF StopWakes, WakeUp, Put
    <2>3. InHand' /\ CommittedMarked' /\ AcksHonest' /\ CallerInformed' /\ UnshownFatal'
        BY <1>26, RangeAppend, RangeEmpty
        DEF StopWakes, Put, WakeUp, IInv, TypeOK, InHand, CommittedMarked, AcksHonest,
            CallerInformed, UnshownFatal, Envelopes
    <2>4. TypeOK'
        BY <1>26, RangeEmpty, <2>1, <2>2 DEF StopWakes, IInv, TypeOK
    <2>5. QueuedIsHeld'
        BY <1>26, RangeEmpty, <2>1, <2>2
        DEF StopWakes, IInv, TypeOK, QueuedIsHeld, Envelopes
    <2>6. LeavesClosed'
        BY <1>26, RangeEmpty, <2>1, <2>2
        DEF StopWakes, IInv, TypeOK, LeavesClosed, Envelopes
    <2> QED BY <2>3, <2>4, <2>5, <2>6 DEF IInv
<1>27. ASSUME StopJoins PROVE IInv'
    BY <1>27
    DEF StopJoins, JoinReturns, IInv, TypeOK, InHand, CommittedMarked, AcksHonest,
        CallerInformed, UnshownFatal, QueuedIsHeld, LeavesClosed, Envelopes
<1>28. CASE UNCHANGED vars
    BY <1>28
    DEF vars, IInv, TypeOK, InHand, CommittedMarked, AcksHonest, CallerInformed,
        UnshownFatal, QueuedIsHeld, LeavesClosed, Range
<1> QED
    BY <1>1, <1>2, <1>3, <1>4, <1>5, <1>6, <1>7, <1>8, <1>9, <1>10, <1>11, <1>12, <1>13,
       <1>14, <1>15, <1>16, <1>17, <1>18, <1>19, <1>20, <1>21, <1>22, <1>23, <1>24,
       <1>25, <1>26, <1>27, <1>28
    DEF Next, Run, Process, Wait, StopRest

-----------------------------------------------------------------------------
(* Theorems *)

LEMMA AlwaysInv == Spec => []IInv
<1>1. Init => IInv
    BY InitInv
<1>2. IInv /\ [Next]_vars => IInv'
    BY StepInv
<1> QED
    BY <1>1, <1>2, PTL DEF Spec

\* Envelopes, mailbox, threads and flags keep their types (machine_coordinator.py).
THEOREM TypeCorrect == Spec => []TypeOK
<1>1. IInv => TypeOK
    BY DEF IInv
<1> QED
    BY <1>1, AlwaysInv, PTL

\* No answer of _submit misreports the durable outcome, for any number of
\* requests: a result stands for a commit, a withdrawal, a refusal and a denial
\* for none, and an observed result is missing from the status only when the
\* coordinator is failing.
THEOREM HonestAnswers == Spec => []AnswersHonest
<1>1. IInv => AnswersHonest
    <2> SUFFICES ASSUME IInv, NEW c \in Commands
                 PROVE  /\ caller[c] \in {"observing", "RESULT", "UNSHOWN"} => c \in Range(admitted)
                        /\ caller[c] \in {"denied", "STOPPED", "REFUSED"} => c \notin Range(admitted)
                        /\ env[c].st = "WITHDRAWN" => c \notin Range(admitted)
                        /\ caller[c] = "UNSHOWN" => fatal \/ At("raised")
        BY DEF AnswersHonest
    <2>1. c \in Range(admitted) => env[c].st \in {"COMMITTED", "ADMITTING"} /\ env[c].error = "NONE"
        BY DEF IInv, CommittedMarked, AcksHonest
    <2> QED
        BY <2>1 DEF IInv, CallerInformed, UnshownFatal
<1> QED
    BY <1>1, AlwaysInv, PTL

\* When the owner thread has drained the mailbox (_run's finally block), no
\* envelope is left queued, in the mailbox or elsewhere.
THEOREM NoneStranded == Spec => []NothingStranded
<1>1. IInv => NothingStranded
    BY RangeEmpty DEF IInv, NothingStranded, QueuedIsHeld, LeavesClosed, At
<1> QED
    BY <1>1, AlwaysInv, PTL

\* Once stop() has returned, no step admits a command, touches an envelope or
\* publishes a projection.
THEOREM StaysQuiet == Spec => QuietAfterStop
<1>1. IInv /\ [Next]_vars => [stopper = "done" => UNCHANGED <<admitted, env, shown>>]_vars
    <2> SUFFICES ASSUME IInv, Next, stopper = "done"
                 PROVE  UNCHANGED <<admitted, env, shown>>
        BY DEF vars
    <2>1. thread.at \in {"ended", "absent"} /\ ~Accepting
        BY DEF IInv, LeavesClosed, Alive, Accepting
    <2>2. \A c \in Commands : env[c].st # "QUEUED" /\ [env EXCEPT ![c] = env[c]] = env
        BY <2>1, RangeEmpty DEF IInv, TypeOK, QueuedIsHeld, LeavesClosed, At
    <2>3. ASSUME NEW c \in Commands, Submit(c) \/ Deadline(c) \/ Wait(c)
          PROVE  UNCHANGED <<admitted, env, shown>>
        BY <2>1, <2>2, <2>3
        DEF Submit, Deadline, Wait, WaitEnds, WaitExpires, Withdraw, Observe, Withdrawn, Update
    <2>4. ~Run
        BY <2>1
        DEF Run, Process, StartReady, StartFails, Take, ClaimAdmission, CheckRequested,
            AdmissionRefused, AdmissionRaises, AdmissionCommits, Acknowledge, Publish, Drive,
            NextRound, SetFatal, Drain, Drained, ShutDown, At
    <2>5. ~StopIdle /\ ~StopBegins /\ ~StopRest
        BY DEF StopIdle, StopBegins, StopRest, StopDrains, StopWakes, StopJoins
    <2> QED
        BY <2>3, <2>4, <2>5 DEF Next
<1> QED
    BY <1>1, AlwaysInv, PTL DEF Spec, QuietAfterStop

-----------------------------------------------------------------------------
(* The order of admissions *)

\* a is before b in the sequence s.
BeforeIn(s, a, b) == \E k, l \in DOMAIN s : k < l /\ s[k] = a /\ s[l] = b

\* The commands in the mailbox.
Boxed == Range(box) \ {StopItem}

\* The thread holds a command that the chain has not committed yet.
Pending == thread.at \in {"taken", "admitting", "checked"}

\* What was admitted, what the thread holds and what is in the mailbox follow
\* each other in the order of arrival.
OrderInv ==
    /\ Range(admitted) \cup Boxed \subseteq Range(arrived)
    /\ Pending => Cmd \in Range(arrived)
    /\ Serialized
    /\ \A i, j \in DOMAIN box : i < j /\ box[i] # StopItem /\ box[j] # StopItem
          => BeforeIn(arrived, box[i], box[j])
    /\ \A a \in Range(admitted), b \in Boxed : BeforeIn(arrived, a, b)
    /\ Pending => (\A a \in Range(admitted) : BeforeIn(arrived, a, Cmd)) /\ (\A b \in Boxed : BeforeIn(arrived, Cmd, b))

LEMMA AppendElements ==
    ASSUME NEW S, NEW s \in Seq(S), NEW x \in S
    PROVE  /\ DOMAIN Append(s, x) = DOMAIN s \cup {Len(s) + 1}
           /\ Append(s, x)[Len(s) + 1] = x
           /\ \A i \in DOMAIN s : i \in Nat /\ i < Len(s) + 1 /\ Append(s, x)[i] = s[i]
<1>1. Len(s) \in Nat /\ DOMAIN s = 1 .. Len(s)
    OBVIOUS
<1> QED
    BY <1>1

LEMMA TailElements ==
    ASSUME NEW S, NEW s \in Seq(S), s # <<>>
    PROVE  /\ 1 \in DOMAIN s /\ Head(s) = s[1]
           /\ \A i \in DOMAIN Tail(s) : i \in Nat /\ 1 < i + 1 /\ i + 1 \in DOMAIN s /\ Tail(s)[i] = s[i + 1]
<1>1. Len(s) \in Nat /\ Len(s) > 0 /\ Len(Tail(s)) = Len(s) - 1
    OBVIOUS
<1>2. DOMAIN s = 1 .. Len(s) /\ DOMAIN Tail(s) = 1 .. Len(Tail(s))
    OBVIOUS
<1> QED
    BY <1>1, <1>2

\* A step that admits nothing, takes nothing into hand and puts nothing behind
\* the mailbox, where what is left of it is a part of what was there.
LEMMA OrderKept ==
    ASSUME TypeOK, OrderInv, UNCHANGED <<arrived, admitted>>,
           Pending' => Pending /\ Cmd' = Cmd,
           \/ UNCHANGED box
           \/ box # <<>> /\ box' = Tail(box)
           \/ box = <<>> /\ box' = Append(box, StopItem)
    PROVE  OrderInv'
<1>1. Boxed' \subseteq Boxed
    <2>1. ASSUME box # <<>>, box' = Tail(box) PROVE Boxed' \subseteq Boxed
        BY <2>1, RangeTail DEF TypeOK, Boxed
    <2>2. ASSUME box = <<>>, box' = Append(box, StopItem) PROVE Boxed' \subseteq Boxed
        <3>1. box \in Seq(Commands \cup {StopItem})
            BY DEF TypeOK
        <3>2. Range(Append(box, StopItem)) = Range(box) \cup {StopItem}
            BY <3>1, RangeAppend
        <3> QED
            BY <2>2, <3>2 DEF Boxed
    <2> QED
        BY <2>1, <2>2 DEF Boxed
<1>2. \A a, b : BeforeIn(arrived, a, b) => BeforeIn(arrived', a, b)
    BY DEF BeforeIn
<1>3. \A i, j \in DOMAIN box' : i < j /\ box'[i] # StopItem /\ box'[j] # StopItem
          => BeforeIn(arrived, box'[i], box'[j])
    <2>1. ASSUME box # <<>>, box' = Tail(box) PROVE <1>3!:
        BY <2>1, TailElements DEF TypeOK, OrderInv
    <2>2. ASSUME box = <<>>, box' = Append(box, StopItem) PROVE <1>3!:
        BY <2>2, AppendElements DEF TypeOK
    <2> QED
        BY <2>1, <2>2 DEF OrderInv
<1> QED
    BY <1>1, <1>2, <1>3 DEF OrderInv, Serialized

LEMMA OrderInit == Init => OrderInv
BY RangeEmpty DEF Init, OrderInv, Serialized, Boxed, Pending

LEMMA OrderStep == IInv /\ OrderInv /\ [Next]_vars => OrderInv'
<1> SUFFICES ASSUME IInv, OrderInv, [Next]_vars PROVE OrderInv'
    OBVIOUS
<1> USE DEF At, To, Cmd
<1> TypeOK
    BY DEF IInv
<1>1. ASSUME NEW c \in Commands, Submit(c) PROVE OrderInv'
    <2>1. CASE UNCHANGED <<box, arrived>>
        BY <2>1, <1>1, OrderKept DEF Submit, Pending
    <2>2. CASE box' = Append(box, c) /\ arrived' = Append(arrived, c)
        <3>1. /\ Range(arrived') = Range(arrived) \cup {c}
              /\ Boxed' \subseteq Boxed \cup {c} /\ Boxed \subseteq Boxed'
              /\ UNCHANGED <<admitted, thread>>
            <4>1. Range(arrived') = Range(arrived) \cup {c}
                BY <2>2, RangeAppend DEF TypeOK
            <4>2. Range(box') = Range(box) \cup {c}
                BY <2>2, RangeAppend DEF TypeOK
            <4> QED
                BY <4>1, <4>2, <1>1 DEF Boxed, Submit
        <3>2. \A a, b : BeforeIn(arrived, a, b) => BeforeIn(arrived', a, b)
            BY <2>2, AppendElements DEF TypeOK, BeforeIn
        <3>3. \A a \in Range(arrived) : BeforeIn(arrived', a, c)
            <4>1. /\ DOMAIN arrived' = DOMAIN arrived \cup {Len(arrived) + 1}
                  /\ arrived'[Len(arrived) + 1] = c
                  /\ \A i \in DOMAIN arrived : i < Len(arrived) + 1 /\ arrived'[i] = arrived[i]
                BY <2>2, AppendElements DEF TypeOK
            <4> QED
                BY <4>1 DEF BeforeIn, Range
        <3>4. \A i, j \in DOMAIN box' : i < j /\ box'[i] # StopItem /\ box'[j] # StopItem
                  => BeforeIn(arrived', box'[i], box'[j])
            <4>1. /\ DOMAIN box' = DOMAIN box \cup {Len(box) + 1}
                  /\ box'[Len(box) + 1] = c
                  /\ \A i \in DOMAIN box : i \in Nat /\ i < Len(box) + 1 /\ box'[i] = box[i]
                  /\ Len(box) \in Nat
                BY <2>2, AppendElements DEF TypeOK
            <4> SUFFICES ASSUME NEW i \in DOMAIN box', NEW j \in DOMAIN box', i < j,
                                box'[i] # StopItem, box'[j] # StopItem
                         PROVE  BeforeIn(arrived', box'[i], box'[j])
                OBVIOUS
            <4>2. i \in DOMAIN box /\ box'[i] = box[i]
                BY <4>1
            <4>3. CASE j \in DOMAIN box
                BY <4>1, <4>2, <4>3, <3>2 DEF OrderInv
            <4>4. CASE j = Len(box) + 1
                <5>1. box[i] \in Range(arrived)
                    BY <4>2 DEF OrderInv, Boxed, Range
                <5> QED
                    BY <5>1, <4>1, <4>2, <4>4, <3>3
            <4> QED
                BY <4>1, <4>3, <4>4
        <3>5. Serialized'
            BY <3>1, <3>2 DEF OrderInv, Serialized, BeforeIn
        <3> QED
            BY <3>1, <3>2, <3>3, <3>4, <3>5 DEF OrderInv, Pending
    <2> QED
        BY <1>1, <2>1, <2>2 DEF Submit, Put
<1>2. CASE Take
    <2>1. CASE Head(box) = StopItem
        BY <1>2, <2>1, OrderKept DEF Take, Pending, TypeOK
    <2>2. CASE Head(box) # StopItem
        <3>1. /\ box # <<>> /\ box' = Tail(box) /\ UNCHANGED <<arrived, admitted>>
              /\ Cmd' = Head(box) /\ Pending'
            BY <1>2, <2>2 DEF Take, TypeOK, Pending
        <3>2. Head(box) \in Boxed /\ Boxed' \subseteq Boxed
            BY <2>2, <3>1, RangeTail DEF TypeOK, Boxed
        <3>3. \A a, b : BeforeIn(arrived, a, b) => BeforeIn(arrived', a, b)
            BY <3>1 DEF BeforeIn
        <3>4. \A i, j \in DOMAIN box' : i < j /\ box'[i] # StopItem /\ box'[j] # StopItem
                  => BeforeIn(arrived, box'[i], box'[j])
            BY <3>1, TailElements DEF TypeOK, OrderInv
        <3>5. \A b \in Boxed' : BeforeIn(arrived, Head(box), b)
            BY <2>2, <3>1, TailElements DEF TypeOK, OrderInv, Boxed, Range
        <3> QED
            BY <3>1, <3>2, <3>3, <3>4, <3>5 DEF OrderInv, Serialized
    <2> QED
        BY <2>1, <2>2
<1>3. CASE AdmissionCommits
    <2>1. /\ admitted' = Append(admitted, Cmd) /\ UNCHANGED <<arrived, box>>
          /\ ~Pending' /\ Pending /\ Cmd \in Commands
        BY <1>3 DEF AdmissionCommits, Pending, IInv, InHand, TypeOK
    <2>2. Range(admitted') = Range(admitted) \cup {Cmd}
        BY <2>1, RangeAppend DEF TypeOK
    <2>3. \A a, b : BeforeIn(arrived, a, b) => BeforeIn(arrived', a, b)
        BY <2>1 DEF BeforeIn
    <2>4. \A i, j \in DOMAIN admitted' : i < j => BeforeIn(arrived', admitted'[i], admitted'[j])
        <3>1. /\ DOMAIN admitted' = DOMAIN admitted \cup {Len(admitted) + 1}
              /\ admitted'[Len(admitted) + 1] = Cmd
              /\ \A i \in DOMAIN admitted :
                    i \in Nat /\ i < Len(admitted) + 1 /\ admitted'[i] = admitted[i]
              /\ Len(admitted) \in Nat
            BY <2>1, AppendElements DEF TypeOK
        <3> SUFFICES ASSUME NEW i \in DOMAIN admitted', NEW j \in DOMAIN admitted', i < j
                     PROVE  BeforeIn(arrived', admitted'[i], admitted'[j])
            OBVIOUS
        <3>2. i \in DOMAIN admitted /\ admitted'[i] = admitted[i] /\ admitted[i] \in Range(admitted)
            BY <3>1 DEF Range
        <3>3. CASE j \in DOMAIN admitted
            <4>1. BeforeIn(arrived, admitted[i], admitted[j])
                BY <3>2, <3>3 DEF OrderInv, Serialized, BeforeIn
            <4> QED
                BY <4>1, <3>1, <3>2, <3>3, <2>3
        <3>4. CASE j = Len(admitted) + 1
            BY <3>1, <3>2, <3>4, <2>1, <2>3 DEF OrderInv
        <3> QED
            BY <3>1, <3>3, <3>4
    <2>5. Serialized'
        BY <2>4 DEF Serialized, BeforeIn
    <2> QED
        BY <2>1, <2>2, <2>3, <2>5 DEF OrderInv, Boxed
<1>4. CASE Drain \/ StopDrains \/ StopWakes
    BY <1>4, OrderKept DEF Drain, StopDrains, StopWakes, RejectOne, WakeUp, Put, Pending
<1>5. ASSUME NEW c \in Commands, Deadline(c) \/ Wait(c) PROVE OrderInv'
    BY <1>5, OrderKept DEF Deadline, Wait, WaitEnds, WaitExpires, Withdraw, Observe, Pending
<1>6. CASE ClaimAdmission \/ CheckRequested \/ AdmissionRefused \/ AdmissionRaises
    BY <1>6, OrderKept
    DEF ClaimAdmission, CheckRequested, AdmissionRefused, AdmissionRaises, Pending, TypeOK
<1>7. CASE Acknowledge \/ Publish \/ Drive \/ NextRound \/ SetFatal \/ Drained \/ ShutDown
           \/ StartReady \/ StartFails
    BY <1>7, OrderKept
    DEF Acknowledge, Publish, Drive, NextRound, SetFatal, Drained, ShutDown, StartReady,
        StartFails, Pending, TypeOK
<1>8. CASE StopIdle \/ StopBegins \/ StopJoins
    BY <1>8, OrderKept DEF StopIdle, StopBegins, StopJoins, Pending
<1>9. CASE UNCHANGED vars
    BY <1>9, OrderKept DEF vars, Pending
<1> QED
    BY <1>1, <1>2, <1>3, <1>4, <1>5, <1>6, <1>7, <1>8, <1>9 DEF Next, Run, Process, StopRest

\* The chain commits commands one at a time in the order in which their
\* requests put them into the mailbox, whatever is withdrawn, refused or late in
\* between, for any number of requests.
THEOREM InArrivalOrder == Spec => []Serialized
<1>1. Init => OrderInv
    BY OrderInit
<1>2. IInv /\ OrderInv /\ [Next]_vars => OrderInv'
    BY OrderStep
<1>3. OrderInv => Serialized
    BY DEF OrderInv
<1> QED
    BY <1>1, <1>2, <1>3, AlwaysInv, PTL DEF Spec

-----------------------------------------------------------------------------
(* The service instances: any number of processes, clients and failing     *)
(* calls.  The hypothesis of the lemmas is that the name standing for no   *)
(* process is not the name of one, which MCParts assumes.                  *)

\* From the lease to its release.
ServiceLeased ==
  {"leased", "machine", "jobs", "started", "stale", "binding", "bound", "listening", "recorded",
   "serving", "closing", "draining", "closed", "unrecorded", "stop", "stopmachine", "stopjobs", "release"}

\* From bind to the end of the service.
ServiceBound == {"bound", "listening", "recorded", "serving"}

\* The lease is held by whoever is past acquire, so that the steps between it
\* and release exclude one another.
LeaseHeld == \A p \in Processes : at[p] \in ServiceLeased => lock = p

\* What a process has made of the socket, the pid file and its threads when it
\* comes to a phase.
Built ==
  \A p \in Processes :
    /\ at[p] \in ServiceBound => path = p
    /\ at[p] \in ServiceBound \ {"bound"} => listener[p] = "listening"
    /\ at[p] \in {"recorded", "serving"} => pidfile = p
    /\ at[p] \in ServiceBound \cup {"machine", "jobs", "started", "stale", "binding"} =>
      machine[p] = "running"
    /\ at[p] \in ServiceBound \cup {"jobs", "started", "stale", "binding"} => jobs[p] = "running"

\* Threads belong to a process between its lease and its exit.
ThreadsLeased == \A p \in Processes : Service!Alive(p) => at[p] \in ServiceLeased \cup {"exit"}

ServiceInv == Service!TypeOK /\ LeaseHeld /\ Built /\ ThreadsLeased

LEMMA ServiceInitInv == ASSUME Service!Nobody \notin Processes PROVE Service!Init => ServiceInv
<1> SUFFICES ASSUME Service!Init PROVE ServiceInv
  OBVIOUS
<1>1. Service!TypeOK
  BY DEF Service!Init, Service!TypeOK, Service!NoConn, Service!Phases
<1> QED
  BY <1>1 DEF Service!Init, ServiceInv, LeaseHeld, Built, ThreadsLeased, ServiceLeased,
    ServiceBound, Service!Alive

LEMMA DroppedTyped ==
  ASSUME Service!TypeOK, NEW cs
  PROVE  Service!Dropped(cs) \in [Clients -> [is : {"idle", "silent", "waiting", "answered",
    "dropped"},
                                     to : Processes \cup {Service!Nobody}, taken : BOOLEAN]]
BY SMTT(30) DEF Service!Dropped, Service!TypeOK

\* One step per action of a process.
LEMMA ServiceProcessInv ==
  ASSUME Service!Nobody \notin Processes, ServiceInv, NEW p \in Processes,
         Service!MainTask(p) \/ Service!Build(p) \/ Service!StopRequested(p) \/
           Service!JobsEnd(p) \/ Service!Kill(p)
  PROVE  ServiceInv'
<1> USE DEF ServiceInv, Service!TypeOK, LeaseHeld, Built, ThreadsLeased, ServiceLeased,
  ServiceBound, Service!Alive, Service!Goes, Service!Keeps, Service!Raises,
            Service!files, Service!threads, Service!Phases
<1>1. CASE Service!Acquire(p)
  BY <1>1 DEF Service!Acquire
<1>2. CASE Service!StartMachine(p)
  BY <1>2 DEF Service!StartMachine
<1>3. CASE Service!StartJobs(p)
  BY <1>3 DEF Service!StartJobs
<1>4. CASE Service!StartAudit(p)
  BY <1>4 DEF Service!StartAudit
<1>5. CASE Service!StartFails(p)
  BY <1>5 DEF Service!StartFails
<1>6. CASE Service!Probe(p)
  BY <1>6 DEF Service!Probe, Service!InUse
<1>7. CASE Service!UnlinkStale(p)
  BY <1>7 DEF Service!UnlinkStale
<1>8. CASE Service!Bind(p)
  BY <1>8 DEF Service!Bind
<1>9. CASE Service!Listen(p)
  BY <1>9 DEF Service!Listen
<1>10. CASE Service!WritePidFile(p)
  BY <1>10 DEF Service!WritePidFile
<1>11. CASE Service!Ready(p)
  BY <1>11 DEF Service!Ready
<1>12. CASE Service!ServeFails(p)
  BY <1>12 DEF Service!ServeFails
<1>13. CASE Service!CloseListener(p)
  BY <1>13, DroppedTyped DEF Service!CloseListener
<1>27. CASE Service!CloseConnections(p)
  BY <1>27, DroppedTyped DEF Service!CloseConnections
<1>14. CASE Service!RemovePidFile(p)
  BY <1>14 DEF Service!RemovePidFile
<1>15. CASE Service!UnlinkSocket(p)
  BY <1>15 DEF Service!UnlinkSocket
<1>16. CASE Service!Reconcile(p)
  BY <1>16 DEF Service!Reconcile
<1>17. CASE Service!ReconcileFails(p)
  BY <1>17 DEF Service!ReconcileFails
<1>18. CASE Service!StopMachine(p)
  BY <1>18 DEF Service!StopMachine
<1>19. CASE Service!StopJobs(p)
  BY <1>19 DEF Service!StopJobs
<1>20. CASE Service!StopJobsTimesOut(p)
  BY <1>20 DEF Service!StopJobsTimesOut
<1>21. CASE Service!Release(p)
  BY <1>21 DEF Service!Release
<1>22. CASE Service!Exit(p)
  BY <1>22 DEF Service!Exit
<1>23. CASE Service!Build(p)
  BY <1>23 DEF Service!Build
<1>24. CASE Service!StopRequested(p)
  BY <1>24 DEF Service!StopRequested
<1>25. CASE Service!JobsEnd(p)
  BY <1>25 DEF Service!JobsEnd
<1>26. CASE Service!Kill(p)
  BY <1>26, DroppedTyped DEF Service!Kill
<1> QED
  BY <1>1, <1>2, <1>3, <1>4, <1>5, <1>6, <1>7, <1>8, <1>9, <1>10, <1>11, <1>12, <1>13, <1>14,
    <1>15, <1>16, <1>17, <1>18, <1>19, <1>20, <1>21, <1>22, <1>23, <1>24, <1>25, <1>26, <1>27 DEF
    Service!MainTask

LEMMA ServiceClientInv ==
  ASSUME ServiceInv, Service!ClientStep
  PROVE  ServiceInv'
<1> USE DEF Service!files, Service!threads
<1>1. conn' \in [Clients -> [is : {"idle", "silent", "waiting", "answered", "dropped"},
                            to : Processes \cup {Service!Nobody}, taken : BOOLEAN]]
  <2>1. PICK c \in Clients : \/ Service!Connect(c) \/ Service!SendFrame(c) \/ Service!ClientLeaves(c)
                            \/ Service!Accept(c) \/ Service!Handle(c) \/ Service!HandleFails(c)
    BY DEF Service!ClientStep, Service!Serve
  <2>2. CASE Service!Connect(c)
    BY <2>2 DEF Service!Connect, ServiceInv, Service!TypeOK
  <2>3. CASE Service!Accept(c)
    BY <2>3 DEF Service!Accept, ServiceInv, Service!TypeOK
  <2>4. CASE Service!SendFrame(c) \/ Service!Handle(c)
    BY <2>4 DEF Service!SendFrame, Service!Handle, ServiceInv, Service!TypeOK
  <2>5. CASE Service!ClientLeaves(c) \/ Service!HandleFails(c)
    BY <2>5 DEF Service!ClientLeaves, Service!HandleFails, ServiceInv, Service!TypeOK
  <2> QED
    BY <2>1, <2>2, <2>3, <2>4, <2>5
<1>2. UNCHANGED <<at, lock, path, pidfile, listener, machine, jobs>>
  BY DEF Service!ClientStep, Service!Connect, Service!SendFrame, Service!ClientLeaves, Service!Serve,
    Service!Accept, Service!Handle, Service!HandleFails
<1> QED
  BY <1>1, <1>2 DEF ServiceInv, Service!TypeOK, LeaseHeld, Built, ThreadsLeased, Service!Alive

LEMMA ServiceStepInv == ASSUME Service!Nobody \notin Processes PROVE ServiceInv /\
  [Service!Next]_(Service!serviceVars) => ServiceInv'
<1> SUFFICES ASSUME ServiceInv, [Service!Next]_(Service!serviceVars) PROVE ServiceInv'
  OBVIOUS
<1>1. CASE UNCHANGED Service!serviceVars
  BY <1>1 DEF Service!serviceVars, Service!files, Service!threads, ServiceInv, Service!TypeOK,
    LeaseHeld, Built, ThreadsLeased, Service!Alive
<1> QED
  BY <1>1, ServiceProcessInv, ServiceClientInv DEF Service!Next

LEMMA ServiceAlwaysInv == ASSUME Service!Nobody \notin Processes PROVE Service!Spec => []ServiceInv
<1>1. Service!Init => ServiceInv
  BY ServiceInitInv
<1>2. ServiceInv /\ [Service!Next]_(Service!serviceVars) => ServiceInv'
  BY ServiceStepInv
<1> QED
  BY <1>1, <1>2, PTL DEF Service!Spec

-----------------------------------------------------------------------------
(* The artifact store: every set of worker attempts, any number of         *)
(* crashes, power losses and faults.  StoreSafe is not inductive: that a   *)
(* commit refers to a settled bundle rests on where the job thread is      *)
(* (after the sync, or at a bundle found under its name), on which bundles *)
(* a crash may leave unsettled (an input nobody has recovered before the   *)
(* revocation of a start, a worker's that will never be referenced) and on *)
(* the directory above being durable.  StoreJobInv states that, and        *)
(* ExportInv the same of the exporter; neither mentions a variable of the  *)
(* other's thread but the history unsynced.                                *)

\* The identities that the code makes are different: input-<request>, worker uuids.
StoreDistinct == Input \notin WorkerAttempts /\ Store!NoAttempt \notin Store!Attempts

StoreBounds == MaxStoreCrashes \in Nat /\ MaxStoreFaults \in Nat

Promoting == {"prepare", "mkdir", "copied", "renamed", "verify", "commit", "recommit"}

\* Where the job thread is says which attempt it has and what it has found.
StoreThreadAt ==
  /\ jpc \in Promoting \cup {"work", "project", "docsync"} => cur \in Store!Attempts
  /\ jpc \in {"down", "idle"} => cur = Store!NoAttempt
  /\ jpc = "work" => cur # Input
  /\ jpc = "recommit" => cur = Input
  /\ jpc \in Promoting /\ cur = Input => claim = "claimed"
  /\ jpc \in {"revoke", "detached"} => claim = "claimed"
  /\ jpc \in {"copied", "renamed", "verify", "commit", "recommit"} => jobdir # "none"
  /\ jpc = "renamed" => bundle[cur].now = "whole"
  /\ jpc \in {"verify", "commit"} => bundle[cur] = Store!Entry("whole")
  /\ jpc = "recommit" => bundle[Input].now = "whole"

\* A claimed input has no job yet.
ClaimedUnreferenced == claim = "claimed" => Input \notin refs

\* What is under a public name, or may be after a power loss, was flushed before
\* the rename.
BundlesFlushed == \A a \in Store!Attempts : bundle[a].disk \subseteq {"none", "whole"}

\* An input that an import could recover is settled, except before a start has had
\* the chance to revoke it.
InputSettled ==
  claim = "claimed" /\ bundle[Input].now = "whole" =>
    \/ "job" \in unsynced \/ bundle[Input] = Store!Entry("whole")
    \/ jpc = "down" \/ (jpc = "revoke" /\ cur = Store!NoAttempt) \/ (jpc = "renamed" /\ cur = Input)

\* The job's directory is durable before anything in it is referenced.
JobDirSettled ==
  /\ jobdir = "none" => \A a \in Store!Attempts : bundle[a].now = "none"
  /\ "job" \in unsynced \/ (jobdir = "made" => jpc = "mkdir")
  /\ "job" \in unsynced \/ refs = {} \/ jobdir = "durable"

\* No version of job.json that may be found shows what is not committed.
DocsCommitted == \A d \in doc.disk : d.at # "torn" /\ d.shows \subseteq refs

StoreJobInv ==
  /\ StoreThreadAt /\ ClaimedUnreferenced /\ BundlesFlushed /\ InputSettled /\ JobDirSettled
  /\ DocsCommitted /\ Store!ReferencedWhole

\* Where the event loop is in publish_artifacts.
ExporterAt ==
  /\ xpc # "idle" => xcur \in WorkerAttempts
  /\ xpc \in {"open", "mkdir"} => export[xcur].now = "none"
  /\ xpc = "unlink" => export[xcur].now = "linked"
  /\ xpc = "sync" => export[xcur].now = "whole"
  /\ xpc \in {"unlink", "sync"} => exportdir # "none"

ExportsFlushed == \A a \in WorkerAttempts : export[a].disk \subseteq {"none", "linked", "whole"}

\* An export that would be answered with is settled, or about to be.
ExportsSettled ==
  "export" \in unsynced \/
  \A a \in WorkerAttempts : export[a].now = "whole" =>
    export[a] = Store!Entry("whole") \/ (xpc = "sync" /\ xcur = a)

ExportDirSettled ==
  /\ exportdir = "none" => \A a \in WorkerAttempts : export[a].now = "none"
  /\ "export" \in unsynced \/ (exportdir = "made" => xpc = "mkdir")
  /\ "export" \in unsynced \/ published = {} \/ exportdir = "durable"

ExportInv == ExporterAt /\ ExportsFlushed /\ ExportsSettled /\ ExportDirSettled /\ Store!ExportKept

-----------------------------------------------------------------------------
(***************************************************************************)
(* Entries of a directory.                                                 *)
(***************************************************************************)
LEMMA EntryTypes ==
  ASSUME NEW S, NEW v \in S, NEW e \in Store!EntryOf(S)
  PROVE  Store!Entry(v) \in Store!EntryOf(S) /\ Store!Set(e, v) \in Store!EntryOf(S) /\
    Store!Synced(e) \in Store!EntryOf(S)
BY DEF Store!Entry, Store!Set, Store!Synced, Store!EntryOf

\* Writing or flushing what is settled already changes nothing.
LEMMA SettledStays ==
  ASSUME NEW S, NEW e \in Store!EntryOf(S), NEW v
  PROVE  /\ e = Store!Entry(v) => Store!Set(e, v) = Store!Entry(v) /\ Store!Synced(e) = Store!Entry(v)
         /\ e.now = v => Store!Synced(e) = Store!Entry(v)
BY DEF Store!Entry, Store!Set, Store!Synced, Store!EntryOf

LEMMA StoreStartKeeps ==
  ASSUME StoreDistinct, StoreBounds, Store!TypeOK, StoreJobInv, Store!Start
  PROVE  Store!TypeOK' /\ StoreJobInv'
<1>1. Store!TypeOK'
  BY DEF Store!TypeOK, Store!Start, Store!Readable, Store!database, Store!jobFiles, Store!exporter
<1>2. StoreThreadAt'
  BY DEF StoreThreadAt, StoreJobInv, Store!Start, Store!Readable, Store!database, Store!jobFiles,
    Store!exporter, Store!TypeOK, Promoting
<1>3. InputSettled'
  BY DEF InputSettled, StoreJobInv, Store!Start, Store!Readable, Store!database, Store!jobFiles,
    Store!exporter, StoreThreadAt, ClaimedUnreferenced, BundlesFlushed, JobDirSettled, DocsCommitted,
    Store!ReferencedWhole, Store!TypeOK, Promoting, Store!EntryOf, Store!Entry, Store!Attempts,
    StoreDistinct
<1>4. ClaimedUnreferenced' /\ BundlesFlushed' /\ JobDirSettled' /\ DocsCommitted' /\
  Store!ReferencedWhole'
  BY DEF ClaimedUnreferenced, BundlesFlushed, JobDirSettled, DocsCommitted, Store!ReferencedWhole,
    StoreJobInv, Store!Start, Store!Readable, Store!database, Store!jobFiles, Store!exporter
<1> QED
  BY <1>1, <1>2, <1>3, <1>4 DEF StoreJobInv

LEMMA RevokeDetachesKeeps ==
  ASSUME StoreDistinct, StoreBounds, Store!TypeOK, StoreJobInv, Store!RevokeDetaches
  PROVE  Store!TypeOK' /\ StoreJobInv'
<1>1. Store!TypeOK'
  BY DEF Store!TypeOK, StoreJobInv, StoreThreadAt, Store!RevokeDetaches, Store!JobGoes,
    Store!database, Store!exporter, Store!Set, Store!EntryOf, Store!FileStates
<1>2. StoreThreadAt'
  BY DEF StoreThreadAt, StoreJobInv, Store!RevokeDetaches, Store!JobGoes, Store!database,
    Store!exporter, Store!TypeOK, Store!Set, Promoting
<1>3. BundlesFlushed'
  BY DEF BundlesFlushed, StoreJobInv, Store!RevokeDetaches, Store!JobGoes, Store!database,
    Store!exporter, Store!TypeOK, Store!Set
<1>4. InputSettled'
  BY DEF InputSettled, StoreJobInv, Store!RevokeDetaches, Store!JobGoes, Store!database,
    Store!exporter, Store!TypeOK, StoreThreadAt, Promoting, Store!EntryOf, Store!Entry,
    Store!Attempts, StoreDistinct, Store!Set
<1>5. JobDirSettled'
  BY DEF JobDirSettled, StoreJobInv, Store!RevokeDetaches, Store!JobGoes, Store!database,
    Store!exporter, Store!TypeOK, Store!Set
<1>6. Store!ReferencedWhole'
  BY DEF Store!ReferencedWhole, StoreJobInv, Store!RevokeDetaches, Store!JobGoes, Store!database,
    Store!exporter, StoreThreadAt, ClaimedUnreferenced, BundlesFlushed, InputSettled, JobDirSettled,
    DocsCommitted, Store!TypeOK, Promoting, Store!EntryOf, Store!Entry, Store!Attempts,
    StoreDistinct, Store!Set
<1>7. ClaimedUnreferenced' /\ DocsCommitted'
  BY DEF ClaimedUnreferenced, DocsCommitted, StoreJobInv, Store!RevokeDetaches, Store!JobGoes,
    Store!database, Store!exporter
<1> QED
  BY <1>1, <1>2, <1>3, <1>4, <1>5, <1>6, <1>7 DEF StoreJobInv

LEMMA RevokeSyncsKeeps ==
  ASSUME StoreDistinct, StoreBounds, Store!TypeOK, StoreJobInv, Store!RevokeSyncs
  PROVE  Store!TypeOK' /\ StoreJobInv'
<1>1. Store!TypeOK'
  BY ZenonT(60) DEF Store!TypeOK, StoreJobInv, StoreThreadAt, Store!RevokeSyncs, Store!JobRests, Store!database,
    Store!exporter, Store!Entry, Store!Synced, Store!EntryOf, Store!FileStates
<1>2. StoreThreadAt'
  BY DEF StoreThreadAt, StoreJobInv, Store!RevokeSyncs, Store!JobRests, Store!database,
    Store!exporter, Store!TypeOK, Store!Entry, Store!Synced, Promoting
<1>3. BundlesFlushed'
  BY DEF BundlesFlushed, StoreJobInv, Store!RevokeSyncs, Store!JobRests, Store!database,
    Store!exporter, Store!TypeOK, Store!Entry, Store!Synced
<1>4. InputSettled'
  BY ZenonT(40) DEF InputSettled, StoreJobInv, Store!RevokeSyncs, Store!JobRests, Store!database,
    Store!exporter, Store!TypeOK, Store!Entry, Store!Synced
<1>5. JobDirSettled'
  BY DEF JobDirSettled, StoreJobInv, Store!RevokeSyncs, Store!JobRests, Store!database,
    Store!exporter, Store!TypeOK, Store!Entry, Store!Synced
<1>6. Store!ReferencedWhole'
  BY DEF Store!ReferencedWhole, StoreJobInv, Store!RevokeSyncs, Store!JobRests, Store!database,
    Store!exporter, StoreThreadAt, Promoting, Store!Entry, Store!Synced
<1>7. ClaimedUnreferenced' /\ DocsCommitted'
  BY DEF ClaimedUnreferenced, DocsCommitted, StoreJobInv, Store!RevokeSyncs, Store!JobRests,
    Store!database, Store!exporter
<1> QED
  BY <1>1, <1>2, <1>3, <1>4, <1>5, <1>6, <1>7 DEF StoreJobInv

LEMMA RevokeFailsKeeps ==
  ASSUME StoreDistinct, StoreBounds, Store!TypeOK, StoreJobInv, Store!RevokeFails
  PROVE  Store!TypeOK' /\ StoreJobInv'
<1>1. Store!TypeOK'
  BY DEF Store!TypeOK, StoreJobInv, StoreThreadAt, Store!RevokeFails, Store!Fault, Store!JobGoes,
    Store!JobRests, Store!database, Store!jobFiles, Store!exporter, StoreBounds
<1>2. StoreThreadAt'
  BY DEF StoreThreadAt, StoreJobInv, Store!RevokeFails, Store!Fault, Store!JobGoes, Store!JobRests,
    Store!database, Store!jobFiles, Store!exporter, Store!TypeOK, Promoting
<1>3. ClaimedUnreferenced' /\ BundlesFlushed' /\ InputSettled' /\ JobDirSettled' /\ DocsCommitted' /\
  Store!ReferencedWhole'
  BY DEF ClaimedUnreferenced, BundlesFlushed, InputSettled, JobDirSettled, DocsCommitted,
    Store!ReferencedWhole, StoreJobInv, Store!RevokeFails, Store!Fault, Store!JobGoes,
    Store!JobRests, Store!database, Store!jobFiles, Store!exporter
<1> QED
  BY <1>1, <1>2, <1>3 DEF StoreJobInv

LEMMA ImportRecoversKeeps ==
  ASSUME StoreDistinct, StoreBounds, Store!TypeOK, StoreJobInv, Store!ImportRecovers
  PROVE  Store!TypeOK' /\ StoreJobInv'
<1>1. Store!TypeOK'
  BY DEF Store!TypeOK, StoreJobInv, StoreThreadAt, Store!ImportRecovers, Store!Readable,
    Store!database, Store!jobFiles, Store!exporter, Store!EntryOf, Store!FileStates, Store!Attempts
<1>2. StoreThreadAt'
  BY DEF StoreThreadAt, StoreJobInv, Store!ImportRecovers, Store!Readable, Store!database,
    Store!jobFiles, Store!exporter, ClaimedUnreferenced, BundlesFlushed, InputSettled, JobDirSettled,
    DocsCommitted, Store!ReferencedWhole, Store!TypeOK, Promoting, Store!EntryOf, Store!Entry,
    Store!Attempts, StoreDistinct
<1>3. ClaimedUnreferenced' /\ BundlesFlushed' /\ InputSettled' /\ JobDirSettled' /\ DocsCommitted' /\
  Store!ReferencedWhole'
  BY DEF ClaimedUnreferenced, BundlesFlushed, InputSettled, JobDirSettled, DocsCommitted,
    Store!ReferencedWhole, StoreJobInv, Store!ImportRecovers, Store!Readable, Store!database,
    Store!jobFiles, Store!exporter
<1> QED
  BY <1>1, <1>2, <1>3 DEF StoreJobInv

LEMMA ImportStagesKeeps ==
  ASSUME StoreDistinct, StoreBounds, Store!TypeOK, StoreJobInv, Store!ImportStages
  PROVE  Store!TypeOK' /\ StoreJobInv'
<1>1. Store!TypeOK'
  BY DEF Store!TypeOK, StoreJobInv, StoreThreadAt, Store!ImportStages, Store!database,
    Store!jobFiles, Store!exporter, Store!EntryOf, Store!FileStates, Store!Attempts
<1>2. StoreThreadAt'
  BY DEF StoreThreadAt, StoreJobInv, Store!ImportStages, Store!database, Store!jobFiles,
    Store!exporter, Store!TypeOK, Promoting, Store!EntryOf, Store!Entry, Store!Attempts,
    StoreDistinct
<1>3. ClaimedUnreferenced' /\ BundlesFlushed' /\ InputSettled' /\ JobDirSettled' /\ DocsCommitted' /\
  Store!ReferencedWhole'
  BY DEF ClaimedUnreferenced, BundlesFlushed, InputSettled, JobDirSettled, DocsCommitted,
    Store!ReferencedWhole, StoreJobInv, Store!ImportStages, Store!database, Store!jobFiles,
    Store!exporter
<1> QED
  BY <1>1, <1>2, <1>3 DEF StoreJobInv

LEMMA CreateStagingKeeps ==
  ASSUME StoreDistinct, StoreBounds, Store!TypeOK, StoreJobInv, NEW a \in WorkerAttempts,
    Store!CreateStaging(a)
  PROVE  Store!TypeOK' /\ StoreJobInv'
<1>1. Store!TypeOK'
  BY DEF Store!TypeOK, StoreJobInv, StoreThreadAt, Store!CreateStaging, Store!database,
    Store!jobFiles, Store!exporter, Store!EntryOf, Store!FileStates, Store!Attempts
<1>2. StoreThreadAt'
  BY DEF StoreThreadAt, StoreJobInv, Store!CreateStaging, Store!database, Store!jobFiles,
    Store!exporter, Store!TypeOK, Promoting, Store!EntryOf, Store!Entry, Store!Attempts,
    StoreDistinct
<1>3. ClaimedUnreferenced' /\ BundlesFlushed' /\ InputSettled' /\ JobDirSettled' /\ DocsCommitted' /\
  Store!ReferencedWhole'
  BY DEF ClaimedUnreferenced, BundlesFlushed, InputSettled, JobDirSettled, DocsCommitted,
    Store!ReferencedWhole, StoreJobInv, Store!CreateStaging, Store!database, Store!jobFiles,
    Store!exporter
<1> QED
  BY <1>1, <1>2, <1>3 DEF StoreJobInv

LEMMA WorkerEndsKeeps ==
  ASSUME StoreDistinct, StoreBounds, Store!TypeOK, StoreJobInv, Store!WorkerEnds
  PROVE  Store!TypeOK' /\ StoreJobInv'
<1>1. Store!TypeOK'
  BY DEF Store!TypeOK, Store!WorkerEnds, Store!Staging, Store!JobGoes, Store!database,
    Store!jobFiles, Store!exporter
<1>2. StoreThreadAt' /\ ClaimedUnreferenced' /\ BundlesFlushed' /\ InputSettled' /\ JobDirSettled' /\
  DocsCommitted' /\ Store!ReferencedWhole'
  BY DEF StoreThreadAt, ClaimedUnreferenced, BundlesFlushed, InputSettled, JobDirSettled,
    DocsCommitted, Store!ReferencedWhole, StoreJobInv, Store!WorkerEnds, Store!Staging,
    Store!JobGoes, Store!database, Store!jobFiles, Store!exporter
<1> QED
  BY <1>1, <1>2 DEF StoreJobInv

LEMMA WorkerFailsKeeps ==
  ASSUME StoreDistinct, StoreBounds, Store!TypeOK, StoreJobInv, Store!WorkerFails
  PROVE  Store!TypeOK' /\ StoreJobInv'
<1>1. Store!TypeOK'
  BY DEF Store!TypeOK, Store!WorkerFails, Store!Staging, Store!JobRests, Store!database,
    Store!jobFiles, Store!exporter
<1>2. StoreThreadAt'
  BY DEF StoreThreadAt, StoreJobInv, Store!WorkerFails, Store!Staging, Store!JobRests,
    Store!database, Store!jobFiles, Store!exporter, Store!TypeOK, Promoting
<1>3. ClaimedUnreferenced' /\ BundlesFlushed' /\ InputSettled' /\ JobDirSettled' /\ DocsCommitted' /\
  Store!ReferencedWhole'
  BY DEF ClaimedUnreferenced, BundlesFlushed, InputSettled, JobDirSettled, DocsCommitted,
    Store!ReferencedWhole, StoreJobInv, Store!WorkerFails, Store!Staging, Store!JobRests,
    Store!database, Store!jobFiles, Store!exporter
<1> QED
  BY <1>1, <1>2, <1>3 DEF StoreJobInv

LEMMA PromoteRefusesKeeps ==
  ASSUME StoreDistinct, StoreBounds, Store!TypeOK, StoreJobInv, Store!PromoteRefuses
  PROVE  Store!TypeOK' /\ StoreJobInv'
<1>1. Store!TypeOK'
  BY EntryTypes DEF Store!TypeOK, StoreJobInv, StoreThreadAt, Store!PromoteRefuses, Store!Declared,
    Store!Fault, Store!Staging, Store!JobRests, Store!database, Store!jobFiles, Store!exporter,
    Store!EntryOf, Store!FileStates, Store!Documents, Promoting, Store!Attempts, StoreBounds
<1>2. StoreThreadAt'
  BY DEF StoreThreadAt, StoreJobInv, Store!PromoteRefuses, Store!Declared, Store!Fault,
    Store!Staging, Store!JobRests, Store!database, Store!jobFiles, Store!exporter, Store!TypeOK,
    Promoting
<1>3. ClaimedUnreferenced' /\ BundlesFlushed' /\ InputSettled' /\ JobDirSettled' /\ DocsCommitted' /\
  Store!ReferencedWhole'
  BY DEF ClaimedUnreferenced, BundlesFlushed, InputSettled, JobDirSettled, DocsCommitted,
    Store!ReferencedWhole, StoreJobInv, Store!PromoteRefuses, Store!Declared, Store!Fault,
    Store!Staging, Store!JobRests, Store!database, Store!jobFiles, Store!exporter
<1> QED
  BY <1>1, <1>2, <1>3 DEF StoreJobInv

LEMMA PromoteFailsKeeps ==
  ASSUME StoreDistinct, StoreBounds, Store!TypeOK, StoreJobInv, Store!PromoteFails
  PROVE  Store!TypeOK' /\ StoreJobInv'
<1>1. Store!TypeOK'
  BY EntryTypes DEF Store!TypeOK, StoreJobInv, StoreThreadAt, Store!PromoteFails, Store!Fault,
    Store!Staging, Store!Left, Store!JobRests, Store!database, Store!jobFiles, Store!exporter,
    Store!EntryOf, Store!FileStates, Store!Documents, Promoting, Store!Attempts, StoreBounds
<1>2. StoreThreadAt'
  BY DEF StoreThreadAt, StoreJobInv, Store!PromoteFails, Store!Fault, Store!Staging, Store!Left,
    Store!JobRests, Store!database, Store!jobFiles, Store!exporter, Store!TypeOK, Promoting
<1>3. ClaimedUnreferenced' /\ BundlesFlushed' /\ InputSettled' /\ JobDirSettled' /\ DocsCommitted' /\
  Store!ReferencedWhole'
  BY DEF ClaimedUnreferenced, BundlesFlushed, InputSettled, JobDirSettled, DocsCommitted,
    Store!ReferencedWhole, StoreJobInv, Store!PromoteFails, Store!Fault, Store!Staging, Store!Left,
    Store!JobRests, Store!database, Store!jobFiles, Store!exporter
<1> QED
  BY <1>1, <1>2, <1>3 DEF StoreJobInv

LEMMA PromoteMakesDirectoryKeeps ==
  ASSUME StoreDistinct, StoreBounds, Store!TypeOK, StoreJobInv, Store!PromoteMakesDirectory
  PROVE  Store!TypeOK' /\ StoreJobInv'
<1>1. Store!TypeOK'
  BY DEF Store!TypeOK, Store!PromoteMakesDirectory, Store!JobGoes, Store!database, Store!exporter
<1>2. StoreThreadAt'
  BY DEF StoreThreadAt, StoreJobInv, Store!PromoteMakesDirectory, Store!JobGoes, Store!database,
    Store!exporter, Store!TypeOK, Promoting
<1>3. ClaimedUnreferenced' /\ BundlesFlushed' /\ InputSettled' /\ JobDirSettled' /\ DocsCommitted' /\
  Store!ReferencedWhole'
  BY DEF ClaimedUnreferenced, BundlesFlushed, InputSettled, JobDirSettled, DocsCommitted,
    Store!ReferencedWhole, StoreJobInv, Store!PromoteMakesDirectory, Store!JobGoes, Store!database,
    Store!exporter
<1> QED
  BY <1>1, <1>2, <1>3 DEF StoreJobInv

LEMMA PromoteSyncsDirectoryKeeps ==
  ASSUME StoreDistinct, StoreBounds, Store!TypeOK, StoreJobInv, Store!PromoteSyncsDirectory
  PROVE  Store!TypeOK' /\ StoreJobInv'
<1>1. Store!TypeOK'
  BY DEF Store!TypeOK, Store!PromoteSyncsDirectory, Store!JobGoes, Store!database, Store!exporter
<1>2. StoreThreadAt'
  BY DEF StoreThreadAt, StoreJobInv, Store!PromoteSyncsDirectory, Store!JobGoes, Store!database,
    Store!exporter, Store!TypeOK, Promoting
<1>3. ClaimedUnreferenced' /\ BundlesFlushed' /\ InputSettled' /\ JobDirSettled' /\ DocsCommitted' /\
  Store!ReferencedWhole'
  BY DEF ClaimedUnreferenced, BundlesFlushed, InputSettled, JobDirSettled, DocsCommitted,
    Store!ReferencedWhole, StoreJobInv, Store!PromoteSyncsDirectory, Store!JobGoes, Store!database,
    Store!exporter
<1> QED
  BY <1>1, <1>2, <1>3 DEF StoreJobInv

LEMMA PromoteCopiesKeeps ==
  ASSUME StoreDistinct, StoreBounds, Store!TypeOK, StoreJobInv, Store!PromoteCopies
  PROVE  Store!TypeOK' /\ StoreJobInv'
<1>1. Store!TypeOK'
  BY DEF Store!TypeOK, Store!PromoteCopies, Store!Declared, Store!JobGoes, Store!database,
    Store!jobFiles, Store!exporter
<1>2. StoreThreadAt'
  BY DEF StoreThreadAt, StoreJobInv, Store!PromoteCopies, Store!Declared, Store!JobGoes,
    Store!database, Store!jobFiles, Store!exporter, Store!TypeOK, Promoting
<1>3. ClaimedUnreferenced' /\ BundlesFlushed' /\ InputSettled' /\ JobDirSettled' /\ DocsCommitted' /\
  Store!ReferencedWhole'
  BY DEF ClaimedUnreferenced, BundlesFlushed, InputSettled, JobDirSettled, DocsCommitted,
    Store!ReferencedWhole, StoreJobInv, Store!PromoteCopies, Store!Declared, Store!JobGoes,
    Store!database, Store!jobFiles, Store!exporter
<1> QED
  BY <1>1, <1>2, <1>3 DEF StoreJobInv

LEMMA PromoteRenamesKeeps ==
  ASSUME StoreDistinct, StoreBounds, Store!TypeOK, StoreJobInv, Store!PromoteRenames
  PROVE  Store!TypeOK' /\ StoreJobInv'
<1>1. Store!TypeOK'
  BY ZenonT(40) DEF Store!TypeOK, StoreJobInv, StoreThreadAt, Store!PromoteRenames, Store!CopiedFile,
    Store!JobGoes, Store!database, Store!exporter, Store!Set, Store!EntryOf, Store!FileStates
<1>2. StoreThreadAt'
  BY DEF StoreThreadAt, StoreJobInv, Store!PromoteRenames, Store!CopiedFile, Store!JobGoes,
    Store!database, Store!exporter, Store!TypeOK, Store!Set, Promoting
<1>3. BundlesFlushed'
  BY DEF BundlesFlushed, StoreJobInv, Store!PromoteRenames, Store!CopiedFile, Store!JobGoes,
    Store!database, Store!exporter, Store!TypeOK, Store!Set
<1>4. JobDirSettled'
  BY DEF JobDirSettled, StoreJobInv, Store!PromoteRenames, Store!CopiedFile, Store!JobGoes,
    Store!database, Store!exporter, StoreThreadAt, Promoting, Store!Set
<1>5. Store!ReferencedWhole'
  <2>1. cur \in Store!Attempts
    BY DEF StoreJobInv, StoreThreadAt, Promoting, Store!PromoteRenames
  <2>2. ASSUME "job" \notin unsynced, NEW a \in refs PROVE bundle'[a] = Store!Entry("whole")
    <3>1. bundle[a] = Store!Entry("whole") /\ a \in Store!Attempts /\ bundle[a] \in
      Store!EntryOf(Store!FileStates)
      BY <2>2 DEF StoreJobInv, Store!ReferencedWhole, Store!TypeOK
    <3>2. bundle'[a] = IF a = cur THEN Store!Set(bundle[a], "whole") ELSE bundle[a]
      BY <2>1, <3>1 DEF Store!PromoteRenames, Store!CopiedFile, Store!TypeOK
    <3> QED
      BY <3>1, <3>2, SettledStays
  <2> QED
    BY <2>2 DEF Store!ReferencedWhole, Store!PromoteRenames, Store!database
<1>6. ClaimedUnreferenced' /\ InputSettled' /\ DocsCommitted'
  BY DEF ClaimedUnreferenced, InputSettled, DocsCommitted, StoreJobInv, Store!PromoteRenames,
    Store!CopiedFile, Store!JobGoes, Store!database, Store!exporter
<1> QED
  BY <1>1, <1>2, <1>3, <1>4, <1>5, <1>6 DEF StoreJobInv

LEMMA RenameFailsKeeps ==
  ASSUME StoreDistinct, StoreBounds, Store!TypeOK, StoreJobInv, Store!RenameFails
  PROVE  Store!TypeOK' /\ StoreJobInv'
<1>1. Store!TypeOK'
  BY EntryTypes DEF Store!TypeOK, StoreJobInv, StoreThreadAt, Store!RenameFails, Store!Fault,
    Store!Staging, Store!Left, Store!JobRests, Store!database, Store!jobFiles, Store!exporter,
    Store!EntryOf, Store!FileStates, Store!Documents, Promoting, Store!Attempts, StoreBounds
<1>2. StoreThreadAt'
  BY DEF StoreThreadAt, StoreJobInv, Store!RenameFails, Store!Fault, Store!Staging, Store!Left,
    Store!JobRests, Store!database, Store!jobFiles, Store!exporter, Store!TypeOK, Promoting
<1>3. ClaimedUnreferenced' /\ BundlesFlushed' /\ InputSettled' /\ JobDirSettled' /\ DocsCommitted' /\
  Store!ReferencedWhole'
  BY DEF ClaimedUnreferenced, BundlesFlushed, InputSettled, JobDirSettled, DocsCommitted,
    Store!ReferencedWhole, StoreJobInv, Store!RenameFails, Store!Fault, Store!Staging, Store!Left,
    Store!JobRests, Store!database, Store!jobFiles, Store!exporter
<1> QED
  BY <1>1, <1>2, <1>3 DEF StoreJobInv

LEMMA PromoteSyncsKeeps ==
  ASSUME StoreDistinct, StoreBounds, Store!TypeOK, StoreJobInv, Store!PromoteSyncs
  PROVE  Store!TypeOK' /\ StoreJobInv'
<1>1. Store!TypeOK'
  BY DEF Store!TypeOK, StoreJobInv, StoreThreadAt, Store!PromoteSyncs, Store!JobGoes, Store!database,
    Store!exporter, Store!Entry, Store!Synced, Store!EntryOf, Store!FileStates
<1>2. StoreThreadAt'
  BY DEF StoreThreadAt, StoreJobInv, Store!PromoteSyncs, Store!JobGoes, Store!database,
    Store!exporter, Store!TypeOK, Store!Entry, Store!Synced, Promoting
<1>3. BundlesFlushed'
  BY DEF BundlesFlushed, StoreJobInv, Store!PromoteSyncs, Store!JobGoes, Store!database,
    Store!exporter, Store!TypeOK, Store!Entry, Store!Synced
<1>4. InputSettled'
  BY DEF InputSettled, StoreJobInv, Store!PromoteSyncs, Store!JobGoes, Store!database,
    Store!exporter, Store!TypeOK, StoreThreadAt, Promoting, Store!EntryOf, Store!Entry,
    Store!Attempts, StoreDistinct, Store!Synced
<1>5. JobDirSettled'
  BY DEF JobDirSettled, StoreJobInv, Store!PromoteSyncs, Store!JobGoes, Store!database,
    Store!exporter, Store!TypeOK, Store!Entry, Store!Synced
<1>6. Store!ReferencedWhole'
  BY DEF Store!ReferencedWhole, StoreJobInv, Store!PromoteSyncs, Store!JobGoes, Store!database,
    Store!exporter, StoreThreadAt, Promoting, Store!Entry, Store!Synced
<1>7. ClaimedUnreferenced' /\ DocsCommitted'
  BY DEF ClaimedUnreferenced, DocsCommitted, StoreJobInv, Store!PromoteSyncs, Store!JobGoes,
    Store!database, Store!exporter
<1> QED
  BY <1>1, <1>2, <1>3, <1>4, <1>5, <1>6, <1>7 DEF StoreJobInv

LEMMA PromoteEndsKeeps ==
  ASSUME StoreDistinct, StoreBounds, Store!TypeOK, StoreJobInv, Store!PromoteEnds
  PROVE  Store!TypeOK' /\ StoreJobInv'
<1>1. Store!TypeOK'
  BY DEF Store!TypeOK, Store!PromoteEnds, Store!Staging, Store!JobGoes, Store!database,
    Store!jobFiles, Store!exporter
<1>2. StoreThreadAt'
  BY DEF StoreThreadAt, StoreJobInv, Store!PromoteEnds, Store!Staging, Store!JobGoes, Store!database,
    Store!jobFiles, Store!exporter, Store!TypeOK, Promoting
<1>3. ClaimedUnreferenced' /\ BundlesFlushed' /\ InputSettled' /\ JobDirSettled' /\ DocsCommitted' /\
  Store!ReferencedWhole'
  BY DEF ClaimedUnreferenced, BundlesFlushed, InputSettled, JobDirSettled, DocsCommitted,
    Store!ReferencedWhole, StoreJobInv, Store!PromoteEnds, Store!Staging, Store!JobGoes,
    Store!database, Store!jobFiles, Store!exporter
<1> QED
  BY <1>1, <1>2, <1>3 DEF StoreJobInv

LEMMA VerifyFailsKeeps ==
  ASSUME StoreDistinct, StoreBounds, Store!TypeOK, StoreJobInv, Store!VerifyFails
  PROVE  Store!TypeOK' /\ StoreJobInv'
<1>1. Store!TypeOK'
  BY EntryTypes DEF Store!TypeOK, StoreJobInv, StoreThreadAt, Store!VerifyFails, Store!Fault,
    Store!Staging, Store!Left, Store!JobRests, Store!database, Store!jobFiles, Store!exporter,
    Store!EntryOf, Store!FileStates, Store!Documents, Promoting, Store!Attempts, StoreBounds
<1>2. StoreThreadAt'
  BY DEF StoreThreadAt, StoreJobInv, Store!VerifyFails, Store!Fault, Store!Staging, Store!Left,
    Store!JobRests, Store!database, Store!jobFiles, Store!exporter, Store!TypeOK, Promoting
<1>3. ClaimedUnreferenced' /\ BundlesFlushed' /\ InputSettled' /\ JobDirSettled' /\ DocsCommitted' /\
  Store!ReferencedWhole'
  BY DEF ClaimedUnreferenced, BundlesFlushed, InputSettled, JobDirSettled, DocsCommitted,
    Store!ReferencedWhole, StoreJobInv, Store!VerifyFails, Store!Fault, Store!Staging, Store!Left,
    Store!JobRests, Store!database, Store!jobFiles, Store!exporter
<1> QED
  BY <1>1, <1>2, <1>3 DEF StoreJobInv

LEMMA CommitKeeps ==
  ASSUME StoreDistinct, StoreBounds, Store!TypeOK, StoreJobInv, Store!Commit
  PROVE  Store!TypeOK' /\ StoreJobInv'
<1>1. Store!TypeOK'
  BY EntryTypes DEF Store!TypeOK, StoreJobInv, StoreThreadAt, Store!Commit, Store!JobGoes,
    Store!jobFiles, Store!exporter, Store!EntryOf, Store!FileStates, Store!Documents, Promoting,
    Store!Attempts, StoreBounds
<1>2. StoreThreadAt'
  BY DEF StoreThreadAt, StoreJobInv, Store!Commit, Store!JobGoes, Store!jobFiles, Store!exporter,
    Store!TypeOK, Promoting
<1>3. JobDirSettled'
  BY DEF JobDirSettled, StoreJobInv, Store!Commit, Store!JobGoes, Store!jobFiles, Store!exporter,
    Store!TypeOK, StoreThreadAt, Promoting, Store!EntryOf
<1>4. Store!ReferencedWhole'
  BY DEF Store!ReferencedWhole, StoreJobInv, Store!Commit, Store!JobGoes, Store!jobFiles,
    Store!exporter, StoreThreadAt, ClaimedUnreferenced, BundlesFlushed, InputSettled, JobDirSettled,
    DocsCommitted, Store!TypeOK, Promoting, Store!EntryOf, Store!Entry, Store!Attempts, StoreDistinct
<1>5. ClaimedUnreferenced' /\ BundlesFlushed' /\ InputSettled' /\ DocsCommitted'
  BY DEF ClaimedUnreferenced, BundlesFlushed, InputSettled, DocsCommitted, StoreJobInv, Store!Commit,
    Store!JobGoes, Store!jobFiles, Store!exporter
<1> QED
  BY <1>1, <1>2, <1>3, <1>4, <1>5 DEF StoreJobInv

LEMMA CommitFailsKeeps ==
  ASSUME StoreDistinct, StoreBounds, Store!TypeOK, StoreJobInv, Store!CommitFails
  PROVE  Store!TypeOK' /\ StoreJobInv'
<1>1. Store!TypeOK'
  BY DEF Store!TypeOK, StoreJobInv, StoreThreadAt, Store!CommitFails, Store!Fault, Store!JobGoes,
    Store!JobRests, Store!database, Store!jobFiles, Store!exporter, StoreBounds
<1>2. StoreThreadAt'
  BY DEF StoreThreadAt, StoreJobInv, Store!CommitFails, Store!Fault, Store!JobGoes, Store!JobRests,
    Store!database, Store!jobFiles, Store!exporter, Store!TypeOK, Promoting
<1>3. ClaimedUnreferenced' /\ BundlesFlushed' /\ InputSettled' /\ JobDirSettled' /\ DocsCommitted' /\
  Store!ReferencedWhole'
  BY DEF ClaimedUnreferenced, BundlesFlushed, InputSettled, JobDirSettled, DocsCommitted,
    Store!ReferencedWhole, StoreJobInv, Store!CommitFails, Store!Fault, Store!JobGoes,
    Store!JobRests, Store!database, Store!jobFiles, Store!exporter
<1> QED
  BY <1>1, <1>2, <1>3 DEF StoreJobInv

LEMMA ProjectionReplacesKeeps ==
  ASSUME StoreDistinct, StoreBounds, Store!TypeOK, StoreJobInv, Store!ProjectionReplaces
  PROVE  Store!TypeOK' /\ StoreJobInv'
<1>1. Store!TypeOK'
  BY EntryTypes DEF Store!TypeOK, StoreJobInv, StoreThreadAt, Store!ProjectionReplaces,
    Store!JobGoes, Store!database, Store!exporter, Store!Set, Store!EntryOf, Store!Documents
<1>2. StoreThreadAt'
  BY DEF StoreThreadAt, StoreJobInv, Store!ProjectionReplaces, Store!JobGoes, Store!database,
    Store!exporter, Store!TypeOK, Store!Set, Promoting
<1>3. DocsCommitted'
  BY DEF DocsCommitted, StoreJobInv, Store!ProjectionReplaces, Store!JobGoes, Store!database,
    Store!exporter, Store!TypeOK, Store!Set
<1>4. ClaimedUnreferenced' /\ BundlesFlushed' /\ InputSettled' /\ JobDirSettled' /\
  Store!ReferencedWhole'
  BY DEF ClaimedUnreferenced, BundlesFlushed, InputSettled, JobDirSettled, Store!ReferencedWhole,
    StoreJobInv, Store!ProjectionReplaces, Store!JobGoes, Store!database, Store!exporter
<1> QED
  BY <1>1, <1>2, <1>3, <1>4 DEF StoreJobInv

LEMMA ProjectionSyncsKeeps ==
  ASSUME StoreDistinct, StoreBounds, Store!TypeOK, StoreJobInv, Store!ProjectionSyncs
  PROVE  Store!TypeOK' /\ StoreJobInv'
<1>1. Store!TypeOK'
  BY DEF Store!TypeOK, StoreJobInv, StoreThreadAt, Store!ProjectionSyncs, Store!JobRests,
    Store!database, Store!exporter, Store!Entry, Store!Synced, Store!EntryOf, Store!FileStates
<1>2. StoreThreadAt'
  BY DEF StoreThreadAt, StoreJobInv, Store!ProjectionSyncs, Store!JobRests, Store!database,
    Store!exporter, Store!TypeOK, Store!Entry, Store!Synced, Promoting
<1>3. DocsCommitted'
  BY DEF DocsCommitted, StoreJobInv, Store!ProjectionSyncs, Store!JobRests, Store!database,
    Store!exporter, Store!TypeOK, Store!Entry, Store!Synced
<1>4. ClaimedUnreferenced' /\ BundlesFlushed' /\ InputSettled' /\ JobDirSettled' /\
  Store!ReferencedWhole'
  BY DEF ClaimedUnreferenced, BundlesFlushed, InputSettled, JobDirSettled, Store!ReferencedWhole,
    StoreJobInv, Store!ProjectionSyncs, Store!JobRests, Store!database, Store!exporter
<1> QED
  BY <1>1, <1>2, <1>3, <1>4 DEF StoreJobInv

LEMMA ProjectionFailsKeeps ==
  ASSUME StoreDistinct, StoreBounds, Store!TypeOK, StoreJobInv, Store!ProjectionFails
  PROVE  Store!TypeOK' /\ StoreJobInv'
<1>1. Store!TypeOK'
  BY DEF Store!TypeOK, StoreJobInv, StoreThreadAt, Store!ProjectionFails, Store!Fault,
    Store!JobRests, Store!database, Store!jobFiles, Store!exporter, StoreBounds
<1>2. StoreThreadAt'
  BY DEF StoreThreadAt, StoreJobInv, Store!ProjectionFails, Store!Fault, Store!JobRests,
    Store!database, Store!jobFiles, Store!exporter, Store!TypeOK, Promoting
<1>3. ClaimedUnreferenced' /\ BundlesFlushed' /\ InputSettled' /\ JobDirSettled' /\ DocsCommitted' /\
  Store!ReferencedWhole'
  BY DEF ClaimedUnreferenced, BundlesFlushed, InputSettled, JobDirSettled, DocsCommitted,
    Store!ReferencedWhole, StoreJobInv, Store!ProjectionFails, Store!Fault, Store!JobRests,
    Store!database, Store!jobFiles, Store!exporter
<1> QED
  BY <1>1, <1>2, <1>3 DEF StoreJobInv

LEMMA StatusAnswersKeeps ==
  ASSUME StoreDistinct, StoreBounds, Store!TypeOK, ExportInv, NEW a \in WorkerAttempts,
    Store!StatusAnswers(a)
  PROVE  Store!TypeOK' /\ ExportInv'
<1>1. Store!TypeOK'
  BY DEF Store!TypeOK, Store!StatusAnswers, Store!jobThread, Store!database, Store!jobFiles
<1>2. ExportDirSettled'
  BY DEF ExportDirSettled, ExportInv, Store!StatusAnswers, Store!jobThread, Store!database,
    Store!jobFiles, Store!TypeOK
<1>3. Store!ExportKept'
  BY DEF Store!ExportKept, ExportInv, Store!StatusAnswers, Store!jobThread, Store!database,
    Store!jobFiles, ExporterAt, ExportsFlushed, ExportsSettled, ExportDirSettled, Store!TypeOK,
    Store!EntryOf, Store!Entry, Store!Attempts, StoreDistinct
<1>4. ExporterAt' /\ ExportsFlushed' /\ ExportsSettled'
  BY DEF ExporterAt, ExportsFlushed, ExportsSettled, ExportInv, Store!StatusAnswers, Store!jobThread,
    Store!database, Store!jobFiles
<1> QED
  BY <1>1, <1>2, <1>3, <1>4 DEF ExportInv

LEMMA StatusExportsKeeps ==
  ASSUME StoreDistinct, StoreBounds, Store!TypeOK, ExportInv, NEW a \in WorkerAttempts,
    Store!StatusExports(a)
  PROVE  Store!TypeOK' /\ ExportInv'
<1>1. Store!TypeOK'
  BY DEF Store!TypeOK, Store!StatusExports, Store!Readable, Store!jobThread, Store!database,
    Store!jobFiles
<1>2. ExporterAt' /\ ExportsFlushed' /\ ExportsSettled' /\ ExportDirSettled' /\ Store!ExportKept'
  BY DEF ExporterAt, ExportsFlushed, ExportsSettled, ExportDirSettled, Store!ExportKept, ExportInv,
    Store!StatusExports, Store!Readable, Store!jobThread, Store!database, Store!jobFiles
<1> QED
  BY <1>1, <1>2 DEF ExportInv

LEMMA ExportMakesDirectoryKeeps ==
  ASSUME StoreDistinct, StoreBounds, Store!TypeOK, ExportInv, Store!ExportMakesDirectory
  PROVE  Store!TypeOK' /\ ExportInv'
<1>1. Store!TypeOK'
  BY DEF Store!TypeOK, Store!ExportMakesDirectory, Store!ExportGoes, Store!jobThread, Store!database,
    Store!jobFiles
<1>2. ExporterAt' /\ ExportsFlushed' /\ ExportsSettled' /\ ExportDirSettled' /\ Store!ExportKept'
  BY DEF ExporterAt, ExportsFlushed, ExportsSettled, ExportDirSettled, Store!ExportKept, ExportInv,
    Store!ExportMakesDirectory, Store!ExportGoes, Store!jobThread, Store!database, Store!jobFiles
<1> QED
  BY <1>1, <1>2 DEF ExportInv

LEMMA ExportSyncsDirectoryKeeps ==
  ASSUME StoreDistinct, StoreBounds, Store!TypeOK, ExportInv, Store!ExportSyncsDirectory
  PROVE  Store!TypeOK' /\ ExportInv'
<1>1. Store!TypeOK'
  BY DEF Store!TypeOK, Store!ExportSyncsDirectory, Store!ExportGoes, Store!jobThread, Store!database,
    Store!jobFiles
<1>2. ExporterAt' /\ ExportsFlushed' /\ ExportsSettled' /\ ExportDirSettled' /\ Store!ExportKept'
  BY DEF ExporterAt, ExportsFlushed, ExportsSettled, ExportDirSettled, Store!ExportKept, ExportInv,
    Store!ExportSyncsDirectory, Store!ExportGoes, Store!jobThread, Store!database, Store!jobFiles
<1> QED
  BY <1>1, <1>2 DEF ExportInv

LEMMA ExportLinksKeeps ==
  ASSUME StoreDistinct, StoreBounds, Store!TypeOK, ExportInv, Store!ExportLinks
  PROVE  Store!TypeOK' /\ ExportInv'
<1>1. Store!TypeOK'
  BY DEF Store!TypeOK, ExportInv, ExporterAt, Store!ExportLinks, Store!ExportGoes, Store!jobThread,
    Store!database, Store!jobFiles, Store!Set, Store!EntryOf, Store!FileStates
<1>2. ExporterAt'
  BY DEF ExporterAt, ExportInv, Store!ExportLinks, Store!ExportGoes, Store!jobThread, Store!database,
    Store!jobFiles, Store!TypeOK, Store!Set
<1>3. ExportsFlushed'
  BY DEF ExportsFlushed, ExportInv, Store!ExportLinks, Store!ExportGoes, Store!jobThread,
    Store!database, Store!jobFiles, Store!TypeOK, Store!Set
<1>4. ExportsSettled'
  BY DEF ExportsSettled, ExportInv, Store!ExportLinks, Store!ExportGoes, Store!jobThread,
    Store!database, Store!jobFiles, Store!TypeOK, Store!Set
<1>5. ExportDirSettled'
  BY DEF ExportDirSettled, ExportInv, Store!ExportLinks, Store!ExportGoes, Store!jobThread,
    Store!database, Store!jobFiles
<1>6. Store!ExportKept'
  BY DEF Store!ExportKept, ExportInv, Store!ExportLinks, Store!ExportGoes, Store!jobThread,
    Store!database, Store!jobFiles, Store!TypeOK, ExporterAt, Store!EntryOf, Store!Entry,
    Store!Attempts, StoreDistinct, Store!Set
<1> QED
  BY <1>1, <1>2, <1>3, <1>4, <1>5, <1>6 DEF ExportInv

LEMMA ExportUnlinksKeeps ==
  ASSUME StoreDistinct, StoreBounds, Store!TypeOK, ExportInv, Store!ExportUnlinks
  PROVE  Store!TypeOK' /\ ExportInv'
<1>1. Store!TypeOK'
  BY DEF Store!TypeOK, ExportInv, ExporterAt, Store!ExportUnlinks, Store!ExportGoes, Store!jobThread,
    Store!database, Store!jobFiles, Store!Set, Store!EntryOf, Store!FileStates
<1>2. ExporterAt'
  BY DEF ExporterAt, ExportInv, Store!ExportUnlinks, Store!ExportGoes, Store!jobThread,
    Store!database, Store!jobFiles, Store!TypeOK, Store!Set
<1>3. ExportsFlushed'
  BY DEF ExportsFlushed, ExportInv, Store!ExportUnlinks, Store!ExportGoes, Store!jobThread,
    Store!database, Store!jobFiles, Store!TypeOK, Store!Set
<1>4. ExportsSettled'
  BY DEF ExportsSettled, ExportInv, Store!ExportUnlinks, Store!ExportGoes, Store!jobThread,
    Store!database, Store!jobFiles
<1>5. ExportDirSettled'
  BY DEF ExportDirSettled, ExportInv, Store!ExportUnlinks, Store!ExportGoes, Store!jobThread,
    Store!database, Store!jobFiles, ExporterAt, Store!Set
<1>6. Store!ExportKept'
  BY DEF Store!ExportKept, ExportInv, Store!ExportUnlinks, Store!ExportGoes, Store!jobThread,
    Store!database, Store!jobFiles, Store!TypeOK, ExporterAt, Store!EntryOf, Store!Entry,
    Store!Attempts, StoreDistinct, Store!Set
<1> QED
  BY <1>1, <1>2, <1>3, <1>4, <1>5, <1>6 DEF ExportInv

LEMMA ExportSyncsKeeps ==
  ASSUME StoreDistinct, StoreBounds, Store!TypeOK, ExportInv, Store!ExportSyncs
  PROVE  Store!TypeOK' /\ ExportInv'
<1>1. Store!TypeOK'
  BY DEF Store!TypeOK, ExportInv, ExporterAt, Store!ExportSyncs, Store!ExportRests, Store!jobThread,
    Store!database, Store!jobFiles, Store!Entry, Store!Synced, Store!EntryOf, Store!FileStates
<1>2. ExporterAt'
  BY DEF ExporterAt, ExportInv, Store!ExportSyncs, Store!ExportRests, Store!jobThread,
    Store!database, Store!jobFiles
<1>3. ExportsFlushed'
  BY DEF ExportsFlushed, ExportInv, Store!ExportSyncs, Store!ExportRests, Store!jobThread,
    Store!database, Store!jobFiles, Store!TypeOK, Store!Entry, Store!Synced
<1>4. ExportsSettled'
  BY DEF ExportsSettled, ExportInv, Store!ExportSyncs, Store!ExportRests, Store!jobThread,
    Store!database, Store!jobFiles, Store!TypeOK, Store!Entry, Store!Synced
<1>5. ExportDirSettled'
  BY DEF ExportDirSettled, ExportInv, Store!ExportSyncs, Store!ExportRests, Store!jobThread,
    Store!database, Store!jobFiles, Store!TypeOK, ExporterAt, Store!EntryOf, Store!Entry,
    Store!Synced
<1>6. Store!ExportKept'
  <2>1. xcur \in WorkerAttempts /\ export[xcur].now = "whole" /\ export[xcur] \in
    Store!EntryOf(Store!FileStates)
    BY DEF ExportInv, ExporterAt, Store!ExportSyncs, Store!TypeOK
  <2>2. export'[xcur] = Store!Entry("whole")
    BY <2>1, SettledStays DEF Store!ExportSyncs, Store!TypeOK
  <2>3. \A a \in published : a # xcur => export'[a] = export[a]
    BY DEF Store!ExportSyncs, Store!TypeOK
  <2> QED
    BY <2>2, <2>3 DEF Store!ExportKept, ExportInv, Store!ExportSyncs
<1> QED
  BY <1>1, <1>2, <1>3, <1>4, <1>5, <1>6 DEF ExportInv

LEMMA ExportFailsKeeps ==
  ASSUME StoreDistinct, StoreBounds, Store!TypeOK, ExportInv, Store!ExportFails
  PROVE  Store!TypeOK' /\ ExportInv'
<1>1. Store!TypeOK'
  BY DEF Store!TypeOK, ExportInv, ExporterAt, Store!ExportFails, Store!Fault, Store!ExportBreaks,
    Store!ExportRests, Store!jobThread, Store!database, Store!jobFiles, StoreBounds
<1>2. ExporterAt' /\ ExportsFlushed' /\ ExportsSettled' /\ ExportDirSettled' /\ Store!ExportKept'
  BY DEF ExporterAt, ExportsFlushed, ExportsSettled, ExportDirSettled, Store!ExportKept, ExportInv,
    Store!ExportFails, Store!Fault, Store!ExportBreaks, Store!ExportRests, Store!jobThread,
    Store!database, Store!jobFiles
<1> QED
  BY <1>1, <1>2 DEF ExportInv

-----------------------------------------------------------------------------
(***************************************************************************)
(* The end of the process.                                                 *)
(***************************************************************************)
LEMMA StoreCrashKeeps ==
  ASSUME StoreDistinct, StoreBounds, Store!TypeOK, StoreJobInv, ExportInv, Store!Crash
  PROVE  Store!TypeOK' /\ StoreJobInv' /\ ExportInv'
<1>1. Store!TypeOK'
  BY DEF Store!TypeOK, StoreBounds, Store!Crash, Store!Ends, Store!ExportRests, Store!Breaks,
    Store!ExportBreaks, Store!database, Store!jobFiles
<1>2. StoreThreadAt'
  BY DEF StoreThreadAt, StoreJobInv, Promoting, Store!Crash, Store!Ends, Store!ExportRests,
    Store!Breaks, Store!ExportBreaks, Store!database, Store!jobFiles
<1>3. ClaimedUnreferenced'
  BY DEF ClaimedUnreferenced, StoreJobInv, Store!Crash, Store!Ends, Store!ExportRests, Store!Breaks,
    Store!ExportBreaks, Store!database, Store!jobFiles
<1>4. BundlesFlushed'
  BY DEF BundlesFlushed, StoreJobInv, Store!Crash, Store!Ends, Store!ExportRests, Store!Breaks,
    Store!ExportBreaks, Store!database, Store!jobFiles
<1>5. InputSettled'
  BY DEF InputSettled, StoreJobInv, Store!Crash, Store!Ends, Store!ExportRests, Store!Breaks,
    Store!ExportBreaks, Store!database, Store!jobFiles
<1>6. JobDirSettled'
  BY DEF JobDirSettled, StoreJobInv, Store!Crash, Store!Ends, Store!ExportRests, Store!Breaks,
    Store!ExportBreaks, Store!database, Store!jobFiles
<1>7. DocsCommitted'
  BY DEF DocsCommitted, StoreJobInv, Store!Crash, Store!Ends, Store!ExportRests, Store!Breaks,
    Store!ExportBreaks, Store!database, Store!jobFiles
<1>8. Store!ReferencedWhole'
  BY DEF Store!ReferencedWhole, StoreJobInv, Store!Crash, Store!Ends, Store!ExportRests,
    Store!Breaks, Store!ExportBreaks, Store!database, Store!jobFiles
<1>9. ExporterAt'
  BY DEF ExporterAt, ExportInv, Store!Crash, Store!Ends, Store!ExportRests, Store!Breaks,
    Store!ExportBreaks, Store!database, Store!jobFiles
<1>10. ExportsFlushed'
  BY DEF ExportsFlushed, ExportInv, Store!Crash, Store!Ends, Store!ExportRests, Store!Breaks,
    Store!ExportBreaks, Store!database, Store!jobFiles
<1>11. ExportsSettled'
  BY DEF ExportsSettled, ExportInv, Store!Crash, Store!Ends, Store!ExportRests, Store!Breaks,
    Store!ExportBreaks, Store!database, Store!jobFiles
<1>12. ExportDirSettled'
  BY DEF ExportDirSettled, ExportInv, Store!Crash, Store!Ends, Store!ExportRests, Store!Breaks,
    Store!ExportBreaks, Store!database, Store!jobFiles
<1>13. Store!ExportKept'
  BY DEF Store!ExportKept, ExportInv, Store!Crash, Store!Ends, Store!ExportRests, Store!Breaks,
    Store!ExportBreaks, Store!database, Store!jobFiles
<1> QED
  BY <1>1, <1>2, <1>3, <1>4, <1>5, <1>6, <1>7, <1>8, <1>9, <1>10, <1>11, <1>12, <1>13 DEF
    StoreJobInv, ExportInv

\* After a power loss every entry is one of those that were on the disk.
LEMMA LossesKeep ==
  ASSUME NEW S, NEW e \in [S -> Store!EntryOf(Store!FileStates)], NEW f \in Store!Losses(e)
  PROVE  /\ f \in [S -> Store!EntryOf(Store!FileStates)]
         /\ \A a \in S : \E v \in e[a].disk : f[a] = Store!Entry(Store!Torn(v))
<1>1. DOMAIN e = S
  OBVIOUS
<1>2. f = [a \in S |-> f[a]] /\ \A a \in S : f[a] \in Store!AfterLoss(e[a])
  BY <1>1 DEF Store!Losses
<1>3. \A a \in S : \E v \in e[a].disk : f[a] = Store!Entry(Store!Torn(v))
  BY <1>2 DEF Store!AfterLoss
<1>4. \A a \in S : \A v \in e[a].disk : Store!Entry(Store!Torn(v)) \in Store!EntryOf(Store!FileStates)
  BY DEF Store!Entry, Store!EntryOf, Store!FileStates, Store!Torn
<1>5. \A a \in S : f[a] \in Store!EntryOf(Store!FileStates)
  BY <1>3, <1>4
<1> QED
  BY <1>2, <1>3, <1>5

\* What the loss of the power makes of the job's files.
LEMMA JobFilesAfterLoss ==
  ASSUME Store!TypeOK, StoreJobInv, Store!PowerLoss
  PROVE  /\ bundle' \in [Store!Attempts -> Store!EntryOf(Store!FileStates)]
         /\ \A a \in Store!Attempts : \E v \in {"none", "whole"} : bundle'[a] = Store!Entry(v)
         /\ jobdir' = "none" => \A a \in Store!Attempts : bundle'[a] = Store!Entry("none")
         /\ jobdir' # "none" => \A a \in Store!Attempts : bundle[a] = Store!Entry("whole") =>
           bundle'[a] = Store!Entry("whole")
         /\ jobdir' \in {"none", "durable"} /\ (jobdir = "durable" => jobdir' = "durable")
         /\ \E d \in doc.disk \cup {Store!NoDoc} : doc' = Store!Entry(d)
<1>1. jobdir' \in {"none", "durable"} /\ (jobdir = "durable" => jobdir' = "durable")
  BY DEF Store!PowerLoss, Store!Survives, Store!TypeOK
<1>2. CASE jobdir' = "none"
  <2>1. bundle' = [a \in Store!Attempts |-> Store!Entry("none")] /\ doc' = Store!Entry(Store!NoDoc)
    BY <1>2 DEF Store!PowerLoss
  <2>2. Store!Entry("none") \in Store!EntryOf(Store!FileStates)
    BY DEF Store!Entry, Store!EntryOf, Store!FileStates
  <2> QED
    BY <1>1, <1>2, <2>1, <2>2
<1>3. CASE jobdir' # "none"
  <2>1. bundle' \in Store!Losses(bundle) /\ \E d \in doc.disk : doc' = Store!Entry(d)
    BY <1>3 DEF Store!PowerLoss
  <2>2. bundle \in [Store!Attempts -> Store!EntryOf(Store!FileStates)] /\ \A a \in Store!Attempts :
    bundle[a].disk \subseteq {"none", "whole"}
    BY DEF Store!TypeOK, StoreJobInv, BundlesFlushed
  <2>3. /\ bundle' \in [Store!Attempts -> Store!EntryOf(Store!FileStates)]
        /\ \A a \in Store!Attempts : \E v \in {"none", "whole"} : v \in bundle[a].disk /\ bundle'[a]
          = Store!Entry(v)
    <3>1. /\ bundle' \in [Store!Attempts -> Store!EntryOf(Store!FileStates)]
          /\ \A a \in Store!Attempts : \E v \in bundle[a].disk : bundle'[a] = Store!Entry(Store!Torn(v))
      BY <2>1, <2>2, LossesKeep
    <3> QED
      BY <2>2, <3>1 DEF Store!Torn
  <2>4. \A a \in Store!Attempts : bundle[a] = Store!Entry("whole") => bundle'[a] = Store!Entry("whole")
    BY <2>3 DEF Store!Entry
  <2> QED
    BY <1>1, <1>3, <2>1, <2>3, <2>4
<1> QED
  BY <1>2, <1>3

\* The same of the exports.
LEMMA ExportsAfterLoss ==
  ASSUME Store!TypeOK, ExportInv, Store!PowerLoss
  PROVE  /\ export' \in [WorkerAttempts -> Store!EntryOf(Store!FileStates)]
         /\ \A a \in WorkerAttempts : \E v \in {"none", "linked", "whole"} : export'[a] = Store!Entry(v)
         /\ exportdir' = "none" => \A a \in WorkerAttempts : export'[a] = Store!Entry("none")
         /\ exportdir' # "none" =>
              \A a \in WorkerAttempts : export[a] = Store!Entry("whole") => export'[a] =
                Store!Entry("whole")
         /\ exportdir' \in {"none", "durable"} /\ (exportdir = "durable" => exportdir' = "durable")
<1>1. exportdir' \in {"none", "durable"} /\ (exportdir = "durable" => exportdir' = "durable")
  BY DEF Store!PowerLoss, Store!Survives, Store!TypeOK
<1>2. CASE exportdir' = "none"
  <2>1. export' = [a \in WorkerAttempts |-> Store!Entry("none")]
    BY <1>2 DEF Store!PowerLoss
  <2>2. Store!Entry("none") \in Store!EntryOf(Store!FileStates)
    BY DEF Store!Entry, Store!EntryOf, Store!FileStates
  <2> QED
    BY <1>1, <1>2, <2>1, <2>2
<1>3. CASE exportdir' # "none"
  <2>1. export' \in Store!Losses(export)
    BY <1>3 DEF Store!PowerLoss
  <2>2. /\ export \in [WorkerAttempts -> Store!EntryOf(Store!FileStates)]
        /\ \A a \in WorkerAttempts : export[a].disk \subseteq {"none", "linked", "whole"}
    BY DEF Store!TypeOK, ExportInv, ExportsFlushed
  <2>3. /\ export' \in [WorkerAttempts -> Store!EntryOf(Store!FileStates)]
        /\ \A a \in WorkerAttempts :
             \E v \in {"none", "linked", "whole"} : v \in export[a].disk /\ export'[a] = Store!Entry(v)
    <3>1. /\ export' \in [WorkerAttempts -> Store!EntryOf(Store!FileStates)]
          /\ \A a \in WorkerAttempts : \E v \in export[a].disk : export'[a] = Store!Entry(Store!Torn(v))
      BY <2>1, <2>2, LossesKeep
    <3> QED
      BY <2>2, <3>1 DEF Store!Torn
  <2>4. \A a \in WorkerAttempts : export[a] = Store!Entry("whole") => export'[a] = Store!Entry("whole")
    BY <2>3 DEF Store!Entry
  <2> QED
    BY <1>1, <1>3, <2>3, <2>4
<1> QED
  BY <1>2, <1>3

LEMMA PowerLossKeeps ==
  ASSUME StoreDistinct, StoreBounds, Store!TypeOK, StoreJobInv, ExportInv, Store!PowerLoss
  PROVE  Store!TypeOK' /\ StoreJobInv' /\ ExportInv'
<1>1. /\ jpc' = "down" /\ cur' = Store!NoAttempt /\ xpc' = "idle" /\ xcur' = Store!NoAttempt
      /\ UNCHANGED <<stage, begun, claim, refs, published, unsynced>>
  BY DEF Store!PowerLoss, Store!Ends, Store!ExportRests, Store!database
<1>2. doc' \in Store!EntryOf(Store!Documents) /\ doc'.now \in doc'.disk
      /\ \A d \in doc'.disk : d.at # "torn" /\ d.shows \subseteq refs
  <2>1. PICK d \in doc.disk \cup {Store!NoDoc} : doc' = Store!Entry(d)
    BY JobFilesAfterLoss
  <2>2. d \in Store!Documents /\ d.at # "torn" /\ d.shows \subseteq refs
    BY DEF Store!TypeOK, Store!EntryOf, Store!NoDoc, Store!Documents, StoreJobInv, DocsCommitted
  <2> QED
    BY <2>1, <2>2 DEF Store!Entry, Store!EntryOf
<1>3. Store!TypeOK'
  <2>1. \A a \in Store!Attempts : bundle'[a].now \in bundle'[a].disk
    BY JobFilesAfterLoss DEF Store!Entry
  <2>2. \A a \in WorkerAttempts : export'[a].now \in export'[a].disk
    BY ExportsAfterLoss DEF Store!Entry
  <2>3. sused' \in [crashes : 0..MaxStoreCrashes, faults : 0..MaxStoreFaults]
    BY DEF Store!PowerLoss, Store!Ends, Store!TypeOK, StoreBounds
  <2> QED
    BY <1>1, <1>2, <2>1, <2>2, <2>3, JobFilesAfterLoss, ExportsAfterLoss DEF Store!TypeOK
<1>4. StoreJobInv'
  <2>1. StoreThreadAt' /\ ClaimedUnreferenced' /\ DocsCommitted'
    BY <1>1, <1>2 DEF StoreThreadAt, Promoting, ClaimedUnreferenced, StoreJobInv, DocsCommitted
  <2>2. BundlesFlushed' /\ InputSettled'
    BY <1>1, JobFilesAfterLoss DEF BundlesFlushed, InputSettled, Store!Entry
  <2>3. JobDirSettled'
    BY <1>1, JobFilesAfterLoss DEF JobDirSettled, StoreJobInv, Store!Entry
  <2>4. Store!ReferencedWhole'
    <3>1. CASE "job" \in unsynced \/ refs = {}
      BY <1>1, <3>1 DEF Store!ReferencedWhole
    <3>2. CASE "job" \notin unsynced /\ refs # {}
      BY <1>1, <3>2, JobFilesAfterLoss DEF Store!ReferencedWhole, StoreJobInv, JobDirSettled,
        Store!TypeOK
    <3> QED
      BY <3>1, <3>2
  <2> QED
    BY <2>1, <2>2, <2>3, <2>4 DEF StoreJobInv
<1>5. ExportInv'
  <2>1. ExporterAt' /\ ExportsFlushed' /\ ExportsSettled'
    BY <1>1, ExportsAfterLoss DEF ExporterAt, ExportsFlushed, ExportsSettled, Store!Entry
  <2>2. ExportDirSettled'
    BY <1>1, ExportsAfterLoss DEF ExportDirSettled, ExportInv, Store!Entry
  <2>3. Store!ExportKept'
    <3>1. CASE "export" \in unsynced \/ published = {}
      BY <1>1, <3>1 DEF Store!ExportKept
    <3>2. CASE "export" \notin unsynced /\ published # {}
      BY <1>1, <3>2, ExportsAfterLoss DEF Store!ExportKept, ExportInv, ExportDirSettled, Store!TypeOK
    <3> QED
      BY <3>1, <3>2
  <2> QED
    BY <2>1, <2>2, <2>3 DEF ExportInv
<1> QED
  BY <1>3, <1>4, <1>5

-----------------------------------------------------------------------------
(***************************************************************************)
(* The two threads together.                                               *)
(***************************************************************************)
\* The invariant of one thread outlives the steps of the other: they share only
\* the history of the directories that were not synced, which grows.
LEMMA JobInvFrame ==
  ASSUME StoreJobInv, UNCHANGED <<Store!jobThread, Store!database, Store!jobFiles>>, unsynced
    \subseteq unsynced'
  PROVE  StoreJobInv'
BY DEF StoreJobInv, StoreThreadAt, ClaimedUnreferenced, BundlesFlushed, InputSettled, JobDirSettled,
  DocsCommitted, Store!ReferencedWhole, Store!jobThread, Store!database, Store!jobFiles

LEMMA ExportInvFrame ==
  ASSUME ExportInv, UNCHANGED Store!exporter, unsynced \subseteq unsynced'
  PROVE  ExportInv'
BY DEF ExportInv, ExporterAt, ExportsFlushed, ExportsSettled, ExportDirSettled, Store!ExportKept,
  Store!exporter

StoreInv == Store!TypeOK /\ StoreJobInv /\ ExportInv

LEMMA StoreInvInit == ASSUME StoreBounds, Store!Init PROVE StoreInv
<1>1. Store!Entry("none") \in Store!EntryOf(Store!FileStates) /\ Store!Entry(Store!NoDoc) \in
  Store!EntryOf(Store!Documents)
  BY DEF Store!Entry, Store!EntryOf, Store!FileStates, Store!Documents, Store!NoDoc
<1>2. Store!TypeOK
  BY <1>1 DEF Store!Init, Store!TypeOK, Store!Entry, StoreBounds
<1>3. StoreJobInv
  BY DEF Store!Init, StoreJobInv, StoreThreadAt, Promoting, ClaimedUnreferenced, BundlesFlushed,
    InputSettled, JobDirSettled, DocsCommitted, Store!ReferencedWhole, Store!Entry, Store!NoDoc,
    Store!Attempts
<1>4. ExportInv
  BY DEF Store!Init, ExportInv, ExporterAt, ExportsFlushed, ExportsSettled, ExportDirSettled,
    Store!ExportKept, Store!Entry
<1> QED
  BY <1>2, <1>3, <1>4 DEF StoreInv

LEMMA JobThreadKeeps ==
  ASSUME StoreDistinct, StoreBounds, StoreInv, Store!JobThread
  PROVE  StoreInv'
<1>1. Store!TypeOK' /\ StoreJobInv'
  BY StoreStartKeeps, RevokeDetachesKeeps, RevokeSyncsKeeps, RevokeFailsKeeps, ImportRecoversKeeps,
    ImportStagesKeeps, CreateStagingKeeps, WorkerEndsKeeps, WorkerFailsKeeps, PromoteRefusesKeeps, PromoteFailsKeeps,
    PromoteMakesDirectoryKeeps, PromoteSyncsDirectoryKeeps, PromoteCopiesKeeps, PromoteRenamesKeeps,
    RenameFailsKeeps, PromoteSyncsKeeps, PromoteEndsKeeps, VerifyFailsKeeps, CommitKeeps,
    CommitFailsKeeps, ProjectionReplacesKeeps, ProjectionSyncsKeeps, ProjectionFailsKeeps DEF
    StoreInv, Store!JobThread
<1>2. UNCHANGED Store!exporter /\ unsynced \subseteq unsynced'
  BY DEF Store!JobThread, Store!Start, Store!RevokeDetaches, Store!RevokeSyncs, Store!RevokeFails,
    Store!ImportRecovers, Store!ImportStages, Store!CreateStaging, Store!WorkerEnds,
    Store!WorkerFails, Store!PromoteRefuses, Store!PromoteFails, Store!PromoteMakesDirectory,
    Store!PromoteSyncsDirectory, Store!PromoteCopies, Store!PromoteRenames, Store!RenameFails,
    Store!PromoteSyncs, Store!PromoteEnds, Store!VerifyFails, Store!Commit, Store!CommitFails,
    Store!ProjectionReplaces, Store!ProjectionSyncs, Store!ProjectionFails, Store!exporter
<1> QED
  BY <1>1, <1>2, ExportInvFrame DEF StoreInv

LEMMA EventLoopKeeps ==
  ASSUME StoreDistinct, StoreBounds, StoreInv, Store!EventLoop
  PROVE  StoreInv'
<1>1. Store!TypeOK' /\ ExportInv'
  BY StatusAnswersKeeps, StatusExportsKeeps, ExportMakesDirectoryKeeps, ExportSyncsDirectoryKeeps,
    ExportLinksKeeps, ExportUnlinksKeeps, ExportSyncsKeeps, ExportFailsKeeps DEF StoreInv,
    Store!EventLoop
<1>2. UNCHANGED <<Store!jobThread, Store!database, Store!jobFiles>> /\ unsynced \subseteq unsynced'
  BY DEF Store!EventLoop, Store!StatusAnswers, Store!StatusExports, Store!ExportMakesDirectory,
    Store!ExportSyncsDirectory, Store!ExportLinks, Store!ExportUnlinks, Store!ExportSyncs,
    Store!ExportFails, Store!ExportBreaks
<1> QED
  BY <1>1, <1>2, JobInvFrame DEF StoreInv

\* The inductive invariant of the store.
LEMMA StoreInvariant == ASSUME StoreDistinct, StoreBounds PROVE Store!Spec => []StoreInv
<1>1. Store!Init => StoreInv
  BY StoreInvInit
<1>2. StoreInv /\ [Store!Next]_(Store!storeVars) => StoreInv'
  <2> SUFFICES ASSUME StoreInv, [Store!Next]_(Store!storeVars) PROVE StoreInv'
    OBVIOUS
  <2>1. CASE UNCHANGED Store!storeVars
    <3>1. Store!TypeOK'
      BY <2>1 DEF StoreInv, Store!TypeOK, Store!storeVars, Store!jobThread, Store!database,
        Store!jobFiles, Store!exporter
    <3>2. StoreJobInv' /\ ExportInv'
      BY <2>1, JobInvFrame, ExportInvFrame DEF StoreInv, Store!storeVars
    <3> QED
      BY <3>1, <3>2 DEF StoreInv
  <2> QED
    BY <2>1, JobThreadKeeps, EventLoopKeeps, StoreCrashKeeps, PowerLossKeeps DEF StoreInv, Store!Next
<1> QED
  BY <1>1, <1>2, PTL DEF Store!Spec

-----------------------------------------------------------------------------
(* The components in the composition *)

\* A behaviour of the composition is, seen through the variables of the service
\* instances, a behaviour of ServiceInstance.
LEMMA PartsRunService == PartsSpec => Service!Spec
<1>1. PartsInit => Service!Init
  BY DEF PartsInit
<1>2. [PartsNext]_partVars => [Service!Next]_(Service!serviceVars)
  <2> USE DEF serviceVars, Service!serviceVars, Service!files, Service!threads
  <2>1. CASE UNCHANGED partVars
    BY <2>1 DEF partVars
  <2> QED
    BY <2>1 DEF PartsNext, MailboxOnly, SerialOnly, StoreOnly, ServiceOnly, StagingOnly
<1> QED
  BY <1>1, <1>2, PTL DEF PartsSpec, Service!Spec

\* The same of the serial session.
LEMMA PartsRunSerial == PartsSpec => Serial!Spec
<1>1. PartsInit => Serial!Init
  BY DEF PartsInit
<1>2. [PartsNext]_partVars => [Serial!Next]_(Serial!serialVars)
  <2> USE DEF serialVars, Serial!serialVars, Serial!host, Serial!wire, Serial!controller, Serial!progress
  <2>1. CASE UNCHANGED partVars
    BY <2>1 DEF partVars
  <2> QED
    BY <2>1 DEF PartsNext, MailboxOnly, SerialOnly, StoreOnly, ServiceOnly, StagingOnly
<1> QED
  BY <1>1, <1>2, PTL DEF PartsSpec, Serial!Spec

LEMMA PartsBounds == Serial!Bounds
BY PartsAssumption DEF Serial!Bounds

LEMMA PartsNobody == Service!Nobody \notin Processes
BY PartsAssumption DEF Service!Nobody

\* However many processes start, stop, fail or are killed at any moment, one that
\* serves owns the lease, the socket at the path and the pid file, its
\* coordinators run, and the threads of another run only in a process at its
\* exit (cli/service.py, service/_instance.py, service/server.py).
THEOREM PartsServe == PartsSpec => []ServingOwns
<1>1. ServiceInv => Service!ServingOwns
  BY DEF ServiceInv, Service!ServingOwns, LeaseHeld, Built, ThreadsLeased, ServiceLeased, ServiceBound
<1>2. Service!Spec => []ServiceInv
  BY PartsNobody, ServiceAlwaysInv
<1> QED
  BY <1>1, <1>2, PartsRunService, PTL DEF ServingOwns

\* One line, one acknowledgement, and a progress row that never claims more than
\* the controller accepted, for a program of any length and any number of faults
\* (serial_fluidnc.stream_program, record_progress).
THEOREM PartsAckedPrefix == PartsSpec => []AckedPrefix
<1>1. Serial!Spec => []Serial!AckedPrefix
  BY PartsBounds, Serial!AlwaysAckedPrefix
<1> QED
  BY <1>1, PartsRunSerial, PTL DEF AckedPrefix

\* A stream reported as complete was drawn, and word of trouble is crossed by one
\* line at most (serial_fluidnc._line_failure, _drain_post_ack).
THEOREM PartsStreamSafe == PartsSpec => []StreamSafe
<1>1. Serial!Spec => []Serial!StreamSafe
  BY PartsBounds, Serial!StreamAlwaysSafe
<1> QED
  BY <1>1, PartsRunSerial, PTL DEF StreamSafe

\* A progress callback that comes after the end of the stream call changes
\* nothing (_StreamProgressLifetime).
THEOREM PartsProgressFinal == PartsSpec => ProgressFinal
<1>1. Serial!Spec => Serial!ProgressFinal
  BY PartsBounds, Serial!ProgressStaysFinal
<1> QED
  BY <1>1, PartsRunSerial DEF ProgressFinal

\* And of the artifact store.
LEMMA PartsRunStore == PartsSpec => Store!Spec
<1>1. PartsInit => Store!Init
  BY DEF PartsInit
<1>2. [PartsNext]_partVars => [Store!Next]_(Store!storeVars)
  <2> USE DEF storeVars, Store!storeVars, Store!jobThread, Store!database, Store!jobFiles, Store!exporter
  <2>1. CASE UNCHANGED partVars
    BY <2>1 DEF partVars
  <2> QED
    BY <2>1 DEF PartsNext, MailboxOnly, SerialOnly, StoreOnly, ServiceOnly, StagingOnly
<1> QED
  BY <1>1, <1>2, PTL DEF PartsSpec, Store!Spec

LEMMA PartsStoreBounds == StoreDistinct /\ StoreBounds
BY PartsAssumption DEF StoreDistinct, StoreBounds, Store!Attempts, Store!NoAttempt

\* What a committed row refers to and what a client was given is there and whole,
\* no published name is ever torn, and a document shows committed attempts only,
\* for any number of attempts, crashes, power losses and failing calls
\* (artifact_store.validate_and_promote, publish_artifacts).
THEOREM PartsStoreSafe == PartsSpec => []StoreSafe
<1>1. StoreInv => Store!StoreSafe
  BY DEF StoreInv, Store!StoreSafe, Store!NamesWhole, Store!TypeOK, StoreJobInv, ExportInv, BundlesFlushed,
    ExportsFlushed, DocsCommitted
<1>2. Store!Spec => []StoreInv
  BY PartsStoreBounds, StoreInvariant
<1> QED
  BY <1>1, <1>2, PartsRunStore, PTL DEF StoreSafe

\* And of the staging of client data.
LEMMA PartsRunStaging == PartsSpec => Staged!Spec
<1>1. PartsInit => Staged!Init
  BY DEF PartsInit
<1>2. [PartsNext]_partVars => [Staged!Next]_(Staged!vars)
  <2> USE DEF stagingVars, Staged!vars, Staged!clients, Staged!files, Staged!rows, Staged!wire
  <2>1. CASE UNCHANGED partVars
    BY <2>1 DEF partVars
  <2> QED
    BY <2>1 DEF PartsNext, MailboxOnly, SerialOnly, StoreOnly, ServiceOnly, StagingOnly
<1> QED
  BY <1>1, <1>2, PTL DEF PartsSpec, Staged!Spec

LEMMA PartsStagingBounds == Staged!Bounds
BY PartsAssumption DEF Staged!Bounds, Staged!NoRequest

\* For any number of requests, commands, crashes and failing calls, a bundle that may
\* have reached the service is removed only when a durable job holds its payload, a
\* quarantine is real and final, and a copy without a job is discarded
\* (staging_reconciliation, client_data, offline_job_chain).
THEOREM PartsPayloadsKept == PartsSpec => []PayloadsKept
<1>1. Staged!Spec => []Staged!PayloadsKept
  BY PartsStagingBounds, Staged!PayloadsAlwaysKept
<1> QED
  BY <1>1, PartsRunStaging, PTL DEF PayloadsKept

\* A job exists only for the arguments its request was bound to, and an answer of
\* success stands for that job (job_sql.bind_staging_operation, server._dispatch).
THEOREM PartsRequestsExact == PartsSpec => []RequestsExact
<1>1. Staged!Spec => []Staged!RequestsExact
  BY PartsStagingBounds, Staged!RequestsAlwaysExact
<1> QED
  BY <1>1, PartsRunStaging, PTL DEF RequestsExact

\* While evidence of a role is unresolved, no step registers or claims a bundle
\* (staging_reconciliation.before_staging_command).
THEOREM PartsBlockedRefuses == PartsSpec => BlockedRefuses
<1>1. Staged!Spec => Staged!BlockedRefuses
  BY PartsStagingBounds, Staged!AlwaysBlockedRefuses
<1> QED
  BY <1>1, PartsRunStaging DEF BlockedRefuses

\* And of the machine coordinator, the module that is extended.
LEMMA PartsRunMailbox == PartsSpec => Spec
<1>1. PartsInit => Init
  BY DEF PartsInit
<1>2. [PartsNext]_partVars => [Next]_vars
  <2>1. CASE UNCHANGED partVars
    BY <2>1 DEF partVars
  <2> QED
    BY <2>1 DEF PartsNext, MailboxOnly, SerialOnly, StoreOnly, ServiceOnly, StagingOnly
<1> QED
  BY <1>1, <1>2, PTL DEF PartsSpec, Spec

\* Every variable of every component keeps its type: threads, files, rows, sockets
\* and messages, for every value of the constants.
THEOREM PartsTyped == PartsSpec => []PartsTypeOK
<1>1. PartsSpec => [](part \in Parts)
  <2>1. PartsInit => part \in Parts
    BY DEF PartsInit
  <2>2. part \in Parts /\ [PartsNext]_partVars => (part \in Parts)'
    BY DEF PartsNext, partVars, MailboxOnly, SerialOnly, StoreOnly, ServiceOnly, StagingOnly
  <2> QED
    BY <2>1, <2>2, PTL DEF PartsSpec
<1>2. Serial!Spec => []Serial!TypeOK
  BY PartsBounds, Serial!TypeCorrect
<1>3. Store!Spec => []Store!TypeOK
  <2>1. StoreInv => Store!TypeOK
    BY DEF StoreInv
  <2>2. Store!Spec => []StoreInv
    BY PartsStoreBounds, StoreInvariant
  <2> QED
    BY <2>1, <2>2, PTL
<1>4. Service!Spec => []Service!TypeOK
  <2>1. ServiceInv => Service!TypeOK
    BY DEF ServiceInv
  <2>2. Service!Spec => []ServiceInv
    BY PartsNobody, ServiceAlwaysInv
  <2> QED
    BY <2>1, <2>2, PTL
<1>5. Staged!Spec => []Staged!TypeOK
  BY PartsStagingBounds, Staged!StagingTyped
<1> QED
  BY <1>1, <1>2, <1>3, <1>4, <1>5, TypeCorrect, PartsRunMailbox, PartsRunSerial, PartsRunStore, PartsRunService,
    PartsRunStaging, PTL DEF PartsTypeOK
=============================================================================
