---------------------------- MODULE ModelProofs ----------------------------
(***************************************************************************)
(* Proofs about the two models of a call to a language model: ModelCircuit,*)
(* for any finite set of calls and any configuration of the Tasks they     *)
(* belong to, and ModelStream, for any replies and any capacity of the     *)
(* channel.  The two share no definition, constant or variable.            *)
(*                                                                         *)
(* ModelCircuit.  The accounting of half-open slots is inductive once it   *)
(* is known that a call holds an admission exactly while it is in progress *)
(* (CallInv), and that slots are only taken below a configured limit       *)
(* (LimitInv).                                                             *)
(*                                                                         *)
(* ModelStream.  Every event that the adapter has read is with the         *)
(* consumer or on its way to it, once and in order (HeldInv, about the     *)
(* sequence Flow of the chunks under way).  Chunks of whole blocks need    *)
(* that an accumulator has the tokens that were read (AccInv); and a       *)
(* closed channel is behind a chunk that ends the reply (EndInv).  A       *)
(* chunk that says that the reply is done comes last, so that a consumer   *)
(* which takes it has every event.                                         *)
(***************************************************************************)
EXTENDS ModelCircuit, ModelStream, FiniteSetTheorems, TLAPS

-----------------------------------------------------------------------------
(* ModelCircuit: the invariant *)

CallInv ==
    \A c \in Calls :
        /\ pc[c] \in {"idle", "refused"} => admitted[c] = "none"
        /\ pc[c] = "finishing" /\ cause[c] = "exhausted" => attempt[c] = MaxAttempts[c]

LimitInv == halfOpenRun = 0 \/ \E c \in Calls : halfOpenRun <= HalfOpenMax[c]

IInv == TypeOK /\ CallInv /\ LimitInv /\ SlotsAccounted

Admit(c) == AdmitClosed(c) \/ AdmitCooled(c) \/ AdmitProbe(c)

Attempt(c) == Stream(c) \/ Return(c) \/ Retry(c) \/ Cancel(c)

LEMMA StepCases ==
  ASSUME NEW c \in Calls, Step(c)
  PROVE  Admit(c) \/ Refuse(c) \/ Attempt(c) \/ Finish(c)
  BY DEF Step, Admit, Attempt

\* The assumption in terms of sets.
LEMMA ConfigFacts ==
    /\ IsFiniteSet(Calls)
    /\ FailureThreshold \in [Calls -> Nat \ {0}] /\ OpenDuration \in [Calls -> Nat \ {0}]
    /\ HalfOpenMax \in [Calls -> Nat \ {0}] /\ MaxAttempts \in [Calls -> Nat \ {0}]
    /\ FailureCap \in Nat /\ \A c \in Calls : FailureThreshold[c] <= FailureCap
    /\ OpenCap \in Nat /\ \A c \in Calls : OpenDuration[c] <= OpenCap
  BY ConfigAssumption DEF Normalized

LEMMA ProbesFinite == IsFiniteSet(Probes) /\ Cardinality(Probes) \in Nat
  BY ConfigFacts, FS_Subset, FS_CardinalityType DEF Probes

-----------------------------------------------------------------------------
(* Type correctness *)

LEMMA InitIInv == Init => IInv
<1> SUFFICES ASSUME Init PROVE IInv
  OBVIOUS
<1>1. TypeOK
  BY ConfigFacts DEF Init, TypeOK, Causes
<1>2. CallInv /\ LimitInv
  BY DEF Init, CallInv, LimitInv
<1>3. Probes = {}
  BY DEF Init, Probes
<1>4. SlotsAccounted
  BY <1>3, FS_EmptySet DEF Init, SlotsAccounted
<1> QED
  BY <1>1, <1>2, <1>4 DEF IInv

LEMMA TypeStep == TypeOK /\ [Next]_vars => TypeOK'
<1> SUFFICES ASSUME TypeOK, [Next]_vars PROVE TypeOK'
  OBVIOUS
<1> USE ConfigFacts DEF TypeOK, circuit
<1>1. CASE UNCHANGED vars
  BY <1>1 DEF vars
<1>2. CASE Tick
  BY <1>2 DEF Tick
<1>3. ASSUME NEW c \in Calls, Step(c) PROVE TypeOK'
  <2>1. CASE Admit(c)
    BY <2>1, ProbesFinite DEF Admit, AdmitClosed, AdmitCooled, AdmitProbe, Enter
  <2>2. CASE Refuse(c)
    BY <2>2 DEF Refuse
  <2>3. CASE Attempt(c)
    BY <2>3 DEF Attempt, Stream, Return, Respond, FailForGood, Abort, Exhaust, Pause,
                Retry, Cancel, End, TextReset, Causes
  <2>4. CASE Finish(c)
    <3>1. SlotsAfter(c) \in Nat
      BY DEF SlotsAfter
    <3> QED
      BY <2>4, <3>1 DEF Finish, Report, Causes
  <2> QED
    BY <1>3, <2>1, <2>2, <2>3, <2>4, StepCases
<1> QED
  BY <1>1, <1>2, <1>3 DEF Next

\* Every value a ModelCircuit variable takes has its type.
THEOREM TypeCorrect == Spec => []TypeOK
<1>1. Init => TypeOK
  BY InitIInv DEF IInv
<1> QED
  BY <1>1, TypeStep, PTL DEF Spec

-----------------------------------------------------------------------------
(* The accounting of slots *)

LEMMA CallStep == TypeOK /\ CallInv /\ [Next]_vars => CallInv'
<1> SUFFICES ASSUME TypeOK, CallInv, [Next]_vars PROVE CallInv'
  OBVIOUS
<1> USE DEF TypeOK, CallInv
<1>1. CASE UNCHANGED vars
  BY <1>1 DEF vars
<1>2. CASE Tick
  BY <1>2 DEF Tick
<1>3. ASSUME NEW c \in Calls, Step(c) PROVE CallInv'
  <2>1. CASE Admit(c)
    BY <2>1 DEF Admit, AdmitClosed, AdmitCooled, AdmitProbe, Enter
  <2>2. CASE Refuse(c)
    BY <2>2 DEF Refuse
  <2>3. CASE Attempt(c)
    BY <2>3 DEF Attempt, Stream, Return, Respond, FailForGood, Abort, Exhaust, Pause,
                Retry, Cancel, End, Causes
  <2>4. CASE Finish(c)
    BY <2>4 DEF Finish
  <2> QED
    BY <1>3, <2>1, <2>2, <2>3, <2>4, StepCases
<1> QED
  BY <1>1, <1>2, <1>3 DEF Next

LEMMA LimitStep == TypeOK /\ LimitInv /\ [Next]_vars => LimitInv'
<1> SUFFICES ASSUME TypeOK, LimitInv, [Next]_vars PROVE LimitInv'
  OBVIOUS
<1> USE ConfigFacts DEF TypeOK, LimitInv, circuit
<1>1. CASE UNCHANGED vars
  BY <1>1 DEF vars
<1>2. CASE Tick
  BY <1>2 DEF Tick
<1>3. ASSUME NEW c \in Calls, Step(c) PROVE LimitInv'
  <2>1. CASE Admit(c)
    BY <2>1 DEF Admit, AdmitClosed, AdmitCooled, AdmitProbe, SlotFree
  <2>2. CASE Refuse(c)
    BY <2>2 DEF Refuse
  <2>3. CASE Attempt(c)
    BY <2>3 DEF Attempt, Stream, Return, Respond, FailForGood, Abort, Exhaust, Pause,
                Retry, Cancel, End
  <2>4. CASE Finish(c)
    BY <2>4 DEF Finish, Report, SlotsAfter
  <2> QED
    BY <1>3, <2>1, <2>2, <2>3, <2>4, StepCases
<1> QED
  BY <1>1, <1>2, <1>3 DEF Next

LEMMA SlotStep == IInv /\ [Next]_vars => SlotsAccounted'
<1> SUFFICES ASSUME IInv, [Next]_vars PROVE SlotsAccounted'
  OBVIOUS
<1> USE DEF IInv, TypeOK, SlotsAccounted, circuit
<1>0. IsFiniteSet(Probes) /\ Cardinality(Probes) \in Nat
  BY ProbesFinite
<1>1. ASSUME UNCHANGED <<admitted, halfOpenRun, leftover>> PROVE SlotsAccounted'
  BY <1>1 DEF Probes
<1>2. CASE UNCHANGED vars
  BY <1>1, <1>2 DEF vars
<1>3. CASE Tick
  BY <1>1, <1>3 DEF Tick
<1>4. ASSUME NEW c \in Calls, Step(c) PROVE SlotsAccounted'
  <2>1. CASE Admit(c)
    <3>1. admitted[c] = "none" /\ c \notin Probes
      BY <2>1 DEF Admit, AdmitClosed, AdmitCooled, AdmitProbe, Enter, CallInv, Probes
    <3>2. CASE AdmitClosed(c)
      <4>1. Probes' = Probes
        BY <3>1, <3>2 DEF AdmitClosed, Enter, Probes
      <4> QED
        BY <3>2, <4>1 DEF AdmitClosed
    <3>3. CASE AdmitCooled(c) \/ AdmitProbe(c)
      <4>1. Probes' = Probes \cup {c}
        BY <3>3 DEF AdmitCooled, AdmitProbe, Enter, Probes
      <4>2. Cardinality(Probes') = Cardinality(Probes) + 1
        BY <1>0, <3>1, <4>1, FS_AddElement
      <4> QED
        BY <1>0, <3>3, <4>2 DEF AdmitCooled, AdmitProbe
    <3> QED
      BY <2>1, <3>2, <3>3 DEF Admit
  <2>2. CASE Refuse(c)
    BY <1>1, <2>2 DEF Refuse
  <2>3. CASE Attempt(c)
    BY <1>1, <2>3 DEF Attempt, Stream, Return, Respond, FailForGood, Abort, Exhaust,
                      Pause, Retry, Cancel, End
  <2>4. CASE Finish(c)
    <3>1. CASE c \in Probes
      <4>1. Probes' = Probes \ {c}
        BY <2>4 DEF Finish, Probes
      <4>2. Cardinality(Probes') = Cardinality(Probes) - 1
        BY <1>0, <3>1, <4>1, FS_RemoveElement
      <4>3. Cardinality(Probes) >= 1
        BY <1>0, <3>1, FS_EmptySet
      <4>4. admitted[c] = "halfOpen"
        BY <3>1 DEF Probes
      <4> QED
        BY <1>0, <2>4, <4>2, <4>3, <4>4 DEF Finish, Report, SlotsAfter
    <3>2. CASE c \notin Probes
      <4>1. Probes' = Probes /\ admitted[c] # "halfOpen"
        BY <2>4, <3>2 DEF Finish, Probes
      <4> QED
        BY <2>4, <4>1 DEF Finish, Report, SlotsAfter
    <3> QED
      BY <3>1, <3>2
  <2> QED
    BY <1>4, <2>1, <2>2, <2>3, <2>4, StepCases
<1> QED
  BY <1>2, <1>3, <1>4 DEF Next

LEMMA Inductive == Spec => []IInv
<1>1. IInv /\ [Next]_vars => IInv'
  BY TypeStep, CallStep, LimitStep, SlotStep DEF IInv
<1> QED
  BY <1>1, InitIInv, PTL DEF Spec

-----------------------------------------------------------------------------
(* Streamed text *)

\* A call shows text of its present attempt only, and none outside of one.
TextInv ==
    \A c \in Calls :
        /\ text[c] \subseteq {attempt[c]}
        /\ pc[c] \in {"idle", "refused", "waiting"} => text[c] = {}

LEMMA TextStep == TypeOK /\ TextInv /\ [Next]_vars => TextInv'
<1> SUFFICES ASSUME TypeOK, TextInv, [Next]_vars PROVE TextInv'
  OBVIOUS
<1> USE DEF TypeOK, TextInv
<1>1. CASE UNCHANGED vars
  BY <1>1 DEF vars
<1>2. CASE Tick
  BY <1>2 DEF Tick
<1>3. ASSUME NEW c \in Calls, Step(c) PROVE TextInv'
  <2>1. CASE Admit(c)
    BY <2>1 DEF Admit, AdmitClosed, AdmitCooled, AdmitProbe, Enter
  <2>2. CASE Refuse(c)
    BY <2>2 DEF Refuse
  <2>3. CASE Stream(c)
    BY <2>3 DEF Stream
  <2>4. CASE Pause(c)
    BY <2>4 DEF Pause, TextReset
  <2>5. CASE Respond(c) \/ FailForGood(c) \/ Abort(c) \/ Exhaust(c)
    BY <2>5 DEF Respond, FailForGood, Abort, Exhaust, End
  <2>6. CASE Retry(c)
    BY <2>6 DEF Retry
  <2>7. CASE Cancel(c)
    BY <2>7 DEF Cancel
  <2>8. CASE Finish(c)
    BY <2>8 DEF Finish
  <2> QED
    BY <1>3, <2>1, <2>2, <2>3, <2>4, <2>5, <2>6, <2>7, <2>8, StepCases DEF Attempt, Return
<1> QED
  BY <1>1, <1>2, <1>3 DEF Next

-----------------------------------------------------------------------------
(* The theorems *)

\* No half-open slot leaks and none is given out twice, up to the probes left
\* over from an earlier half-open period.
THEOREM Accounted == Spec => []SlotsAccounted
<1>1. IInv => SlotsAccounted
  BY DEF IInv
<1> QED
  BY <1>1, Inductive, PTL

\* The probes in flight are bounded by the configured limit and the leftovers.
THEOREM Bounded == Spec => []ProbesBounded
<1>1. IInv => ProbesBounded
  <2> SUFFICES ASSUME IInv, Probes # {} 
               PROVE \E c \in Calls : Cardinality(Probes) <= HalfOpenMax[c] + leftover
    BY DEF ProbesBounded
  <2>1. Cardinality(Probes) \in Nat /\ leftover \in Nat /\ halfOpenRun \in Nat
    BY ProbesFinite DEF IInv, TypeOK
  <2>2. PICK p \in Calls : p \in Probes
    BY DEF Probes
  <2>3. HalfOpenMax \in [Calls -> Nat]
    BY ConfigFacts
  <2> QED
    BY <2>1, <2>2, <2>3 DEF IInv, LimitInv, SlotsAccounted
<1> QED
  BY <1>1, Inductive, PTL

\* Only a call that used up its attempts on retryable errors counts as a failure.
THEOREM Counted == Spec => OnlyExhaustionCounts
<1>1. ASSUME IInv, [Next]_vars, failures' > failures
      PROVE  \E c \in Calls : /\ pc[c] = "finishing" /\ cause[c] = "exhausted"
                              /\ attempt[c] = MaxAttempts[c]
  <2>1. failures' # failures /\ failures \in Nat
    BY <1>1, ConfigFacts DEF IInv, TypeOK
  <2>2. PICK c \in Calls : Finish(c)
    BY <1>1, <2>1, StepCases
    DEF Next, vars, circuit, Tick, Admit, AdmitClosed, AdmitCooled, AdmitProbe, Enter,
        Refuse, Attempt, Stream, Return, Respond, FailForGood, Abort, Exhaust, Pause,
        Retry, Cancel, End
  <2>3. OutcomeOf(cause[c]) = "failure"
    BY <1>1, <2>1, <2>2 DEF Finish, Report
  <2>4. pc[c] = "finishing" /\ cause[c] = "exhausted"
    BY <2>2, <2>3 DEF Finish, OutcomeOf
  <2> QED
    BY <1>1, <2>4 DEF IInv, CallInv
<1> QED
  BY <1>1, Inductive, PTL DEF Spec, OnlyExhaustionCounts

\* Streamed text of an abandoned attempt never stands beside text of a later one.
THEOREM TextUnmixed == Spec => []NoMixedText
<1>1. Init => TextInv
  BY DEF Init, TextInv
<1>2. TextInv => NoMixedText
  BY DEF TextInv, NoMixedText
<1>3. IInv => TypeOK
  BY DEF IInv
<1> QED
  BY <1>1, <1>2, <1>3, TextStep, Inductive, PTL DEF Spec

-----------------------------------------------------------------------------
(* ModelStream: the invariant *)

\* What an event carries to the caller.
Class(e) ==
    IF e = Final THEN "final"
    ELSE IF IsDelta(e) /\ reply[e[1]].kind = "text" THEN "text"
    ELSE IF IsDelta(e) /\ reply[e[1]].kind = "thinking" THEN "thought"
    ELSE IF IsDelta(e) /\ adapter = "chat" THEN "part"
    ELSE IF Ends(e) /\ reply[e[1]].kind = "thinking" THEN "state"
    ELSE IF Ends(e) /\ reply[e[1]].kind = "call" THEN "call"
    ELSE "nothing"

Carries(e, c) ==
    \/ Class(e) = "final" /\ c = [NoChunk EXCEPT !.done = TRUE]
    \/ Class(e) = "text" /\ c = [NoChunk EXCEPT !.text = <<e>>]
    \/ Class(e) = "thought" /\ c = [NoChunk EXCEPT !.reasoning = <<e>>]
    \/ Class(e) = "state" /\ c = [NoChunk EXCEPT !.state = Piece(e[1], Tokens(e[1]))]
    \/ Class(e) = "call" /\ c = [NoChunk EXCEPT !.call = Piece(e[1], Tokens(e[1]))]
    \/ /\ Class(e) = "part"
       /\ \E id \in {e[1], None} : (e[2] = 1 => id = e[1]) /\ c = [NoChunk EXCEPT !.call = Piece(id, <<e>>)]

\* The event that a chunk is of.
Source(c) ==
    IF c.done THEN Final
    ELSE IF c.text # <<>> THEN c.text[1]
    ELSE IF c.reasoning # <<>> THEN c.reasoning[1]
    ELSE IF c.state # None THEN <<c.state.id, EndOf(c.state.id)>>
    ELSE IF adapter = "chat" THEN c.call.tokens[1]
    ELSE <<c.call.id, EndOf(c.call.id)>>

HasToken(tokens, e) == \E i \in DOMAIN tokens : tokens[i] = e
HasBlock(pieces, b) == \E i \in DOMAIN pieces : pieces[i].id = b
HasPart(pieces, e) == \E i \in DOMAIN pieces : pieces[i].id = e[1] /\ e[2] <= Len(pieces[i].tokens)

\* Consumer con has what event e carries.
Has(con, e) ==
    \/ Class(e) = "text" /\ HasToken(con.text, e)
    \/ Class(e) = "thought" /\ HasToken(con.reasoning, e)
    \/ Class(e) = "state" /\ HasBlock(con.states, e[1])
    \/ Class(e) = "call" /\ HasBlock(con.calls, e[1])
    \/ Class(e) = "part" /\ HasPart(con.calls, e)

TokensFormed(tokens, class) ==
    /\ \A i \in DOMAIN tokens : tokens[i] \in Wire /\ Class(tokens[i]) = class
    /\ \A i, j \in DOMAIN tokens : i < j => Before(tokens[i], tokens[j])

PieceFormed(piece, kind) ==
    /\ piece.id \in DOMAIN reply /\ reply[piece.id].kind = kind
    /\ \A k \in DOMAIN piece.tokens : piece.tokens[k] = <<piece.id, k>>
    /\ Len(piece.tokens) <= reply[piece.id].size
    /\ IF adapter = "chat" THEN piece.tokens # <<>> ELSE Len(piece.tokens) = reply[piece.id].size

PiecesFormed(pieces, kind) ==
    /\ \A i \in DOMAIN pieces : PieceFormed(pieces[i], kind)
    /\ \A i, j \in DOMAIN pieces : i < j => pieces[i].id < pieces[j].id

\* What the consumer has so far is in order, though not complete.
Formed(con) ==
    /\ TokensFormed(con.text, "text") /\ TokensFormed(con.reasoning, "thought")
    /\ PiecesFormed(con.calls, "call") /\ PiecesFormed(con.states, "thinking")
    /\ adapter = "chat" => con.states = <<>>

\* Every event that was read is with the consumer or on its way, in order.
Held(con, flow, e) ==
    /\ Formed(con)
    /\ \A f \in Wire : Has(con, f) => ~Before(e, f)
    /\ \A i \in DOMAIN flow : \/ flow[i].error
                              \/ /\ Source(flow[i]) \in Wire /\ Carries(Source(flow[i]), flow[i])
                                 /\ ~flow[i].error /\ ~Before(e, Source(flow[i]))
    /\ \A i, j \in DOMAIN flow :
          i < j => ~Terminal(flow[i]) /\ (flow[j].error \/ Before(Source(flow[i]), Source(flow[j])))
    /\ \A i \in DOMAIN flow, f \in Wire : Has(con, f) => flow[i].error \/ Before(f, Source(flow[i]))
    /\ \A f \in Wire : ~Before(e, f) /\ Class(f) # "nothing" =>
          Has(con, f) \/ \E i \in DOMAIN flow : ~flow[i].error /\ Source(flow[i]) = f

\* What is on its way to the consumer.
Given == IF relay.pc = "give" THEN <<relay.chunk>> ELSE <<>>
Sending == IF producer.pc = "emit" THEN <<producer.chunk>> ELSE <<>>
Flow == Given \o channel \o Sending

\* The tokens of block b that were read.
ReadOf(b) ==
    IF b < read[1] THEN reply[b].size
    ELSE IF b # read[1] THEN 0
    ELSE IF Ends(read) THEN reply[b].size ELSE read[2]

AccInv == adapter = "anthropic" => \A b \in DOMAIN reply : acc[b] = [i \in 1..ReadOf(b) |-> <<b, i>>]

StartInv ==
    /\ producer.pc \in {"connecting", "headers"} <=> consumer.pc = "waiting"
    /\ consumer.pc = "waiting" =>
          /\ read = <<0, 0>> /\ channel = <<>> /\ ~closed /\ relay.pc = "off"
          /\ consumer.text = <<>> /\ consumer.reasoning = <<>>
          /\ consumer.states = <<>> /\ consumer.calls = <<>>
    /\ ~logged => relay.pc = "off"
    /\ closed => producer.pc = "ended"

Live == consumer.pc = "select" /\ ~ctxDone

\* The adapter only closes its channel after a chunk that ends the reply.
EndInv == Live =>
    /\ relay.pc # "ended"
    /\ producer.pc = "read" => \A i \in DOMAIN Flow : ~Terminal(Flow[i])
    /\ producer.pc \in {"closing", "ended"} => Flow # <<>> /\ Terminal(Flow[Len(Flow)])

HeldInv == Live => Held(consumer, Flow, read)

StreamInv == StreamTypeOK /\ StartInv /\ AccInv /\ EndInv /\ HeldInv /\ ReplyIsWhole

-----------------------------------------------------------------------------
(* Events and their chunks *)

LEMMA ReplyFacts ==
  ASSUME StreamTypeOK
  PROVE  /\ adapter \in {"anthropic", "openai", "chat"}
         /\ reply \in Seq([kind : Kinds, size : Nat]) /\ DOMAIN reply = 1..Len(reply) /\ Len(reply) \in Nat
         /\ \A b \in DOMAIN reply :
               /\ reply[b].kind \in Kinds /\ reply[b].size \in Nat /\ b \in Nat /\ None # b
               /\ adapter = "chat" /\ reply[b].kind = "call" => reply[b].size > 0
<1>1. adapter \in Adapters /\ reply \in Replies
  BY DEF StreamTypeOK
<1>2. reply \in Seq([kind : Kinds, size : Nat])
  BY <1>1, StreamAssumption
<1>3. DOMAIN reply = 1..Len(reply) /\ Len(reply) \in Nat
  BY <1>2
<1>4. \A b \in DOMAIN reply : reply[b] \in [kind : Kinds, size : Nat]
  <2> DEFINE R == [kind : Kinds, size : Nat]
  <2>1. reply \in Seq(R)
    BY <1>2
  <2> HIDE DEF R
  <2>2. \A b \in DOMAIN reply : reply[b] \in R
    BY <2>1
  <2> QED
    BY <2>2 DEF R
<1>8. \A b \in DOMAIN reply : b \in Nat
  BY <1>3
<1>9. \A b \in DOMAIN reply : None # b
  BY <1>8, NoneAssumption
<1>5. \A b \in DOMAIN reply : adapter = "chat" /\ reply[b].kind = "call" => reply[b].size > 0
  BY <1>1, StreamAssumption
<1>6. adapter \in {"anthropic", "openai", "chat"}
  BY <1>1, StreamAssumption
<1>7. \A b \in DOMAIN reply : reply[b].kind \in Kinds /\ reply[b].size \in Nat
  BY <1>4
<1> HIDE DEF Kinds
<1> QED
  BY <1>2, <1>3, <1>5, <1>6, <1>7, <1>8, <1>9

LEMMA WireIs ==
  ASSUME NEW e
  PROVE  e \in Wire <=> e = Final \/ \E b \in DOMAIN reply : e \in {b} \X EventsOf(b)
<1> DEFINE U == UNION {{b} \X EventsOf(b) : b \in DOMAIN reply}
<1>1. e \in U <=> \E b \in DOMAIN reply : e \in {b} \X EventsOf(b)
  BY Zenon
<1>2. Wire = {Final} \cup U
  BY Zenon DEF Wire
<1> HIDE DEF U
<1> QED
  BY <1>1, <1>2

LEMMA WireFacts ==
  ASSUME StreamTypeOK, NEW e \in Wire
  PROVE  /\ e \in Nat \X Nat /\ e = <<e[1], e[2]>> /\ e[1] > 0
         /\ e = Final <=> e[1] = Len(reply) + 1
         /\ e # Final => e[1] \in DOMAIN reply /\ e[2] \in EventsOf(e[1]) /\ e[2] \in 0..EndOf(e[1])
<1> USE ReplyFacts
<1>1. CASE e = Final
  BY <1>1 DEF Final
<1>2. CASE e # Final
  <2>1. PICK b \in DOMAIN reply : e \in {b} \X EventsOf(b)
    BY <1>2, WireIs
  <2>2. EventsOf(b) \subseteq 0..EndOf(b) /\ EndOf(b) \in Nat
    BY DEF EventsOf, EndOf, Kinds
  <2> QED
    BY <1>2, <2>1, <2>2 DEF Final
<1> QED
  BY <1>1, <1>2

LEMMA FinalInWire == Final \in Wire
BY WireIs

LEMMA InWire ==
  ASSUME StreamTypeOK, NEW b \in DOMAIN reply, NEW i \in EventsOf(b)
  PROVE  <<b, i>> \in Wire /\ <<b, i>> # Final
<1>1. <<b, i>> \in {b} \X EventsOf(b)
  OBVIOUS
<1>2. <<b, i>> # Final
  BY ReplyFacts DEF Final
<1> QED
  BY <1>1, <1>2, WireIs

\* The events of a delta are there, but for a call of the Responses API.
LEMMA DeltaInWire ==
  ASSUME StreamTypeOK, NEW b \in DOMAIN reply, NEW i \in 1..reply[b].size,
         reply[b].kind # "call" \/ adapter # "openai"
  PROVE  <<b, i>> \in Wire /\ <<b, i>> # Final /\ IsDelta(<<b, i>>)
<1>1. i \in EventsOf(b)
  BY ReplyFacts DEF EventsOf, EndOf, Kinds
<1> QED
  BY <1>1, InWire DEF IsDelta

LEMMA EndInWire ==
  ASSUME StreamTypeOK, NEW b \in DOMAIN reply, adapter # "chat", reply[b].kind # "text"
  PROVE  <<b, EndOf(b)>> \in Wire /\ <<b, EndOf(b)>> # Final /\ Ends(<<b, EndOf(b)>>) /\ ~IsDelta(<<b, EndOf(b)>>)
<1>1. EndOf(b) \in EventsOf(b) /\ EndOf(b) \notin 1..reply[b].size
  BY ReplyFacts DEF EventsOf, EndOf, Kinds
<1> QED
  BY <1>1, InWire DEF IsDelta, Ends

LEMMA Order ==
  ASSUME NEW e \in Nat \X Nat, NEW f \in Nat \X Nat
  PROVE  /\ ~Before(e, e)
         /\ Before(e, f) \/ Before(f, e) \/ e = f
         /\ ~(Before(e, f) /\ Before(f, e))
         /\ \A g \in Nat \X Nat : Before(e, f) /\ Before(f, g) => Before(e, g)
BY DEF Before

LEMMA ClassFacts ==
  ASSUME StreamTypeOK, NEW e \in Wire
  PROVE  /\ Class(e) = "final" <=> e = Final
         /\ Class(e) = "text" => e # Final /\ IsDelta(e) /\ reply[e[1]].kind = "text"
         /\ Class(e) = "thought" => e # Final /\ IsDelta(e) /\ reply[e[1]].kind = "thinking"
         /\ Class(e) = "part" => e # Final /\ IsDelta(e) /\ reply[e[1]].kind = "call" /\ adapter = "chat"
         /\ Class(e) = "state" => e # Final /\ Ends(e) /\ reply[e[1]].kind = "thinking" /\ adapter # "chat"
         /\ Class(e) = "call" => e # Final /\ Ends(e) /\ reply[e[1]].kind = "call" /\ adapter # "chat"
<1>1. e # Final => reply[e[1]].kind \in {"text", "thinking", "call"} /\ reply[e[1]].size \in Nat
  BY WireFacts, ReplyFacts DEF Kinds
<1>2. ASSUME e # Final, adapter = "chat" PROVE IsDelta(e)
  BY <1>2, WireFacts DEF EventsOf, IsDelta
<1> QED
  BY <1>1, <1>2 DEF Class

LEMMA DeltaClass ==
  ASSUME StreamTypeOK, NEW e \in Wire, e # Final, IsDelta(e)
  PROVE  /\ reply[e[1]].kind = "text" => Class(e) = "text"
         /\ reply[e[1]].kind = "thinking" => Class(e) = "thought"
         /\ reply[e[1]].kind = "call" /\ adapter = "chat" => Class(e) = "part"
         /\ reply[e[1]].kind = "call" /\ adapter # "chat" => Class(e) = "nothing"
<1>1. ~Ends(e)
  BY WireFacts, ReplyFacts DEF IsDelta, Ends, EndOf
<1> QED
  BY <1>1 DEF Class

LEMMA EndClass ==
  ASSUME StreamTypeOK, NEW e \in Wire, e # Final, Ends(e)
  PROVE  /\ reply[e[1]].kind = "text" => Class(e) = "nothing"
         /\ reply[e[1]].kind = "thinking" => Class(e) = "state"
         /\ reply[e[1]].kind = "call" => Class(e) = "call"
<1>1. ~IsDelta(e)
  BY WireFacts, ReplyFacts DEF IsDelta, Ends, EndOf
<1> QED
  BY <1>1 DEF Class

LEMMA ChunkFields ==
  /\ NoChunk.text = <<>> /\ NoChunk.reasoning = <<>> /\ NoChunk.state = None /\ NoChunk.call = None
  /\ ~NoChunk.done /\ ~NoChunk.error /\ NoChunk \in ChunkType
BY DEF NoChunk, ChunkType

LEMMA TokensSeq ==
  ASSUME StreamTypeOK, NEW b \in DOMAIN reply
  PROVE  /\ Tokens(b) \in Seq(Nat \X Nat) /\ Len(Tokens(b)) = reply[b].size
         /\ \A k \in DOMAIN Tokens(b) : Tokens(b)[k] = <<b, k>>
         /\ DOMAIN Tokens(b) = 1..reply[b].size
<1>1. reply[b].size \in Nat /\ b \in Nat
  BY ReplyFacts
<1>2. \A i \in 1..reply[b].size : <<b, i>> \in Nat \X Nat
  BY <1>1
<1> QED
  BY <1>1, <1>2 DEF Tokens

LEMMA PieceIs ==
  ASSUME NEW id \in Nat \cup {None}, NEW tokens \in Seq(Nat \X Nat)
  PROVE  /\ Piece(id, tokens) \in Pieces /\ Piece(id, tokens) # None
         /\ Piece(id, tokens).id = id /\ Piece(id, tokens).tokens = tokens
BY NoneAssumption DEF Piece, Pieces

\* A chunk tells its event.
LEMMA SourceOf ==
  ASSUME StreamTypeOK, NEW e \in Wire, NEW c, Carries(e, c)
  PROVE  /\ Source(c) = e /\ c \in ChunkType /\ c # None /\ ~c.error
         /\ c.done <=> e = Final
         /\ Terminal(c) <=> e = Final
<1> USE ChunkFields
<1>0. e \in Nat \X Nat /\ e = <<e[1], e[2]>> /\ (e # Final => e[1] \in DOMAIN reply /\ e[1] \in Nat)
  BY WireFacts
<1>7. <<e>> \in Seq(Nat \X Nat) /\ <<e>> # <<>> /\ <<e>>[1] = e
  BY <1>0
<1>8. c \in ChunkType => c # None
  BY NoneAssumption
<1>1. CASE Class(e) = "final" /\ c = [NoChunk EXCEPT !.done = TRUE]
  <2>1. c \in ChunkType /\ c.done /\ ~c.error
    BY <1>1 DEF ChunkType, NoChunk
  <2> QED
    BY <1>1, <1>8, <2>1, ClassFacts DEF Source, Terminal
<1>2. CASE Class(e) = "text" /\ c = [NoChunk EXCEPT !.text = <<e>>]
  <2>1. c \in ChunkType /\ ~c.done /\ ~c.error /\ c.text = <<e>>
    BY <1>2, <1>7 DEF ChunkType, NoChunk
  <2> QED
    BY <1>2, <1>7, <1>8, <2>1, ClassFacts DEF Source, Terminal
<1>3. CASE Class(e) = "thought" /\ c = [NoChunk EXCEPT !.reasoning = <<e>>]
  <2>1. c \in ChunkType /\ ~c.done /\ ~c.error /\ c.text = <<>> /\ c.reasoning = <<e>>
    BY <1>3, <1>7 DEF ChunkType, NoChunk
  <2> QED
    BY <1>3, <1>7, <1>8, <2>1, ClassFacts DEF Source, Terminal
<1>4. CASE Class(e) = "state" /\ c = [NoChunk EXCEPT !.state = Piece(e[1], Tokens(e[1]))]
  <2>1. e # Final /\ Ends(e)
    BY <1>4, ClassFacts
  <2>2. /\ Piece(e[1], Tokens(e[1])) \in Pieces /\ Piece(e[1], Tokens(e[1])) # None
        /\ Piece(e[1], Tokens(e[1])).id = e[1]
    BY <1>0, <2>1, TokensSeq, PieceIs
  <2>3. /\ c \in ChunkType /\ ~c.done /\ ~c.error /\ c.text = <<>> /\ c.reasoning = <<>>
        /\ c.state = Piece(e[1], Tokens(e[1]))
    BY <1>4, <2>2 DEF ChunkType, NoChunk
  <2>4. Source(c) = <<e[1], EndOf(e[1])>>
    BY <2>2, <2>3 DEF Source
  <2> QED
    BY <1>0, <1>8, <2>1, <2>3, <2>4 DEF Terminal, Ends
<1>5. CASE Class(e) = "call" /\ c = [NoChunk EXCEPT !.call = Piece(e[1], Tokens(e[1]))]
  <2>1. e # Final /\ Ends(e) /\ adapter # "chat"
    BY <1>5, ClassFacts
  <2>2. /\ Piece(e[1], Tokens(e[1])) \in Pieces /\ Piece(e[1], Tokens(e[1])).id = e[1]
    BY <1>0, <2>1, TokensSeq, PieceIs
  <2>3. /\ c \in ChunkType /\ ~c.done /\ ~c.error /\ c.text = <<>> /\ c.reasoning = <<>>
        /\ c.state = None /\ c.call = Piece(e[1], Tokens(e[1]))
    BY <1>5, <2>2 DEF ChunkType, NoChunk
  <2>4. Source(c) = <<e[1], EndOf(e[1])>>
    BY <2>1, <2>2, <2>3 DEF Source
  <2> QED
    BY <1>0, <1>8, <2>1, <2>3, <2>4 DEF Terminal, Ends
<1>6. CASE /\ Class(e) = "part"
           /\ \E id \in {e[1], None} : (e[2] = 1 => id = e[1]) /\ c = [NoChunk EXCEPT !.call = Piece(id, <<e>>)]
  <2>1. e # Final /\ adapter = "chat"
    BY <1>6, ClassFacts
  <2>2. PICK id \in {e[1], None} : c = [NoChunk EXCEPT !.call = Piece(id, <<e>>)]
    BY <1>6
  <2>6. id \in Nat \cup {None}
    BY <1>0, <2>1
  <2>3. Piece(id, <<e>>) \in Pieces /\ Piece(id, <<e>>).tokens = <<e>>
    BY <1>7, <2>6, PieceIs
  <2>4. /\ c \in ChunkType /\ ~c.done /\ ~c.error /\ c.text = <<>> /\ c.reasoning = <<>>
        /\ c.state = None /\ c.call = Piece(id, <<e>>)
    BY <2>2, <2>3 DEF ChunkType, NoChunk
  <2>5. Source(c) = e
    BY <1>7, <2>1, <2>3, <2>4 DEF Source
  <2> QED
    BY <1>8, <2>1, <2>4, <2>5 DEF Terminal
<1> QED
  BY <1>1, <1>2, <1>3, <1>4, <1>5, <1>6 DEF Carries

-----------------------------------------------------------------------------
(* What the adapter has accumulated *)

LEMMA ReadTyped ==
  ASSUME StreamTypeOK
  PROVE  /\ read \in Nat \X Nat /\ read = <<read[1], read[2]>>
         /\ read # Final /\ read[1] > 0 => read[1] \in DOMAIN reply /\ read[2] \in 0..EndOf(read[1])
BY WireFacts DEF StreamTypeOK

\* What is before the next event was read.
LEMMA Reached ==
  ASSUME StreamTypeOK, NEW e \in Wire, Follows(read, e), NEW f \in Wire, Before(f, e)
  PROVE  ~Before(read, f)
<1>1. e \in Nat \X Nat /\ f \in Nat \X Nat
  BY WireFacts
<1> QED
  BY <1>1, Order DEF Follows

\* Events of the Messages API: a block is followed from its start to its end.
LEMMA EveryEvent ==
  ASSUME StreamTypeOK, adapter = "anthropic", NEW b \in DOMAIN reply, NEW i \in 0..EndOf(b)
  PROVE  <<b, i>> \in Wire /\ <<b, i>> # Final
BY InWire DEF EventsOf

LEMMA PreviousBlocks ==
  ASSUME StreamTypeOK, adapter = "anthropic", NEW e \in Wire, Follows(read, e), NEW b \in DOMAIN reply, b < e[1]
  PROVE  ReadOf(b) = reply[b].size
<1>1. b \in Nat /\ reply[b].size \in Nat /\ EndOf(b) \in 0..EndOf(b)
  BY ReplyFacts DEF EndOf
<1>2. <<b, EndOf(b)>> \in Wire /\ Before(<<b, EndOf(b)>>, e)
  BY <1>1, EveryEvent DEF Before
<1>3. ~Before(read, <<b, EndOf(b)>>)
  BY <1>2, Reached
<1>4. b < read[1] \/ (b = read[1] /\ read[2] >= EndOf(b))
  BY <1>1, <1>3, ReadTyped DEF Before, EndOf
<1>5. b = read[1] => Ends(read)
  <2> SUFFICES ASSUME b = read[1] PROVE Ends(read)
    OBVIOUS
  <2>1. read[2] \in 0..EndOf(b)
    BY <1>1, ReadTyped, ReplyFacts DEF Final
  <2> QED
    BY <1>1, <1>4, <2>1 DEF Ends, EndOf
<1> QED
  BY <1>1, <1>4, <1>5, ReadTyped DEF ReadOf

LEMMA SameBlock ==
  ASSUME StreamTypeOK, adapter = "anthropic", NEW e \in Wire, Follows(read, e), e # Final, e[2] > 0
  PROVE  read = <<e[1], e[2] - 1>> /\ ReadOf(e[1]) = e[2] - 1
<1>1. e[1] \in DOMAIN reply /\ e[2] \in 0..EndOf(e[1]) /\ e \in Nat \X Nat /\ reply[e[1]].size \in Nat
  BY WireFacts, ReplyFacts
<1>2. e[2] - 1 \in 0..EndOf(e[1]) /\ e[2] - 1 \in Nat /\ e[1] \in Nat
  BY <1>1 DEF EndOf
<1>3. <<e[1], e[2] - 1>> \in Wire /\ Before(<<e[1], e[2] - 1>>, e)
  BY <1>1, <1>2, EveryEvent DEF Before
<1>4. ~Before(read, <<e[1], e[2] - 1>>) /\ Before(read, e)
  BY <1>3, Reached DEF Follows
<1>5. read = <<e[1], e[2] - 1>>
  BY <1>1, <1>2, <1>4, ReadTyped DEF Before
<1> QED
  BY <1>1, <1>2, <1>5 DEF ReadOf, Ends, EndOf

LEMMA AccRead ==
  ASSUME StreamTypeOK, StreamTypeOK', AccInv, NEW e \in Wire, Follows(read, e), read' = e, acc' = Accumulated(e),
         adapter' = adapter, reply' = reply
  PROVE  AccInv'
<1> SUFFICES ASSUME adapter = "anthropic", NEW b \in DOMAIN reply
             PROVE  acc'[b] = [i \in 1..ReadOf(b)' |-> <<b, i>>]
  BY DEF AccInv
<1>0. /\ b \in Nat /\ reply[b].size \in Nat /\ acc[b] = [i \in 1..ReadOf(b) |-> <<b, i>>]
      /\ e \in Nat \X Nat /\ acc \in [DOMAIN reply -> Seq(Nat \X Nat)]
  BY ReplyFacts, WireFacts DEF AccInv, StreamTypeOK
<1>1. ReadOf(b)' = IF b < e[1] THEN reply[b].size ELSE IF b # e[1] THEN 0
                   ELSE IF Ends(e) THEN reply[b].size ELSE e[2]
  BY DEF ReadOf, Ends, EndOf
<1>6. acc'[b] = IF e # Final /\ IsDelta(e) /\ e[1] = b THEN Append(acc[b], e) ELSE acc[b]
  <2>1. CASE e # Final /\ IsDelta(e)
    <3>1. acc' = [acc EXCEPT ![e[1]] = Append(@, e)]
      BY <2>1 DEF Accumulated
    <3> QED
      BY <1>0, <2>1, <3>1
  <2>2. CASE ~(e # Final /\ IsDelta(e))
    BY <2>2 DEF Accumulated
  <2> QED
    BY <2>1, <2>2
<1>2. CASE b < e[1]
  <2>1. ReadOf(b) = reply[b].size /\ ReadOf(b)' = reply[b].size
    BY <1>1, <1>2, PreviousBlocks
  <2>2. acc'[b] = acc[b]
    BY <1>0, <1>2, <1>6
  <2> QED
    BY <1>0, <2>1, <2>2
<1>3. CASE b > e[1]
  <2>1. b > read[1]
    BY <1>0, <1>3, ReadTyped DEF Follows, Before
  <2>2. ReadOf(b) = 0 /\ ReadOf(b)' = 0
    BY <1>0, <1>1, <1>3, <2>1, ReadTyped DEF ReadOf
  <2>3. acc'[b] = acc[b]
    BY <1>0, <1>3, <1>6
  <2> QED
    BY <1>0, <2>2, <2>3
<1>4. CASE b = e[1] /\ e[2] = 0
  <2>1. b > read[1]
    BY <1>0, <1>4, ReadTyped DEF Follows, Before
  <2>2. ReadOf(b) = 0 /\ ReadOf(b)' = 0
    BY <1>0, <1>1, <1>4, <2>1, ReadTyped DEF ReadOf, Ends, EndOf
  <2>3. acc'[b] = acc[b]
    BY <1>0, <1>4, <1>6 DEF IsDelta
  <2> QED
    BY <1>0, <2>2, <2>3
<1>5. CASE b = e[1] /\ e[2] # 0
  <2>1. e # Final /\ e[2] > 0 /\ e[2] \in 0..EndOf(b)
    BY <1>0, <1>5, WireFacts, ReplyFacts
  <2>2. ReadOf(b) = e[2] - 1
    BY <1>5, <2>1, SameBlock
  <2>3. CASE Ends(e)
    <3>1. ReadOf(b)' = ReadOf(b)
      BY <1>0, <1>1, <1>5, <2>2, <2>3 DEF Ends, EndOf
    <3>3. ~IsDelta(e)
      BY <1>0, <1>5, <2>3 DEF IsDelta, Ends, EndOf
    <3>2. acc'[b] = acc[b]
      BY <1>6, <3>3
    <3> QED
      BY <1>0, <3>1, <3>2
  <2>4. CASE ~Ends(e)
    <3>1. IsDelta(e) /\ ReadOf(b)' = e[2] /\ e[2] \in Nat
      BY <1>0, <1>1, <1>5, <2>1, <2>4 DEF IsDelta, Ends, EndOf
    <3>2. acc'[b] = Append(acc[b], e)
      BY <1>0, <1>5, <1>6, <2>1, <3>1
    <3>3. e = <<b, e[2]>>
      BY <1>0, <1>5
    <3>4. Append(acc[b], e) = [i \in 1..e[2] |-> <<b, i>>]
      BY <1>0, <2>1, <2>2, <3>1, <3>3
    <3> QED
      BY <3>1, <3>2, <3>4
  <2> QED
    BY <2>3, <2>4
<1> QED
  BY <1>0, <1>2, <1>3, <1>4, <1>5

\* The chunks of the next event carry it.
LEMMA ChunksCarry ==
  ASSUME StreamTypeOK, AccInv, NEW e \in Wire, Follows(read, e), NEW c \in Chunks(e)
  PROVE  \/ c = None /\ Class(e) = "nothing"
         \/ Carries(e, c) /\ c \in ChunkType /\ c # None
<1>1. Carries(e, c) => c \in ChunkType /\ c # None
  BY SourceOf
<1>2. CASE e = Final
  BY <1>1, <1>2, ClassFacts DEF Chunks, Carries
<1>3. CASE e # Final
  <2>0. /\ e[1] \in DOMAIN reply /\ e[2] \in EventsOf(e[1]) /\ reply[e[1]].kind \in Kinds
        /\ reply[e[1]].size \in Nat /\ adapter \in {"anthropic", "openai", "chat"}
    BY <1>3, WireFacts, ReplyFacts
  <2>1. CASE adapter = "anthropic"
    <3>1. c \in AnthropicChunks(e)
      BY <1>3, <2>1 DEF Chunks
    <3>2. CASE IsDelta(e)
      BY <1>1, <1>3, <2>0, <2>1, <3>1, <3>2, DeltaClass DEF AnthropicChunks, DeltaChunk, Carries, Kinds, IsDelta, Ends, EndOf
    <3>3. CASE Ends(e)
      <4>1. e[2] > 0 /\ e[2] - 1 = reply[e[1]].size
        BY <2>0, <3>3 DEF Ends, EndOf
      <4>2. acc[e[1]] = Tokens(e[1])
        BY <1>3, <2>0, <2>1, <4>1, SameBlock DEF AccInv, Tokens
      <4>3. ~IsDelta(e)
        BY <2>0, <4>1 DEF IsDelta
      <4> QED
        BY <1>1, <1>3, <2>0, <3>1, <3>3, <4>2, <4>3, EndClass DEF AnthropicChunks, Carries, Kinds
    <3>4. CASE ~IsDelta(e) /\ ~Ends(e)
      BY <1>3, <3>1, <3>4 DEF AnthropicChunks, Class
    <3> QED
      BY <3>2, <3>3, <3>4
  <2>2. CASE adapter = "openai"
    <3>1. c \in OpenAIChunks(e)
      BY <1>3, <2>2 DEF Chunks
    <3>2. CASE IsDelta(e)
      <4>1. reply[e[1]].kind # "call"
        BY <2>0, <2>2, <3>2 DEF EventsOf, IsDelta, EndOf
      <4> QED
        BY <1>1, <1>3, <2>0, <3>1, <3>2, <4>1, DeltaClass DEF OpenAIChunks, DeltaChunk, Carries, Kinds, IsDelta, Ends, EndOf
    <3>3. CASE ~IsDelta(e)
      <4>1. Ends(e) /\ reply[e[1]].kind # "text"
        BY <2>0, <2>2, <3>3 DEF EventsOf, IsDelta, Ends, EndOf, Kinds
      <4> QED
        BY <1>1, <1>3, <2>0, <3>1, <3>3, <4>1, EndClass DEF OpenAIChunks, Carries, Kinds
    <3> QED
      BY <3>2, <3>3
  <2>3. CASE adapter = "chat"
    <3>1. c \in ChatChunks(e) /\ IsDelta(e)
      BY <1>3, <2>0, <2>3 DEF Chunks, EventsOf, IsDelta
    <3>2. CASE reply[e[1]].kind = "call"
      <4>1. \E id \in {e[1], None} : (e[2] = 1 => id = e[1]) /\ c = [NoChunk EXCEPT !.call = Piece(id, <<e>>)]
        BY <3>1, <3>2 DEF ChatChunks
      <4> QED
        BY <1>1, <1>3, <2>3, <3>1, <3>2, <4>1, DeltaClass DEF Carries
    <3>3. CASE reply[e[1]].kind # "call"
      BY <1>1, <1>3, <2>0, <3>1, <3>3, DeltaClass DEF ChatChunks, DeltaChunk, Carries, Kinds
    <3> QED
      BY <3>2, <3>3
  <2> QED
    BY <2>0, <2>1, <2>2, <2>3
<1> QED
  BY <1>2, <1>3

-----------------------------------------------------------------------------
(* What the consumer has *)

ConsumerType ==
    [pc : {"waiting", "select", "ok", "error", "cancelled"}, text : Seq(Nat \X Nat), reasoning : Seq(Nat \X Nat),
     states : Seq(Pieces), calls : Seq(Pieces)]

LEMMA OneMore ==
  ASSUME NEW n \in Nat, NEW i \in 1..(n + 1)
  PROVE  i = n + 1 \/ i \in 1..n
OBVIOUS

LEMMA TokensAppend ==
  ASSUME StreamTypeOK, NEW class, NEW tokens \in Seq(Nat \X Nat), TokensFormed(tokens, class),
         NEW e \in Wire, Class(e) = class, \A i \in DOMAIN tokens : Before(tokens[i], e)
  PROVE  /\ TokensFormed(tokens \o <<e>>, class) /\ tokens \o <<e>> \in Seq(Nat \X Nat)
         /\ \A f : HasToken(tokens \o <<e>>, f) <=> HasToken(tokens, f) \/ f = e
<1> DEFINE new == tokens \o <<e>>
<1>0. e \in Nat \X Nat
  BY WireFacts
<1>1. /\ new \in Seq(Nat \X Nat) /\ Len(tokens) \in Nat /\ Len(new) = Len(tokens) + 1
      /\ DOMAIN tokens = 1..Len(tokens) /\ DOMAIN new = 1..(Len(tokens) + 1)
      /\ \A i \in 1..Len(tokens) : new[i] = tokens[i]
      /\ new[Len(tokens) + 1] = e
  BY <1>0
<1> HIDE DEF new
<1>2. TokensFormed(new, class)
  <2>1. ASSUME NEW i \in DOMAIN new PROVE new[i] \in Wire /\ Class(new[i]) = class
    <3>1. CASE i = Len(tokens) + 1
      BY <1>1, <3>1
    <3>2. CASE i \in 1..Len(tokens)
      BY <1>1, <3>2 DEF TokensFormed
    <3> QED
      BY <1>1, <2>1, <3>1, <3>2
  <2>2. ASSUME NEW i \in DOMAIN new, NEW j \in DOMAIN new, i < j PROVE Before(new[i], new[j])
    <3>4. i \in 1..(Len(tokens) + 1) /\ j \in 1..(Len(tokens) + 1)
      BY <1>1
    <3>5. i \in 1..Len(tokens)
      BY <1>1, <2>2, <3>4
    <3>1. i \in DOMAIN tokens /\ new[i] = tokens[i]
      BY <1>1, <3>5
    <3>2. CASE j = Len(tokens) + 1
      BY <1>1, <3>1, <3>2
    <3>3. CASE j \in DOMAIN tokens
      BY <1>1, <2>2, <3>1, <3>3 DEF TokensFormed
    <3> QED
      BY <1>1, <2>2, <3>2, <3>3
  <2> QED
    BY <2>1, <2>2 DEF TokensFormed
<1>3. ASSUME NEW f PROVE HasToken(new, f) <=> HasToken(tokens, f) \/ f = e
  <2>1. ASSUME NEW i \in DOMAIN new, new[i] = f PROVE HasToken(tokens, f) \/ f = e
    <3>1. CASE i = Len(tokens) + 1
      BY <1>1, <2>1, <3>1
    <3>2. CASE i # Len(tokens) + 1
      <4>1. i \in 1..(Len(tokens) + 1) /\ Len(tokens) \in Nat
        BY <1>1, <2>1
      <4>2. i \in 1..Len(tokens)
        BY <3>2, <4>1, OneMore
      <4>3. i \in DOMAIN tokens /\ tokens[i] = f
        BY <1>1, <2>1, <4>2
      <4> QED
        BY <4>3 DEF HasToken
    <3> QED
      BY <3>1, <3>2
  <2>2. ASSUME NEW i \in DOMAIN tokens, tokens[i] = f PROVE HasToken(new, f)
    <3>1. i \in DOMAIN new /\ new[i] = f
      BY <1>1, <2>2
    <3> QED
      BY <3>1 DEF HasToken
  <2>3. HasToken(new, e)
    <3>1. Len(tokens) + 1 \in DOMAIN new
      BY <1>1
    <3> QED
      BY <1>1, <3>1 DEF HasToken
  <2> QED
    BY <2>1, <2>2, <2>3 DEF HasToken
<1> QED
  BY <1>1, <1>2, <1>3 DEF new

LEMMA PiecesAppend ==
  ASSUME NEW kind, NEW pieces \in Seq(Pieces), PiecesFormed(pieces, kind),
         NEW p \in Pieces, PieceFormed(p, kind), \A i \in DOMAIN pieces : pieces[i].id < p.id
  PROVE  /\ PiecesFormed(Append(pieces, p), kind) /\ Append(pieces, p) \in Seq(Pieces)
         /\ \A b : HasBlock(Append(pieces, p), b) <=> HasBlock(pieces, b) \/ b = p.id
<1> DEFINE new == Append(pieces, p)
<1>1. /\ new \in Seq(Pieces) /\ Len(pieces) \in Nat
      /\ DOMAIN pieces = 1..Len(pieces) /\ DOMAIN new = 1..(Len(pieces) + 1)
      /\ \A i \in 1..Len(pieces) : new[i] = pieces[i]
      /\ new[Len(pieces) + 1] = p
  OBVIOUS
<1> HIDE DEF new
<1>2. PiecesFormed(new, kind)
  BY <1>1 DEF PiecesFormed
<1>3. ASSUME NEW b PROVE HasBlock(new, b) <=> HasBlock(pieces, b) \/ b = p.id
  <2>1. ASSUME NEW i \in DOMAIN new, new[i].id = b PROVE HasBlock(pieces, b) \/ b = p.id
    <3>1. i = Len(pieces) + 1 \/ (i \in DOMAIN pieces /\ new[i] = pieces[i])
      BY <1>1, <2>1
    <3> QED
      BY <1>1, <2>1, <3>1 DEF HasBlock
  <2>2. ASSUME NEW i \in DOMAIN pieces, pieces[i].id = b PROVE HasBlock(new, b)
    <3>1. i \in DOMAIN new /\ new[i].id = b
      BY <1>1, <2>2
    <3> QED
      BY <3>1 DEF HasBlock
  <2>3. HasBlock(new, p.id)
    <3>1. Len(pieces) + 1 \in DOMAIN new
      BY <1>1
    <3> QED
      BY <1>1, <3>1 DEF HasBlock
  <2> QED
    BY <2>1, <2>2, <2>3 DEF HasBlock
<1> QED
  BY <1>1, <1>2, <1>3 DEF new

LEMMA WholePiece ==
  ASSUME StreamTypeOK, NEW b \in DOMAIN reply, adapter # "chat"
  PROVE  /\ Piece(b, Tokens(b)) \in Pieces /\ PieceFormed(Piece(b, Tokens(b)), reply[b].kind)
         /\ Piece(b, Tokens(b)).id = b /\ Piece(b, Tokens(b)).tokens = Tokens(b)
<1>1. /\ b \in Nat /\ reply[b].size \in Nat /\ Tokens(b) \in Seq(Nat \X Nat) /\ Len(Tokens(b)) = reply[b].size
      /\ \A k \in DOMAIN Tokens(b) : Tokens(b)[k] = <<b, k>>
  BY ReplyFacts, TokensSeq
<1>2. Piece(b, Tokens(b)) \in Pieces /\ Piece(b, Tokens(b)).id = b /\ Piece(b, Tokens(b)).tokens = Tokens(b)
  BY <1>1, PieceIs
<1> QED
  BY <1>1, <1>2 DEF PieceFormed

\* The pieces of a kind have a block each.
LEMMA OnePiece ==
  ASSUME NEW kind, NEW pieces \in Seq(Pieces), PiecesFormed(pieces, kind), StreamTypeOK,
         NEW i \in DOMAIN pieces, NEW j \in DOMAIN pieces, pieces[i].id = pieces[j].id
  PROVE  i = j
<1>1. DOMAIN pieces = 1..Len(pieces) /\ Len(pieces) \in Nat /\ pieces[i].id \in Nat
  BY ReplyFacts DEF PiecesFormed, PieceFormed
<1> QED
  BY <1>1 DEF PiecesFormed

\* Delta delta carries event e, the next part of call k.
NextPart(calls, k, delta, e) ==
    /\ calls \in Seq(Pieces) /\ k \in DOMAIN calls /\ PiecesFormed(calls, "call") /\ adapter = "chat"
    /\ e \in Nat \X Nat /\ delta.tokens = <<e>>
    /\ e = <<calls[k].id, Len(calls[k].tokens) + 1>> /\ e[2] <= reply[calls[k].id].size

LEMMA ExtendedIs ==
  ASSUME StreamTypeOK, NEW calls, NEW k, NEW delta, NEW e, NextPart(calls, k, delta, e)
  PROVE  /\ Extended(calls, k, delta) \in Seq(Pieces) /\ PiecesFormed(Extended(calls, k, delta), "call")
         /\ DOMAIN Extended(calls, k, delta) = DOMAIN calls
         /\ \A i \in DOMAIN calls : Extended(calls, k, delta)[i].id = calls[i].id
         /\ \A i \in DOMAIN calls \ {k} : Extended(calls, k, delta)[i] = calls[i]
         /\ Len(Extended(calls, k, delta)[k].tokens) = Len(calls[k].tokens) + 1
<1> USE DEF NextPart
<1> DEFINE new == Extended(calls, k, delta)
           p == [calls[k] EXCEPT !.tokens = @ \o <<e>>]
           tokens == calls[k].tokens
<1>10. calls[k] \in Pieces
  OBVIOUS
<1>11. tokens \in Seq(Nat \X Nat)
  BY <1>10 DEF Pieces
<1>1. calls[k] \in Pieces /\ tokens \in Seq(Nat \X Nat) /\ Len(tokens) \in Nat
  BY <1>10, <1>11
<1>2. /\ tokens \o <<e>> \in Seq(Nat \X Nat) /\ Len(tokens \o <<e>>) = Len(tokens) + 1
      /\ DOMAIN tokens = 1..Len(tokens) /\ DOMAIN (tokens \o <<e>>) = 1..(Len(tokens) + 1)
      /\ \A i \in 1..Len(tokens) : (tokens \o <<e>>)[i] = tokens[i]
      /\ (tokens \o <<e>>)[Len(tokens) + 1] = e
  BY <1>1
<1>3. p \in Pieces /\ p.id = calls[k].id /\ p.tokens = tokens \o <<e>>
  BY <1>1, <1>2 DEF Pieces
<1>4. PieceFormed(calls[k], "call") /\ calls[k].id \in DOMAIN reply /\ reply[calls[k].id].size \in Nat
  BY ReplyFacts DEF PiecesFormed, PieceFormed
<1>5. PieceFormed(p, "call")
  <2> HIDE DEF p, tokens
  <2>1. \A i \in DOMAIN p.tokens : p.tokens[i] = <<p.id, i>>
    <3> SUFFICES ASSUME NEW i \in 1..(Len(tokens) + 1) PROVE (tokens \o <<e>>)[i] = <<calls[k].id, i>>
      BY <1>2, <1>3
    <3>1. CASE i = Len(tokens) + 1
      BY <1>2, <3>1 DEF tokens
    <3>2. CASE i \in 1..Len(tokens)
      BY <1>2, <1>4, <3>2 DEF PieceFormed, tokens
    <3>3. i = Len(tokens) + 1 \/ i \in 1..Len(tokens)
      BY <1>1, OneMore
    <3> QED
      BY <3>1, <3>2, <3>3
  <2>2. Len(p.tokens) <= reply[p.id].size /\ p.tokens # <<>>
    BY <1>1, <1>2, <1>3 DEF tokens
  <2> QED
    BY <1>3, <1>4, <2>1, <2>2 DEF PieceFormed
<1>6. new = [calls EXCEPT ![k] = p]
  BY DEF Extended
<1> HIDE DEF p, new
<1>7. /\ new \in Seq(Pieces) /\ DOMAIN new = DOMAIN calls /\ new[k] = p
      /\ \A i \in DOMAIN calls \ {k} : new[i] = calls[i]
  BY <1>3, <1>6
<1>8. \A i \in DOMAIN calls : new[i].id = calls[i].id
  BY <1>3, <1>7
<1>9. PiecesFormed(new, "call")
  BY <1>5, <1>7, <1>8 DEF PiecesFormed
<1> QED
  BY <1>2, <1>3, <1>7, <1>8, <1>9 DEF new

\* The consumer can take event e, since it has all before it and nothing after it.
Ready(e) ==
    /\ \A f \in Wire : Has(consumer, f) => Before(f, e)
    /\ Class(e) = "part" /\ e[2] > 1 => Has(consumer, <<e[1], e[2] - 1>>)

\* What the consumer has after that.
Took(new, e) ==
    /\ Formed(new)
    /\ \A f \in Wire : Has(new, f) <=> Has(consumer, f) \/ f = e

LEMMA ConsumerParts ==
  ASSUME StreamTypeOK
  PROVE  /\ consumer.text \in Seq(Nat \X Nat) /\ consumer.reasoning \in Seq(Nat \X Nat)
         /\ consumer.states \in Seq(Pieces) /\ consumer.calls \in Seq(Pieces)
         /\ consumer.text \o <<>> = consumer.text /\ consumer.reasoning \o <<>> = consumer.reasoning
BY DEF StreamTypeOK

LEMMA TakesText ==
  ASSUME StreamTypeOK, Formed(consumer), NEW e \in Wire, Ready(e), Class(e) = "text",
         NEW c, c = [NoChunk EXCEPT !.text = <<e>>]
  PROVE  Took(Consumed(c), e)
<1> DEFINE new == Consumed(c)
<1>1. /\ ~c.error /\ c.text = <<e>> /\ c.reasoning = <<>> /\ c.state = None /\ c.call = None
  BY ChunkFields DEF NoChunk
<1>2. /\ new.text = consumer.text \o <<e>> /\ new.reasoning = consumer.reasoning
      /\ new.states = consumer.states /\ new.calls = consumer.calls
  BY <1>1, ConsumerParts DEF Consumed
<1> HIDE DEF new
<1>3. \A i \in DOMAIN consumer.text : Before(consumer.text[i], e)
  BY DEF Formed, TokensFormed, Ready, Has, HasToken
<1>4. TokensFormed(new.text, "text") /\ \A f : HasToken(new.text, f) <=> HasToken(consumer.text, f) \/ f = e
  <2>1. TokensFormed(consumer.text, "text") /\ consumer.text \in Seq(Nat \X Nat)
    BY ConsumerParts DEF Formed
  <2> QED
    BY <1>2, <1>3, <2>1, TokensAppend
<1>5. Formed(new)
  BY <1>2, <1>4 DEF Formed
<1>6. \A f \in Wire : Has(new, f) <=> Has(consumer, f) \/ f = e
  BY <1>2, <1>4 DEF Has
<1> QED
  BY <1>5, <1>6 DEF Took, new

LEMMA TakesThought ==
  ASSUME StreamTypeOK, Formed(consumer), NEW e \in Wire, Ready(e), Class(e) = "thought",
         NEW c, c = [NoChunk EXCEPT !.reasoning = <<e>>]
  PROVE  Took(Consumed(c), e)
<1> DEFINE new == Consumed(c)
<1>1. /\ ~c.error /\ c.text = <<>> /\ c.reasoning = <<e>> /\ c.state = None /\ c.call = None
  BY ChunkFields DEF NoChunk
<1>2. /\ new.text = consumer.text /\ new.reasoning = consumer.reasoning \o <<e>>
      /\ new.states = consumer.states /\ new.calls = consumer.calls
  BY <1>1, ConsumerParts DEF Consumed
<1> HIDE DEF new
<1>3. \A i \in DOMAIN consumer.reasoning : Before(consumer.reasoning[i], e)
  BY DEF Formed, TokensFormed, Ready, Has, HasToken
<1>4. TokensFormed(new.reasoning, "thought") /\ \A f : HasToken(new.reasoning, f) <=> HasToken(consumer.reasoning, f) \/ f = e
  <2>1. TokensFormed(consumer.reasoning, "thought") /\ consumer.reasoning \in Seq(Nat \X Nat)
    BY ConsumerParts DEF Formed
  <2> QED
    BY <1>2, <1>3, <2>1, TokensAppend
<1>5. Formed(new)
  BY <1>2, <1>4 DEF Formed
<1>6. \A f \in Wire : Has(new, f) <=> Has(consumer, f) \/ f = e
  BY <1>2, <1>4 DEF Has
<1> QED
  BY <1>5, <1>6 DEF Took, new

\* A block that is sent at its end is behind those that the consumer has.
LEMMA BlockAfter ==
  ASSUME StreamTypeOK, Formed(consumer), NEW e \in Wire, Ready(e), Class(e) \in {"state", "call"}
  PROVE  /\ Class(e) = "state" => \A i \in DOMAIN consumer.states : consumer.states[i].id < e[1]
         /\ Class(e) = "call" => \A i \in DOMAIN consumer.calls : consumer.calls[i].id < e[1]
<1>1. e # Final /\ Ends(e) /\ adapter # "chat" /\ e[1] \in DOMAIN reply /\ e[1] \in Nat
  BY ClassFacts, WireFacts, ReplyFacts
<1>2. ASSUME NEW pieces, NEW kind, NEW i \in DOMAIN pieces, PiecesFormed(pieces, kind), kind # "text",
             Has(consumer, <<pieces[i].id, EndOf(pieces[i].id)>>)
      PROVE  pieces[i].id < e[1]
  <2>1. pieces[i].id \in DOMAIN reply /\ reply[pieces[i].id].kind = kind /\ pieces[i].id \in Nat
    BY <1>2, ReplyFacts DEF PiecesFormed, PieceFormed
  <2>2. <<pieces[i].id, EndOf(pieces[i].id)>> \in Wire
    BY <1>1, <1>2, <2>1, EndInWire
  <2>3. Before(<<pieces[i].id, EndOf(pieces[i].id)>>, e)
    BY <1>2, <2>2 DEF Ready
  <2> QED
    BY <1>1, <2>1, <2>3, ReplyFacts DEF Before, Ends, EndOf
<1>3. ASSUME NEW b \in DOMAIN reply, reply[b].kind # "text"
      PROVE  Class(<<b, EndOf(b)>>) = IF reply[b].kind = "thinking" THEN "state" ELSE "call"
  <2>1. <<b, EndOf(b)>> \in Wire /\ <<b, EndOf(b)>> # Final /\ Ends(<<b, EndOf(b)>>)
    BY <1>1, <1>3, EndInWire
  <2>2. reply[b].kind \in {"thinking", "call"}
    BY <1>3, ReplyFacts DEF Kinds
  <2> QED
    BY <2>1, <2>2, EndClass
<1>4. ASSUME NEW i \in DOMAIN consumer.states PROVE consumer.states[i].id < e[1]
  <2>1. consumer.states[i].id \in DOMAIN reply /\ reply[consumer.states[i].id].kind = "thinking"
    BY <1>4 DEF Formed, PiecesFormed, PieceFormed
  <2>2. Class(<<consumer.states[i].id, EndOf(consumer.states[i].id)>>) = "state"
    BY <1>3, <2>1
  <2>3. Has(consumer, <<consumer.states[i].id, EndOf(consumer.states[i].id)>>)
    BY <2>2 DEF Has, HasBlock
  <2> QED
    BY <1>2, <2>3 DEF Formed
<1>5. ASSUME NEW i \in DOMAIN consumer.calls PROVE consumer.calls[i].id < e[1]
  <2>1. consumer.calls[i].id \in DOMAIN reply /\ reply[consumer.calls[i].id].kind = "call"
    BY <1>5 DEF Formed, PiecesFormed, PieceFormed
  <2>2. Class(<<consumer.calls[i].id, EndOf(consumer.calls[i].id)>>) = "call"
    BY <1>3, <2>1
  <2>3. Has(consumer, <<consumer.calls[i].id, EndOf(consumer.calls[i].id)>>)
    BY <2>2 DEF Has, HasBlock
  <2> QED
    BY <1>2, <2>3 DEF Formed
<1> QED
  BY <1>4, <1>5

\* Events of the same class at the ends of blocks are of different blocks.
LEMMA SameEnd ==
  ASSUME StreamTypeOK, NEW e \in Wire, NEW f \in Wire, Class(e) = Class(f), Class(e) \in {"state", "call"}
  PROVE  f = e <=> f[1] = e[1]
<1>1. Ends(e) /\ Ends(f)
  BY ClassFacts
<1> QED
  BY <1>1, WireFacts DEF Ends

LEMMA TakesState ==
  ASSUME StreamTypeOK, Formed(consumer), NEW e \in Wire, Ready(e), Class(e) = "state",
         NEW c, c = [NoChunk EXCEPT !.state = Piece(e[1], Tokens(e[1]))]
  PROVE  Took(Consumed(c), e)
<1> DEFINE new == Consumed(c)
           p == Piece(e[1], Tokens(e[1]))
<1>0. e # Final /\ adapter # "chat" /\ e[1] \in DOMAIN reply /\ reply[e[1]].kind = "thinking"
  BY ClassFacts, WireFacts
<1>1. p \in Pieces /\ PieceFormed(p, "thinking") /\ p.id = e[1] /\ p # None
  BY <1>0, WholePiece, NoneAssumption
<1>2. /\ ~c.error /\ c.text = <<>> /\ c.reasoning = <<>> /\ c.state = p /\ c.call = None
  BY ChunkFields DEF NoChunk
<1>3. /\ new.text = consumer.text /\ new.reasoning = consumer.reasoning
      /\ new.states = Append(consumer.states, p) /\ new.calls = consumer.calls
  BY <1>1, <1>2, ConsumerParts DEF Consumed
<1> HIDE DEF new, p
<1>4. \A i \in DOMAIN consumer.states : consumer.states[i].id < p.id
  BY <1>1, BlockAfter
<1>5. PiecesFormed(new.states, "thinking") /\ \A b : HasBlock(new.states, b) <=> HasBlock(consumer.states, b) \/ b = p.id
  <2>1. PiecesFormed(consumer.states, "thinking") /\ consumer.states \in Seq(Pieces)
    BY ConsumerParts DEF Formed
  <2> QED
    BY <1>1, <1>3, <1>4, <2>1, PiecesAppend
<1>6. Formed(new)
  BY <1>0, <1>3, <1>5 DEF Formed
<1>7. \A b : HasBlock(new.states, b) <=> HasBlock(consumer.states, b) \/ b = e[1]
  BY <1>1, <1>5
<1>8. \A f \in Wire : Has(new, f) <=> Has(consumer, f) \/ f = e
  BY <1>3, <1>7, SameEnd DEF Has
<1> QED
  BY <1>6, <1>8 DEF Took, new

LEMMA TakesCall ==
  ASSUME StreamTypeOK, Formed(consumer), NEW e \in Wire, Ready(e), Class(e) = "call",
         NEW c, c = [NoChunk EXCEPT !.call = Piece(e[1], Tokens(e[1]))]
  PROVE  Took(Consumed(c), e)
<1> DEFINE new == Consumed(c)
           p == Piece(e[1], Tokens(e[1]))
<1>0. /\ e # Final /\ adapter # "chat" /\ e[1] \in DOMAIN reply /\ reply[e[1]].kind = "call"
      /\ e[1] # None /\ e[1] \in Nat
  BY ClassFacts, WireFacts, ReplyFacts
<1>1. p \in Pieces /\ PieceFormed(p, "call") /\ p.id = e[1] /\ p # None
  BY <1>0, WholePiece, NoneAssumption
<1>2. /\ ~c.error /\ c.text = <<>> /\ c.reasoning = <<>> /\ c.state = None /\ c.call = p
  BY ChunkFields DEF NoChunk
<1>3. /\ new.text = consumer.text /\ new.reasoning = consumer.reasoning
      /\ new.states = consumer.states /\ new.calls = Merged(consumer.calls, p)
  BY <1>1, <1>2, ConsumerParts DEF Consumed
<1> HIDE DEF new, p
<1>4. \A i \in DOMAIN consumer.calls : consumer.calls[i].id < p.id
  BY <1>1, BlockAfter
<1>9. \A i \in DOMAIN consumer.calls : consumer.calls[i].id # p.id
  BY <1>0, <1>1, <1>4
<1>10. new.calls = Append(consumer.calls, p)
  BY <1>0, <1>1, <1>3, <1>9 DEF Merged
<1>5. PiecesFormed(new.calls, "call") /\ \A b : HasBlock(new.calls, b) <=> HasBlock(consumer.calls, b) \/ b = p.id
  <2>1. PiecesFormed(consumer.calls, "call") /\ consumer.calls \in Seq(Pieces)
    BY ConsumerParts DEF Formed
  <2> QED
    BY <1>1, <1>4, <1>10, <2>1, PiecesAppend
<1>6. Formed(new)
  BY <1>3, <1>5 DEF Formed
<1>7. \A b : HasBlock(new.calls, b) <=> HasBlock(consumer.calls, b) \/ b = e[1]
  BY <1>1, <1>5
<1>11. \A f \in Wire : Class(f) # "part"
  BY <1>0, ClassFacts
<1>8. \A f \in Wire : Has(new, f) <=> Has(consumer, f) \/ f = e
  BY <1>3, <1>7, <1>11, SameEnd DEF Has
<1> QED
  BY <1>6, <1>8 DEF Took, new

\* The delta of a call goes to the call it belongs to.
LEMMA PartsBefore ==
  ASSUME StreamTypeOK, Formed(consumer), NEW e \in Wire, Ready(e), Class(e) = "part",
         NEW i \in DOMAIN consumer.calls
  PROVE  /\ consumer.calls[i].id \in DOMAIN reply /\ consumer.calls[i].id \in Nat /\ consumer.calls[i].id # None
         /\ consumer.calls[i].id <= e[1]
         /\ consumer.calls[i].id = e[1] => Len(consumer.calls[i].tokens) < e[2]
<1> DEFINE b == consumer.calls[i].id
           n == Len(consumer.calls[i].tokens)
<1>0. e # Final /\ adapter = "chat" /\ IsDelta(e) /\ e \in Nat \X Nat
  BY ClassFacts, WireFacts
<1>1. PieceFormed(consumer.calls[i], "call") /\ consumer.calls[i] \in Pieces
  BY ConsumerParts DEF Formed, PiecesFormed
<1>2. b \in DOMAIN reply /\ reply[b].kind = "call" /\ reply[b].size \in Nat /\ n <= reply[b].size /\ b \in Nat /\ b # None
  BY <1>1, ReplyFacts DEF PieceFormed
<1>3. n \in Nat /\ n > 0
  BY <1>0, <1>1 DEF PieceFormed, Pieces
<1> HIDE DEF b, n
<1>4. n \in 1..reply[b].size
  BY <1>2, <1>3
<1>5. <<b, n>> \in Wire /\ Class(<<b, n>>) = "part"
  BY <1>0, <1>2, <1>4, DeltaInWire, DeltaClass
<1>6. HasPart(consumer.calls, <<b, n>>)
  BY <1>3 DEF HasPart, b, n
<1>7. Before(<<b, n>>, e)
  BY <1>5, <1>6 DEF Ready, Has
<1> QED
  BY <1>0, <1>2, <1>3, <1>7 DEF Before, b, n

LEMMA TakesFirstPart ==
  ASSUME StreamTypeOK, Formed(consumer), NEW e \in Wire, Ready(e), Class(e) = "part", e[2] = 1,
         NEW c, c = [NoChunk EXCEPT !.call = Piece(e[1], <<e>>)]
  PROVE  Took(Consumed(c), e)
<1> DEFINE new == Consumed(c)
           p == Piece(e[1], <<e>>)
<1>0. /\ e # Final /\ adapter = "chat" /\ IsDelta(e) /\ e[1] \in DOMAIN reply /\ reply[e[1]].kind = "call"
      /\ e[1] # None /\ e[1] \in Nat /\ reply[e[1]].size \in Nat
      /\ e \in Nat \X Nat /\ e = <<e[1], e[2]>>
  BY ClassFacts, WireFacts, ReplyFacts
<1>1. p \in Pieces /\ p.id = e[1] /\ p.tokens = <<e>> /\ p # None
  <2>1. <<e>> \in Seq(Nat \X Nat) /\ e[1] \in Nat \cup {None}
    BY <1>0
  <2> QED
    BY <2>1, PieceIs
<1>2. PieceFormed(p, "call")
  <2> HIDE DEF p
  <2>1. Len(p.tokens) = 1 /\ DOMAIN p.tokens = 1..1 /\ p.tokens[1] = e /\ p.tokens # <<>>
    BY <1>1
  <2>2. 1 <= reply[e[1]].size
    BY <1>0 DEF IsDelta
  <2> QED
    BY <1>0, <1>1, <2>1, <2>2 DEF PieceFormed
<1>3. /\ ~c.error /\ c.text = <<>> /\ c.reasoning = <<>> /\ c.state = None /\ c.call = p
  BY ChunkFields DEF NoChunk
<1>4. /\ new.text = consumer.text /\ new.reasoning = consumer.reasoning
      /\ new.states = consumer.states /\ new.calls = Merged(consumer.calls, p)
  BY <1>1, <1>3, ConsumerParts DEF Consumed
<1> HIDE DEF new, p
<1>5. \A i \in DOMAIN consumer.calls : consumer.calls[i].id # p.id /\ consumer.calls[i].id < p.id
  <2> SUFFICES ASSUME NEW i \in DOMAIN consumer.calls PROVE consumer.calls[i].id # e[1] /\ consumer.calls[i].id < e[1]
    BY <1>1
  <2>1. Len(consumer.calls[i].tokens) \in Nat /\ Len(consumer.calls[i].tokens) > 0
    <3>1. consumer.calls[i] \in Pieces /\ consumer.calls[i].tokens # <<>>
      BY <1>0, ConsumerParts DEF Formed, PiecesFormed, PieceFormed
    <3> QED
      BY <3>1 DEF Pieces
  <2> QED
    BY <1>0, <2>1, PartsBefore
<1>6. new.calls = Append(consumer.calls, p)
  BY <1>0, <1>1, <1>4, <1>5 DEF Merged
<1>7. PiecesFormed(new.calls, "call")
  <2>1. PiecesFormed(consumer.calls, "call") /\ consumer.calls \in Seq(Pieces)
    BY ConsumerParts DEF Formed
  <2> QED
    BY <1>1, <1>2, <1>5, <1>6, <2>1, PiecesAppend
<1>8. Formed(new)
  BY <1>4, <1>7 DEF Formed
<1>9. ASSUME NEW f \in Wire, Class(f) = "part"
      PROVE  HasPart(new.calls, f) <=> HasPart(consumer.calls, f) \/ f = e
  <2>0. f \in Nat \X Nat /\ f = <<f[1], f[2]>> /\ f[2] > 0
    BY <1>9, WireFacts, ClassFacts DEF IsDelta
  <2>1. /\ Len(consumer.calls) \in Nat /\ DOMAIN consumer.calls = 1..Len(consumer.calls)
        /\ DOMAIN new.calls = 1..(Len(consumer.calls) + 1)
        /\ \A i \in 1..Len(consumer.calls) : new.calls[i] = consumer.calls[i]
        /\ new.calls[Len(consumer.calls) + 1] = p
    BY <1>1, <1>6, ConsumerParts
  <2>2. Len(p.tokens) = 1
    BY <1>1
  <2>3. ASSUME NEW i \in DOMAIN new.calls, new.calls[i].id = f[1], f[2] <= Len(new.calls[i].tokens)
        PROVE  HasPart(consumer.calls, f) \/ f = e
    <3>1. CASE i = Len(consumer.calls) + 1
      <4>1. new.calls[i] = p
        BY <2>1, <3>1
      <4>2. f[1] = e[1] /\ f[2] <= 1
        BY <1>1, <2>2, <2>3, <4>1
      <4>3. f[2] = 1
        BY <2>0, <4>2
      <4> QED
        BY <1>0, <2>0, <4>2, <4>3
    <3>2. CASE i \in DOMAIN consumer.calls
      <4>1. new.calls[i] = consumer.calls[i]
        BY <2>1, <3>2
      <4> QED
        BY <2>3, <3>2, <4>1 DEF HasPart
    <3> QED
      BY <2>1, <2>3, <3>1, <3>2
  <2>4. ASSUME NEW i \in DOMAIN consumer.calls, consumer.calls[i].id = f[1], f[2] <= Len(consumer.calls[i].tokens)
        PROVE  HasPart(new.calls, f)
    <3>1. i \in DOMAIN new.calls /\ new.calls[i] = consumer.calls[i]
      BY <2>1, <2>4
    <3> QED
      BY <2>4, <3>1 DEF HasPart
  <2>5. HasPart(new.calls, e)
    <3>1. Len(consumer.calls) + 1 \in DOMAIN new.calls
      BY <2>1
    <3>2. /\ new.calls[Len(consumer.calls) + 1].id = e[1]
          /\ e[2] <= Len(new.calls[Len(consumer.calls) + 1].tokens)
      <4>1. new.calls[Len(consumer.calls) + 1] = p
        BY <2>1
      <4>2. p.id = e[1] /\ e[2] <= Len(p.tokens)
        BY <1>1, <2>2
      <4> QED
        BY <4>1, <4>2
    <3> QED
      BY <3>1, <3>2 DEF HasPart
  <2> QED
    BY <2>3, <2>4, <2>5 DEF HasPart
<1>10. \A f \in Wire : Class(f) # "call"
  BY <1>0, ClassFacts
<1>11. \A f \in Wire : Has(new, f) <=> Has(consumer, f) \/ f = e
  BY <1>4, <1>9, <1>10 DEF Has
<1> QED
  BY <1>8, <1>11 DEF Took, new

LEMMA TakesNextPart ==
  ASSUME StreamTypeOK, Formed(consumer), NEW e \in Wire, Ready(e), Class(e) = "part", e[2] # 1,
         NEW id \in {e[1], None}, NEW c, c = [NoChunk EXCEPT !.call = Piece(id, <<e>>)]
  PROVE  Took(Consumed(c), e)
<1> DEFINE new == Consumed(c)
           p == Piece(id, <<e>>)
           calls == consumer.calls
<1>0. /\ e # Final /\ adapter = "chat" /\ IsDelta(e) /\ e[1] \in DOMAIN reply /\ reply[e[1]].kind = "call"
      /\ e[1] # None /\ e[1] \in Nat /\ reply[e[1]].size \in Nat
      /\ e \in Nat \X Nat /\ e = <<e[1], e[2]>>
  BY ClassFacts, WireFacts, ReplyFacts
<1>1. p \in Pieces /\ p.id = id /\ p.tokens = <<e>> /\ p # None
  <2>1. <<e>> \in Seq(Nat \X Nat) /\ id \in Nat \cup {None}
    BY <1>0
  <2> QED
    BY <2>1, PieceIs
<1>2. /\ ~c.error /\ c.text = <<>> /\ c.reasoning = <<>> /\ c.state = None /\ c.call = p
  BY ChunkFields DEF NoChunk
<1>3. /\ new.text = consumer.text /\ new.reasoning = consumer.reasoning
      /\ new.states = consumer.states /\ new.calls = Merged(consumer.calls, p)
  BY <1>1, <1>2, ConsumerParts DEF Consumed
<1>4. calls \in Seq(Pieces) /\ PiecesFormed(calls, "call") /\ Len(calls) \in Nat /\ DOMAIN calls = 1..Len(calls)
  <2>1. calls \in Seq(Pieces)
    BY ConsumerParts
  <2>2. PiecesFormed(calls, "call")
    BY DEF Formed
  <2> HIDE DEF calls
  <2>3. Len(calls) \in Nat /\ DOMAIN calls = 1..Len(calls)
    BY <2>1
  <2> QED
    BY <2>1, <2>2, <2>3
<1> HIDE DEF new, p
<1>5. PICK k \in DOMAIN calls : calls[k].id = e[1] /\ Len(calls[k].tokens) >= e[2] - 1
  <2>1. e[2] > 1
    BY <1>0 DEF IsDelta
  <2>2. Has(consumer, <<e[1], e[2] - 1>>)
    BY <2>1 DEF Ready
  <2>3. <<e[1], e[2] - 1>> \in Wire /\ Class(<<e[1], e[2] - 1>>) = "part"
    <3>1. e[2] - 1 \in 1..reply[e[1]].size
      BY <1>0, <2>1 DEF IsDelta
    <3> QED
      BY <1>0, <3>1, DeltaInWire, DeltaClass
  <2> QED
    BY <1>0, <2>1, <2>2, <2>3 DEF Has, HasPart
<1>6. Len(calls[k].tokens) = e[2] - 1
  <2>1. Len(calls[k].tokens) < e[2]
    BY <1>5, PartsBefore
  <2>2. calls[k] \in Pieces /\ Len(calls[k].tokens) \in Nat
    <3>1. calls[k] \in Pieces
      BY <1>4
    <3> QED
      BY <3>1 DEF Pieces
  <2> QED
    BY <1>0, <1>5, <2>1, <2>2
<1>7. new.calls = Extended(calls, k, p)
  <2>1. CASE id = e[1]
    <3>1. \A j \in DOMAIN calls : calls[j].id = e[1] => j = k
      BY <1>4, <1>5, OnePiece
    <3>2. (CHOOSE i \in DOMAIN calls : calls[i].id = p.id) = k
      BY <1>1, <1>5, <2>1, <3>1
    <3> QED
      BY <1>0, <1>1, <1>3, <1>5, <2>1, <3>2 DEF Merged
  <2>2. CASE id = None
    <3>1. Len(calls) \in DOMAIN calls /\ calls # <<>>
      BY <1>4, <1>5
    <3>2. calls[Len(calls)].id <= e[1] /\ calls[Len(calls)].id \in Nat
      BY <3>1, PartsBefore
    <3>3. k = Len(calls)
      <4>1. k < Len(calls) => calls[k].id < calls[Len(calls)].id
        BY <1>4, <3>1 DEF PiecesFormed
      <4> QED
        BY <1>0, <1>4, <1>5, <3>2, <4>1
    <3> QED
      BY <1>1, <1>3, <2>2, <3>1, <3>3 DEF Merged
  <2> QED
    BY <2>1, <2>2
<1>8. /\ PiecesFormed(new.calls, "call") /\ DOMAIN new.calls = DOMAIN calls
      /\ \A i \in DOMAIN calls : new.calls[i].id = calls[i].id
      /\ \A i \in DOMAIN calls \ {k} : new.calls[i] = calls[i]
      /\ Len(new.calls[k].tokens) = e[2]
  <2>1. e = <<calls[k].id, Len(calls[k].tokens) + 1>> /\ e[2] <= reply[calls[k].id].size
    BY <1>0, <1>5, <1>6 DEF IsDelta
  <2>2. Len(calls[k].tokens) + 1 = e[2]
    BY <1>0, <1>6
  <2>0. p.tokens = <<e>> /\ e \in Nat \X Nat /\ adapter = "chat" /\ k \in DOMAIN calls
    BY <1>0, <1>1, <1>5
  <2>4. NextPart(calls, k, p, e)
    BY <1>4, <2>0, <2>1 DEF NextPart
  <2> HIDE DEF calls
  <2>3. /\ PiecesFormed(Extended(calls, k, p), "call") /\ DOMAIN Extended(calls, k, p) = DOMAIN calls
        /\ \A i \in DOMAIN calls : Extended(calls, k, p)[i].id = calls[i].id
        /\ \A i \in DOMAIN calls \ {k} : Extended(calls, k, p)[i] = calls[i]
        /\ Len(Extended(calls, k, p)[k].tokens) = Len(calls[k].tokens) + 1
    BY <2>4, ExtendedIs
  <2> QED
    BY <1>7, <2>2, <2>3
<1>9. Formed(new)
  BY <1>3, <1>8 DEF Formed
<1>10. ASSUME NEW f \in Wire, Class(f) = "part"
       PROVE  HasPart(new.calls, f) <=> HasPart(calls, f) \/ f = e
  <2> HIDE DEF calls
  <2>0. f \in Nat \X Nat /\ f = <<f[1], f[2]>>
    BY WireFacts
  <2>1. ASSUME NEW i \in DOMAIN calls, new.calls[i].id = f[1], f[2] <= Len(new.calls[i].tokens)
        PROVE  HasPart(calls, f) \/ f = e
    <3>1. CASE i = k
      <4>1. f[2] <= e[2] /\ f[1] = e[1]
        BY <1>5, <1>8, <2>1, <3>1
      <4>2. f[2] = e[2] \/ f[2] <= Len(calls[k].tokens)
        BY <1>0, <1>6, <2>0, <4>1
      <4> QED
        BY <1>0, <1>5, <2>0, <4>1, <4>2 DEF HasPart
    <3>2. CASE i # k
      BY <1>8, <2>1, <3>2 DEF HasPart
    <3> QED
      BY <3>1, <3>2
  <2>2. ASSUME NEW i \in DOMAIN calls, calls[i].id = f[1], f[2] <= Len(calls[i].tokens)
        PROVE  HasPart(new.calls, f)
    <3>1. CASE i = k
      <4>1. f[2] <= e[2]
        BY <1>0, <1>6, <2>0, <2>2, <3>1
      <4> QED
        BY <1>8, <2>2, <3>1, <4>1 DEF HasPart
    <3>2. CASE i # k
      BY <1>8, <2>2, <3>2 DEF HasPart
    <3> QED
      BY <3>1, <3>2
  <2>3. HasPart(new.calls, e)
    BY <1>0, <1>5, <1>8 DEF HasPart
  <2> QED
    BY <1>8, <2>1, <2>2, <2>3 DEF HasPart
<1>11. \A f \in Wire : Class(f) # "call"
  BY <1>0, ClassFacts
<1>12. \A f \in Wire : Has(new, f) <=> Has(consumer, f) \/ f = e
  BY <1>3, <1>10, <1>11 DEF Has
<1> QED
  BY <1>9, <1>12 DEF Took, new

LEMMA Takes ==
  ASSUME StreamTypeOK, Formed(consumer), NEW e \in Wire, Ready(e), e # Final, NEW c, Carries(e, c)
  PROVE  Took(Consumed(c), e)
<1>1. Class(e) # "final"
  BY ClassFacts
<1> QED
  BY <1>1, TakesText, TakesThought, TakesState, TakesCall, TakesFirstPart, TakesNextPart DEF Carries

-----------------------------------------------------------------------------
(* A consumer that has all events has the whole reply *)

Whole(con) ==
    /\ Spells(con.text, "text") /\ Spells(con.reasoning, "thinking") /\ Collects(con.calls, "call")
    /\ IF adapter = "chat" THEN con.states = <<>> ELSE Collects(con.states, "thinking")

Complete(con) == \A f \in Wire : Class(f) \notin {"nothing", "final"} => Has(con, f)

LEMMA AllTokens ==
  ASSUME StreamTypeOK, NEW class, NEW kind, <<class, kind>> \in {<<"text", "text">>, <<"thought", "thinking">>},
         NEW tokens, TokensFormed(tokens, class),
         \A f \in Wire : Class(f) = class => HasToken(tokens, f)
  PROVE  Spells(tokens, kind)
<1>1. ASSUME NEW b \in DOMAIN reply, reply[b].kind = kind, NEW t \in ToSet(Tokens(b))
      PROVE  t \in ToSet(tokens)
  <2>1. PICK i \in 1..reply[b].size : t = <<b, i>>
    BY TokensSeq DEF ToSet
  <2>2. t \in Wire /\ t # Final /\ IsDelta(t) /\ t[1] = b
    BY <1>1, <2>1, DeltaInWire
  <2>3. Class(t) = class
    BY <1>1, <2>2, DeltaClass
  <2> QED
    BY <2>2, <2>3 DEF HasToken, ToSet
<1>2. ASSUME NEW t \in ToSet(tokens)
      PROVE  t[1] \in DOMAIN reply /\ reply[t[1]].kind = kind /\ IsDelta(t)
  <2>1. t \in Wire /\ Class(t) = class
    BY DEF ToSet, TokensFormed
  <2> QED
    BY <2>1, ClassFacts, WireFacts
<1> QED
  BY <1>1, <1>2 DEF Spells, TokensFormed

LEMMA AllPieces ==
  ASSUME StreamTypeOK, NEW kind \in {"call", "thinking"}, NEW pieces \in Seq(Pieces), PiecesFormed(pieces, kind),
         \A b \in DOMAIN reply : reply[b].kind = kind =>
            \E i \in DOMAIN pieces : pieces[i].id = b /\ reply[b].size <= Len(pieces[i].tokens)
  PROVE  Collects(pieces, kind)
<1>1. \A i \in DOMAIN pieces : pieces[i].id \in DOMAIN reply /\ reply[pieces[i].id].kind = kind
  BY DEF PiecesFormed, PieceFormed
<1>2. {pieces[i].id : i \in DOMAIN pieces} = {b \in DOMAIN reply : reply[b].kind = kind}
  BY <1>1
<1>3. ASSUME NEW i \in DOMAIN pieces PROVE pieces[i].tokens = Tokens(pieces[i].id)
  <2> DEFINE b == pieces[i].id
             tokens == pieces[i].tokens
  <2>1. b \in DOMAIN reply /\ reply[b].kind = kind /\ reply[b].size \in Nat
    BY <1>1, ReplyFacts
  <2>2. PieceFormed(pieces[i], kind)
    BY DEF PiecesFormed
  <2>3. pieces[i] \in Pieces
    OBVIOUS
  <2>4. tokens \in Seq(Nat \X Nat) /\ Len(tokens) \in Nat /\ DOMAIN tokens = 1..Len(tokens)
    BY <2>3 DEF Pieces
  <2>5. PICK j \in DOMAIN pieces : pieces[j].id = b /\ reply[b].size <= Len(pieces[j].tokens)
    BY <2>1
  <2>6. j = i
    BY <2>5, OnePiece
  <2>7. Len(tokens) = reply[b].size
    BY <2>1, <2>2, <2>4, <2>5, <2>6 DEF PieceFormed
  <2>8. \A k \in DOMAIN tokens : tokens[k] = <<b, k>>
    BY <2>2 DEF PieceFormed
  <2> HIDE DEF b, tokens
  <2>9. tokens = [k \in 1..reply[b].size |-> tokens[k]]
    BY <2>4, <2>7
  <2>10. tokens = Tokens(b)
    BY <2>4, <2>7, <2>8, <2>9 DEF Tokens
  <2> QED
    BY <2>10 DEF b, tokens
<1> QED
  BY <1>2, <1>3 DEF Collects, PiecesFormed

LEMMA WholeReply ==
  ASSUME StreamTypeOK, Formed(consumer), Complete(consumer)
  PROVE  Whole(consumer)
<1>1. Spells(consumer.text, "text") /\ Spells(consumer.reasoning, "thinking")
  <2>1. \A f \in Wire : Class(f) = "text" => HasToken(consumer.text, f)
    BY DEF Complete, Has
  <2>2. \A f \in Wire : Class(f) = "thought" => HasToken(consumer.reasoning, f)
    BY DEF Complete, Has
  <2> QED
    BY <2>1, <2>2, AllTokens DEF Formed
<1>2. ASSUME NEW b \in DOMAIN reply, reply[b].kind \in {"call", "thinking"}, adapter # "chat",
             NEW pieces, pieces = IF reply[b].kind = "call" THEN consumer.calls ELSE consumer.states
      PROVE  \E i \in DOMAIN pieces : pieces[i].id = b /\ reply[b].size <= Len(pieces[i].tokens)
  <2>1. <<b, EndOf(b)>> \in Wire /\ Class(<<b, EndOf(b)>>) = IF reply[b].kind = "call" THEN "call" ELSE "state"
    BY <1>2, EndInWire, EndClass
  <2>2. HasBlock(pieces, b)
    BY <1>2, <2>1 DEF Complete, Has
  <2>3. PICK i \in DOMAIN pieces : pieces[i].id = b
    BY <2>2 DEF HasBlock
  <2>4. PiecesFormed(pieces, reply[b].kind)
    BY <1>2 DEF Formed
  <2>5. reply[b].size <= Len(pieces[i].tokens)
    BY <1>2, <2>3, <2>4, ReplyFacts DEF PiecesFormed, PieceFormed
  <2> QED
    BY <2>3, <2>5
<1>3. ASSUME NEW b \in DOMAIN reply, reply[b].kind = "call", adapter = "chat"
      PROVE  \E i \in DOMAIN consumer.calls :
                consumer.calls[i].id = b /\ reply[b].size <= Len(consumer.calls[i].tokens)
  <2>1. reply[b].size \in 1..reply[b].size
    BY <1>3, ReplyFacts
  <2>2. <<b, reply[b].size>> \in Wire /\ Class(<<b, reply[b].size>>) = "part"
    BY <1>3, <2>1, DeltaInWire, DeltaClass
  <2>3. HasPart(consumer.calls, <<b, reply[b].size>>)
    BY <2>2 DEF Complete, Has
  <2> QED
    BY <2>3 DEF HasPart
<1>4. Collects(consumer.calls, "call")
  <2>1. PiecesFormed(consumer.calls, "call") /\ consumer.calls \in Seq(Pieces)
    BY ConsumerParts DEF Formed
  <2> QED
    BY <1>2, <1>3, <2>1, AllPieces
<1>5. adapter # "chat" => Collects(consumer.states, "thinking")
  <2>1. PiecesFormed(consumer.states, "thinking") /\ consumer.states \in Seq(Pieces)
    BY ConsumerParts DEF Formed
  <2> QED
    BY <1>2, <2>1, AllPieces
<1> QED
  BY <1>1, <1>4, <1>5 DEF Whole, Formed

-----------------------------------------------------------------------------
(* What is on its way *)

LEMMA AppendIs ==
  ASSUME NEW S, NEW flow \in Seq(S), NEW c \in S
  PROVE  /\ Append(flow, c) \in Seq(S) /\ Len(flow) \in Nat /\ Len(Append(flow, c)) = Len(flow) + 1
         /\ DOMAIN flow = 1..Len(flow) /\ DOMAIN Append(flow, c) = 1..(Len(flow) + 1)
         /\ \A i \in DOMAIN flow : Append(flow, c)[i] = flow[i]
         /\ Append(flow, c)[Len(flow) + 1] = c
OBVIOUS

LEMMA HeldSilent ==
  ASSUME StreamTypeOK, NEW flow, Held(consumer, flow, read),
         NEW e \in Wire, Follows(read, e), Class(e) = "nothing"
  PROVE  Held(consumer, flow, e)
<1>1. read \in Nat \X Nat /\ Before(read, e) /\ \A f \in Wire : f \in Nat \X Nat
  BY ReadTyped, WireFacts DEF Follows
<1>2. ASSUME NEW f \in Wire, Before(e, f) PROVE Before(read, f)
  BY <1>1, <1>2, Order
<1>3. ASSUME NEW f \in Wire, ~Before(e, f) PROVE f = e \/ ~Before(read, f)
  BY <1>3 DEF Follows
<1> QED
  BY <1>2, <1>3 DEF Held

LEMMA HeldAppend ==
  ASSUME StreamTypeOK, NEW flow \in Seq(ChunkType), Held(consumer, flow, read),
         \A i \in DOMAIN flow : ~Terminal(flow[i]),
         NEW e \in Wire, Follows(read, e), NEW c \in ChunkType, Carries(e, c)
  PROVE  Held(consumer, Append(flow, c), e)
<1> DEFINE new == Append(flow, c)
           n == Len(flow) + 1
<1>0. /\ DOMAIN new = DOMAIN flow \cup {n} /\ n \notin DOMAIN flow /\ new[n] = c
      /\ \A i \in DOMAIN flow : new[i] = flow[i] /\ i < n
  BY AppendIs
<1>1. read \in Nat \X Nat /\ e \in Nat \X Nat /\ Before(read, e) /\ \A f \in Wire : f \in Nat \X Nat
  BY ReadTyped, WireFacts DEF Follows
<1>2. Source(c) = e /\ ~c.error
  BY SourceOf
<1>3. \A i \in DOMAIN flow : ~flow[i].error
  BY DEF Terminal
<1>4. ASSUME NEW f \in Wire, ~Before(read, f) PROVE Before(f, e) /\ ~Before(e, f)
  BY <1>1, <1>4, Order
<1>5. ASSUME NEW f \in Wire, ~Before(e, f) PROVE f = e \/ ~Before(read, f)
  BY <1>5 DEF Follows
<1> HIDE DEF new, n
<1>6. ASSUME NEW f \in Wire, Has(consumer, f) PROVE ~Before(e, f) /\ Before(f, e)
  BY <1>4, <1>6 DEF Held
<1>7. \A i \in DOMAIN flow : /\ Source(flow[i]) \in Wire /\ Carries(Source(flow[i]), flow[i])
                             /\ ~Before(e, Source(flow[i])) /\ Before(Source(flow[i]), e)
  BY <1>3, <1>4 DEF Held
<1>8. \A i \in DOMAIN new : \/ new[i].error
                            \/ /\ Source(new[i]) \in Wire /\ Carries(Source(new[i]), new[i])
                               /\ ~new[i].error /\ ~Before(e, Source(new[i]))
  BY <1>0, <1>1, <1>2, <1>3, <1>7, Order
<1>9. ASSUME NEW i \in DOMAIN new, NEW j \in DOMAIN new, i < j
      PROVE  ~Terminal(new[i]) /\ (new[j].error \/ Before(Source(new[i]), Source(new[j])))
  <2>1. i \in DOMAIN flow /\ new[i] = flow[i]
    <3>1. i = n => ~(i < j)
      BY <1>0, AppendIs DEF n
    <3> QED
      BY <1>0, <1>9, <3>1
  <2>2. CASE j = n
    BY <1>0, <1>2, <1>7, <2>1, <2>2
  <2>3. CASE j \in DOMAIN flow
    BY <1>0, <1>9, <2>1, <2>3 DEF Held
  <2> QED
    BY <1>0, <2>2, <2>3
<1>10. ASSUME NEW i \in DOMAIN new, NEW f \in Wire, Has(consumer, f)
       PROVE  new[i].error \/ Before(f, Source(new[i]))
  <2>1. CASE i = n
    BY <1>0, <1>2, <1>6, <1>10, <2>1
  <2>2. CASE i \in DOMAIN flow
    BY <1>0, <1>10, <2>2 DEF Held
  <2> QED
    BY <1>0, <2>1, <2>2
<1>11. ASSUME NEW f \in Wire, ~Before(e, f), Class(f) # "nothing"
       PROVE  Has(consumer, f) \/ \E i \in DOMAIN new : ~new[i].error /\ Source(new[i]) = f
  <2>1. CASE f = e
    BY <1>0, <1>2, <2>1
  <2>2. CASE ~Before(read, f)
    <3>1. Has(consumer, f) \/ \E i \in DOMAIN flow : ~flow[i].error /\ Source(flow[i]) = f
      BY <1>11, <2>2 DEF Held
    <3> QED
      BY <1>0, <3>1
  <2> QED
    BY <1>5, <1>11, <2>1, <2>2
<1>12. Held(consumer, new, e)
  BY <1>6, <1>8, <1>9, <1>10, <1>11 DEF Held
<1> QED
  BY <1>12 DEF new

LEMMA HeldError ==
  ASSUME StreamTypeOK, NEW flow \in Seq(ChunkType), Held(consumer, flow, read),
         \A i \in DOMAIN flow : ~Terminal(flow[i]), NEW c \in ChunkType, c.error
  PROVE  Held(consumer, Append(flow, c), read)
<1> DEFINE new == Append(flow, c)
           n == Len(flow) + 1
<1>0. /\ DOMAIN new = DOMAIN flow \cup {n} /\ n \notin DOMAIN flow /\ new[n] = c
      /\ \A i \in DOMAIN flow : new[i] = flow[i] /\ i < n
  BY AppendIs
<1> HIDE DEF new, n
<1>1. \A i \in DOMAIN new : \/ new[i].error
                            \/ /\ Source(new[i]) \in Wire /\ Carries(Source(new[i]), new[i])
                               /\ ~new[i].error /\ ~Before(read, Source(new[i]))
  BY <1>0 DEF Held
<1>2. ASSUME NEW i \in DOMAIN new, NEW j \in DOMAIN new, i < j
      PROVE  ~Terminal(new[i]) /\ (new[j].error \/ Before(Source(new[i]), Source(new[j])))
  <2>1. i \in DOMAIN flow /\ new[i] = flow[i]
    <3>1. i = n => ~(i < j)
      BY <1>0, AppendIs DEF n
    <3> QED
      BY <1>0, <1>2, <3>1
  <2>2. CASE j = n
    BY <1>0, <2>1, <2>2
  <2>3. CASE j \in DOMAIN flow
    BY <1>0, <1>2, <2>1, <2>3 DEF Held
  <2> QED
    BY <1>0, <2>2, <2>3
<1>3. ASSUME NEW i \in DOMAIN new, NEW f \in Wire, Has(consumer, f)
      PROVE  new[i].error \/ Before(f, Source(new[i]))
  BY <1>0, <1>3 DEF Held
<1>4. ASSUME NEW f \in Wire, ~Before(read, f), Class(f) # "nothing"
      PROVE  Has(consumer, f) \/ \E i \in DOMAIN new : ~new[i].error /\ Source(new[i]) = f
  <2>1. Has(consumer, f) \/ \E i \in DOMAIN flow : ~flow[i].error /\ Source(flow[i]) = f
    BY <1>4 DEF Held
  <2> QED
    BY <1>0, <2>1
<1>5. Held(consumer, new, read)
  BY <1>1, <1>2, <1>3, <1>4 DEF Held
<1> QED
  BY <1>5 DEF new

\* The consumer takes the first chunk.
LEMMA HeldReady ==
  ASSUME StreamTypeOK, NEW flow \in Seq(ChunkType), flow # <<>>, Held(consumer, flow, read), ~flow[1].error
  PROVE  LET e == Source(flow[1]) IN e \in Wire /\ Carries(e, flow[1]) /\ ~Before(read, e) /\ Ready(e)
<1> DEFINE e == Source(flow[1])
<1>0. 1 \in DOMAIN flow /\ DOMAIN flow = 1..Len(flow) /\ Len(flow) \in Nat
  OBVIOUS
<1>1. e \in Wire /\ Carries(e, flow[1]) /\ ~Before(read, e)
  BY <1>0 DEF Held
<1> HIDE DEF e
<1>2. \A f \in Wire : Has(consumer, f) => Before(f, e)
  BY <1>0 DEF Held, e
<1>3. ASSUME Class(e) = "part", e[2] > 1 PROVE Has(consumer, <<e[1], e[2] - 1>>)
  <2> DEFINE f == <<e[1], e[2] - 1>>
  <2>1. e # Final /\ IsDelta(e) /\ adapter = "chat" /\ e[1] \in DOMAIN reply /\ reply[e[1]].size \in Nat
        /\ reply[e[1]].kind = "call" /\ e \in Nat \X Nat
    BY <1>1, <1>3, ClassFacts, WireFacts, ReplyFacts
  <2>2. e[2] - 1 \in 1..reply[e[1]].size
    BY <1>3, <2>1 DEF IsDelta
  <2>3. f \in Wire /\ Class(f) = "part" /\ f \in Nat \X Nat /\ read \in Nat \X Nat
    BY <2>1, <2>2, DeltaInWire, DeltaClass, ReadTyped, WireFacts
  <2>4. Before(f, e)
    BY <2>1 DEF Before
  <2> HIDE DEF f
  <2>5. ~Before(read, f) /\ ~Before(e, f) /\ e # f
    BY <1>1, <2>1, <2>3, <2>4, Order
  <2>6. Has(consumer, f) \/ \E i \in DOMAIN flow : ~flow[i].error /\ Source(flow[i]) = f
    BY <2>3, <2>5 DEF Held
  <2>7. ASSUME NEW i \in DOMAIN flow, ~flow[i].error, Source(flow[i]) = f PROVE FALSE
    <3>1. i = 1 \/ 1 < i
      BY <1>0
    <3> QED
      BY <1>0, <2>5, <2>7, <3>1 DEF Held, e
  <2> QED
    BY <2>6, <2>7 DEF f
<1> QED
  BY <1>1, <1>2, <1>3 DEF Ready, e

LEMMA HeldTake ==
  ASSUME StreamTypeOK, NEW flow \in Seq(ChunkType), flow # <<>>, Held(consumer, flow, read), ~Terminal(flow[1]),
         NEW con, con = Consumed(flow[1])
  PROVE  Held(con, Tail(flow), read)
<1> DEFINE e == Source(flow[1])
           rest == Tail(flow)
<1>0. /\ 1 \in DOMAIN flow /\ DOMAIN flow = 1..Len(flow) /\ Len(flow) \in Nat
      /\ \A i \in DOMAIN rest : i + 1 \in DOMAIN flow /\ rest[i] = flow[i + 1] /\ i \in Nat /\ i > 0
      /\ \A i \in DOMAIN flow : i # 1 => i - 1 \in DOMAIN rest /\ rest[i - 1] = flow[i]
  OBVIOUS
<1>1. ~flow[1].error /\ ~flow[1].done
  BY DEF Terminal
<1>2. e \in Wire /\ Carries(e, flow[1]) /\ ~Before(read, e) /\ Ready(e)
  BY <1>1, HeldReady
<1>3. e # Final
  BY <1>1, <1>2, SourceOf
<1>4. Took(con, e)
  BY <1>2, <1>3, Takes DEF Held
<1> HIDE DEF e, rest
<1>5. Formed(con) /\ \A f \in Wire : Has(con, f) <=> Has(consumer, f) \/ f = e
  BY <1>4 DEF Took
<1>6. \A f \in Wire : Has(con, f) => ~Before(read, f)
  BY <1>2, <1>5 DEF Held
<1>7. \A i \in DOMAIN rest : \/ rest[i].error
                             \/ /\ Source(rest[i]) \in Wire /\ Carries(Source(rest[i]), rest[i])
                                /\ ~rest[i].error /\ ~Before(read, Source(rest[i]))
  BY <1>0 DEF Held
<1>8. ASSUME NEW i \in DOMAIN rest, NEW j \in DOMAIN rest, i < j
      PROVE  ~Terminal(rest[i]) /\ (rest[j].error \/ Before(Source(rest[i]), Source(rest[j])))
  <2>1. i + 1 < j + 1
    BY <1>0, <1>8
  <2> QED
    BY <1>0, <2>1 DEF Held
<1>9. ASSUME NEW i \in DOMAIN rest, NEW f \in Wire, Has(con, f)
      PROVE  rest[i].error \/ Before(f, Source(rest[i]))
  <2>1. 1 < i + 1
    BY <1>0
  <2>2. rest[i].error \/ Before(e, Source(rest[i]))
    BY <1>0, <2>1 DEF Held, e
  <2>3. Has(consumer, f) => rest[i].error \/ Before(f, Source(rest[i]))
    BY <1>0 DEF Held
  <2> QED
    BY <1>5, <1>9, <2>2, <2>3
<1>10. ASSUME NEW f \in Wire, ~Before(read, f), Class(f) # "nothing"
       PROVE  Has(con, f) \/ \E i \in DOMAIN rest : ~rest[i].error /\ Source(rest[i]) = f
  <2>1. Has(consumer, f) \/ \E i \in DOMAIN flow : ~flow[i].error /\ Source(flow[i]) = f
    BY <1>10 DEF Held
  <2>2. ASSUME NEW i \in DOMAIN flow, ~flow[i].error, Source(flow[i]) = f
        PROVE  Has(con, f) \/ \E k \in DOMAIN rest : ~rest[k].error /\ Source(rest[k]) = f
    <3>1. CASE i = 1
      BY <1>5, <2>2, <3>1 DEF e
    <3>2. CASE i # 1
      BY <1>0, <2>2, <3>2
    <3> QED
      BY <3>1, <3>2
  <2> QED
    BY <1>5, <2>1, <2>2
<1>11. Held(con, rest, read)
  BY <1>5, <1>6, <1>7, <1>8, <1>9, <1>10 DEF Held
<1> QED
  BY <1>11 DEF rest

LEMMA HeldFinal ==
  ASSUME StreamTypeOK, NEW flow \in Seq(ChunkType), flow # <<>>, Held(consumer, flow, read),
         flow[1].done, ~flow[1].error
  PROVE  Whole(consumer)
<1>0. 1 \in DOMAIN flow /\ DOMAIN flow = 1..Len(flow) /\ Len(flow) \in Nat
  OBVIOUS
<1>1. /\ Source(flow[1]) \in Wire /\ Carries(Source(flow[1]), flow[1]) /\ ~Before(read, Source(flow[1]))
  BY HeldReady
<1>2. Source(flow[1]) = Final
  BY <1>1, SourceOf
<1>3. ASSUME NEW f \in Wire PROVE ~Before(read, f)
  <2>1. f \in Nat \X Nat /\ Final \in Nat \X Nat /\ read \in Nat \X Nat /\ (f = Final \/ f[1] < Final[1])
    BY ReadTyped, WireFacts, FinalInWire, ReplyFacts DEF Final
  <2>2. f = Final \/ Before(f, Final)
    BY <2>1 DEF Before
  <2> QED
    BY <1>1, <1>2, <2>1, <2>2, Order
<1>4. ASSUME NEW f \in Wire, Class(f) \notin {"nothing", "final"} PROVE Has(consumer, f)
  <2>1. Has(consumer, f) \/ \E i \in DOMAIN flow : ~flow[i].error /\ Source(flow[i]) = f
    BY <1>3, <1>4 DEF Held
  <2>2. ASSUME NEW i \in DOMAIN flow, Source(flow[i]) = f PROVE FALSE
    <3>1. CASE i = 1
      BY <1>2, <1>4, <2>2, <3>1, ClassFacts
    <3>2. CASE 1 < i
      BY <1>0, <3>2 DEF Held, Terminal
    <3> QED
      BY <1>0, <3>1, <3>2
  <2> QED
    BY <2>1, <2>2
<1> QED
  BY <1>4, WholeReply DEF Complete, Held

-----------------------------------------------------------------------------
(* The steps *)

LEMMA FlowTyped ==
  ASSUME StreamTypeOK
  PROVE  /\ Given \in Seq(ChunkType) /\ channel \in Seq(ChunkType) /\ Sending \in Seq(ChunkType)
         /\ Flow \in Seq(ChunkType)
<1>1. relay.chunk \in ChunkType /\ producer.chunk \in ChunkType /\ channel \in Seq(ChunkType)
  BY DEF StreamTypeOK
<1> QED
  BY <1>1 DEF Given, Sending, Flow

LEMMA ErrorChunkIs == ErrorChunk \in ChunkType /\ ErrorChunk.error /\ Terminal(ErrorChunk)
<1>1. ErrorChunk \in ChunkType /\ ErrorChunk.error
  BY ChunkFields DEF ErrorChunk, NoChunk, ChunkType
<1> QED
  BY <1>1 DEF Terminal

LEMMA ConsumedTyped ==
  ASSUME StreamTypeOK, NEW c \in ChunkType
  PROVE  Consumed(c) \in ConsumerType
<1>1. CASE c.error
  BY <1>1 DEF Consumed, StreamTypeOK, ConsumerType
<1>2. CASE ~c.error
  <2>1. /\ consumer.text \o c.text \in Seq(Nat \X Nat) /\ consumer.reasoning \o c.reasoning \in Seq(Nat \X Nat)
        /\ c.state \in Pieces \cup {None} /\ c.call \in Pieces \cup {None}
        /\ consumer.states \in Seq(Pieces) /\ consumer.calls \in Seq(Pieces)
    BY ConsumerParts DEF ChunkType
  <2>2. (IF c.state = None THEN consumer.states ELSE Append(consumer.states, c.state)) \in Seq(Pieces)
    BY <2>1
  <2>3. ASSUME NEW k \in DOMAIN consumer.calls, c.call # None
        PROVE  Extended(consumer.calls, k, c.call) \in Seq(Pieces)
    <3>1. consumer.calls[k] \in Pieces /\ c.call \in Pieces
      BY <2>1, <2>3
    <3>2. [consumer.calls[k] EXCEPT !.tokens = @ \o c.call.tokens] \in Pieces
      <4>1. /\ consumer.calls[k].tokens \in Seq(Nat \X Nat) /\ c.call.tokens \in Seq(Nat \X Nat)
            /\ consumer.calls[k] \in [id : Nat \cup {None}, tokens : Seq(Nat \X Nat)]
        BY <3>1 DEF Pieces
      <4> DEFINE more == consumer.calls[k].tokens \o c.call.tokens
      <4>2. more \in Seq(Nat \X Nat)
        BY <4>1
      <4> HIDE DEF more
      <4>3. [consumer.calls[k] EXCEPT !.tokens = more] \in [id : Nat \cup {None}, tokens : Seq(Nat \X Nat)]
        BY <4>1, <4>2
      <4> QED
        BY <4>3 DEF Pieces, more
    <3> QED
      BY <2>1, <3>2 DEF Extended
  <2>4. c.call # None => Merged(consumer.calls, c.call) \in Seq(Pieces)
    <3> SUFFICES ASSUME c.call # None PROVE Merged(consumer.calls, c.call) \in Seq(Pieces)
      OBVIOUS
    <3>1. CASE c.call.id = None /\ consumer.calls # <<>>
      <4>1. Len(consumer.calls) \in DOMAIN consumer.calls
        BY <2>1, <3>1
      <4> QED
        BY <2>3, <3>1, <4>1 DEF Merged
    <3>2. CASE c.call.id # None /\ \E i \in DOMAIN consumer.calls : consumer.calls[i].id = c.call.id
      BY <2>3, <3>2 DEF Merged
    <3>3. CASE ~(c.call.id = None /\ consumer.calls # <<>>)
               /\ ~(c.call.id # None /\ \E i \in DOMAIN consumer.calls : consumer.calls[i].id = c.call.id)
      BY <2>1, <3>3 DEF Merged
    <3> QED
      BY <3>1, <3>2, <3>3
  <2>5. (IF c.call = None THEN consumer.calls ELSE Merged(consumer.calls, c.call)) \in Seq(Pieces)
    BY <2>1, <2>4
  <2> QED
    BY <1>2, <2>1, <2>2, <2>5 DEF Consumed, ConsumerType
<1> QED
  BY <1>1, <1>2

LEMMA TypeOfConsumer == StreamTypeOK => consumer \in ConsumerType
BY DEF StreamTypeOK, ConsumerType

LEMMA StreamTypeInit == StreamInit => StreamTypeOK
<1> SUFFICES ASSUME StreamInit PROVE StreamTypeOK
  OBVIOUS
<1>1. acc \in [DOMAIN reply -> Seq(Nat \X Nat)]
  BY DEF StreamInit
<1>2. /\ adapter \in Adapters /\ logged \in BOOLEAN /\ reply \in Replies /\ ctxDone \in BOOLEAN
      /\ timer \in {"armed", "fired", "acted", "stopped"} /\ closed \in BOOLEAN
      /\ read \in Wire \cup {<<0, 0>>}
  BY DEF StreamInit
<1>3. channel \in Seq(ChunkType) /\ Len(channel) <= Cap
  BY StreamAssumption DEF StreamInit
<1>4. /\ producer \in [pc : {"connecting", "headers", "read", "emit", "closing", "ended"}, chunk : ChunkType]
      /\ relay \in [pc : {"off", "take", "give", "ended"}, chunk : ChunkType]
  BY ChunkFields DEF StreamInit
<1>5. /\ consumer \in [pc : {"waiting", "select", "ok", "error", "cancelled"},
                       text : Seq(Nat \X Nat), reasoning : Seq(Nat \X Nat),
                       states : Seq(Pieces), calls : Seq(Pieces)]
  BY DEF StreamInit
<1> QED
  BY <1>1, <1>2, <1>3, <1>4, <1>5 DEF StreamTypeOK

LEMMA AccTyped ==
  ASSUME StreamTypeOK, NEW e \in Wire
  PROVE  Accumulated(e) \in [DOMAIN reply -> Seq(Nat \X Nat)]
<1>1. acc \in [DOMAIN reply -> Seq(Nat \X Nat)] /\ e \in Nat \X Nat
  BY WireFacts DEF StreamTypeOK
<1>2. CASE e # Final /\ IsDelta(e)
  <2>1. e[1] \in DOMAIN reply
    BY <1>2, WireFacts
  <2>2. Append(acc[e[1]], e) \in Seq(Nat \X Nat)
    BY <1>1, <2>1
  <2> QED
    BY <1>1, <1>2, <2>1, <2>2 DEF Accumulated
<1>3. CASE ~(e # Final /\ IsDelta(e))
  BY <1>1, <1>3 DEF Accumulated
<1> QED
  BY <1>2, <1>3

LEMMA Framed ==
  ASSUME [StreamNext]_streamVars
  PROVE  /\ adapter' = adapter /\ logged' = logged /\ reply' = reply
         /\ Wire' = Wire /\ Final' = Final
<1>1. adapter' = adapter /\ logged' = logged /\ reply' = reply
  BY DEF StreamNext, streamVars, request, TimerFires, TimerActs, Headers, NoHeaders, Refused, ReadEvent, ReadFails,
         Producing, EmitChunk, EmitCancelled, Close, TooLate, Begin, Relaying, RelayTakes, RelayEnds,
         Consuming, TakeRelayed, TakeChunk, TakeClosed, TakeDone, CancelCall
<1> QED
  BY <1>1 DEF Wire, Final, EventsOf, EndOf

LEMMA StreamTypeStep == StreamTypeOK /\ AccInv /\ StartInv /\ [StreamNext]_streamVars => StreamTypeOK'
<1> SUFFICES ASSUME StreamTypeOK, AccInv, StartInv, [StreamNext]_streamVars PROVE StreamTypeOK'
  OBVIOUS
<1>0. adapter' = adapter /\ logged' = logged /\ reply' = reply /\ Wire' = Wire
  BY Framed
<1>f. /\ adapter \in Adapters /\ logged \in BOOLEAN /\ reply \in Replies
      /\ ctxDone \in BOOLEAN
      /\ timer \in {"armed", "fired", "acted", "stopped"}
      /\ producer \in [pc : {"connecting", "headers", "read", "emit", "closing", "ended"}, chunk : ChunkType]
      /\ read \in Wire \cup {<<0, 0>>}
      /\ acc \in [DOMAIN reply -> Seq(Nat \X Nat)]
      /\ channel \in Seq(ChunkType) /\ Len(channel) <= Cap /\ closed \in BOOLEAN
      /\ relay \in [pc : {"off", "take", "give", "ended"}, chunk : ChunkType]
      /\ consumer \in ConsumerType /\ Cap \in Nat
  BY StreamAssumption, TypeOfConsumer DEF StreamTypeOK
<1>t. ASSUME ctxDone' \in BOOLEAN,
             timer' \in {"armed", "fired", "acted", "stopped"},
             producer' \in [pc : {"connecting", "headers", "read", "emit", "closing", "ended"}, chunk : ChunkType],
             read' \in Wire \cup {<<0, 0>>},
             acc' \in [DOMAIN reply -> Seq(Nat \X Nat)],
             channel' \in Seq(ChunkType), Len(channel') <= Cap, closed' \in BOOLEAN,
             relay' \in [pc : {"off", "take", "give", "ended"}, chunk : ChunkType],
             consumer' \in ConsumerType
      PROVE  StreamTypeOK'
  BY <1>0, <1>f, <1>t DEF StreamTypeOK, ConsumerType
<1>1. CASE TimerFires \/ TimerActs \/ CancelCall \/ UNCHANGED streamVars
  BY <1>1, <1>f, <1>t DEF TimerFires, TimerActs, CancelCall, streamVars
<1>2. CASE Headers \/ Close \/ EmitCancelled
  <2>1. producer' \in [pc : {"connecting", "headers", "read", "emit", "closing", "ended"}, chunk : ChunkType]
    BY <1>2, <1>f DEF Headers, Close, EmitCancelled
  <2> QED
    BY <1>2, <1>f, <1>t, <2>1 DEF Headers, Close, EmitCancelled
<1>3. CASE NoHeaders \/ TooLate
  <2>1. PICK reason \in {"cancelled", "error"} : Refused(reason)
    BY <1>3 DEF NoHeaders, TooLate
  <2>2. producer' \in [pc : {"connecting", "headers", "read", "emit", "closing", "ended"}, chunk : ChunkType]
        /\ consumer' \in ConsumerType
    BY <1>f, <2>1 DEF Refused, ConsumerType
  <2>3. timer' \in {"armed", "fired", "acted", "stopped"}
    BY <1>3, <1>f DEF NoHeaders, TooLate
  <2> QED
    BY <1>f, <1>t, <2>1, <2>2, <2>3 DEF Refused
<1>4. ASSUME NEW status \in {"ok", "error"}, Begin(status) PROVE StreamTypeOK'
  <2>1. producer' \in [pc : {"connecting", "headers", "read", "emit", "closing", "ended"}, chunk : ChunkType]
    BY <1>4, <1>f, ErrorChunkIs DEF Begin
  <2>2. relay' \in [pc : {"off", "take", "give", "ended"}, chunk : ChunkType]
    BY <1>4, <1>f DEF Begin
  <2>3. consumer' \in ConsumerType
    BY <1>4, <1>f DEF Begin, ConsumerType
  <2> QED
    BY <1>4, <1>f, <1>t, <2>1, <2>2, <2>3 DEF Begin
<1>5. CASE ReadEvent
  <2>1. PICK e \in Wire : /\ Follows(read, e) /\ read' = e /\ acc' = Accumulated(e)
                          /\ \E chunk \in Chunks(e) :
                               producer' = IF chunk = None THEN producer ELSE [pc |-> "emit", chunk |-> chunk]
    BY <1>5 DEF ReadEvent
  <2>2. PICK chunk \in Chunks(e) : producer' = IF chunk = None THEN producer ELSE [pc |-> "emit", chunk |-> chunk]
    BY <2>1
  <2>3. chunk = None \/ chunk \in ChunkType
    BY <2>1, ChunksCarry
  <2>4. producer' \in [pc : {"connecting", "headers", "read", "emit", "closing", "ended"}, chunk : ChunkType]
    BY <1>f, <2>2, <2>3
  <2>5. acc' \in [DOMAIN reply -> Seq(Nat \X Nat)]
    BY <2>1, AccTyped
  <2> QED
    BY <1>5, <1>f, <1>t, <2>1, <2>4, <2>5 DEF ReadEvent
<1>6. CASE ReadFails
  <2>1. producer' \in [pc : {"connecting", "headers", "read", "emit", "closing", "ended"}, chunk : ChunkType]
    BY <1>6, ErrorChunkIs DEF ReadFails
  <2> QED
    BY <1>6, <1>f, <1>t, <2>1 DEF ReadFails
<1>7. CASE EmitChunk
  <2>1. channel' \in Seq(ChunkType) /\ Len(channel') <= Cap
    BY <1>7, <1>f DEF EmitChunk
  <2>2. producer' \in [pc : {"connecting", "headers", "read", "emit", "closing", "ended"}, chunk : ChunkType]
    BY <1>7, <1>f DEF EmitChunk, Emitted
  <2> QED
    BY <1>7, <1>f, <1>t, <2>1, <2>2 DEF EmitChunk
<1>8. CASE RelayTakes
  <2>1. channel' \in Seq(ChunkType) /\ Len(channel') <= Cap /\ Head(channel) \in ChunkType
    BY <1>8, <1>f DEF RelayTakes
  <2>2. relay' \in [pc : {"off", "take", "give", "ended"}, chunk : ChunkType]
    BY <1>8, <2>1 DEF RelayTakes
  <2> QED
    BY <1>8, <1>f, <1>t, <2>1, <2>2 DEF RelayTakes
<1>9. CASE RelayEnds
  <2>1. relay' \in [pc : {"off", "take", "give", "ended"}, chunk : ChunkType]
    BY <1>9, <1>f DEF RelayEnds
  <2> QED
    BY <1>9, <1>f, <1>t, <2>1 DEF RelayEnds
<1>10. CASE TakeRelayed
  <2>1. relay' \in [pc : {"off", "take", "give", "ended"}, chunk : ChunkType] /\ relay.chunk \in ChunkType
    BY <1>10, <1>f DEF TakeRelayed
  <2>2. consumer' \in ConsumerType
    BY <1>10, <2>1, ConsumedTyped DEF TakeRelayed
  <2> QED
    BY <1>10, <1>f, <1>t, <2>1, <2>2 DEF TakeRelayed
<1>11. CASE TakeChunk
  <2>1. channel' \in Seq(ChunkType) /\ Len(channel') <= Cap /\ Head(channel) \in ChunkType
    BY <1>11, <1>f DEF TakeChunk
  <2>2. consumer' \in ConsumerType
    BY <1>11, <2>1, ConsumedTyped DEF TakeChunk
  <2> QED
    BY <1>11, <1>f, <1>t, <2>1, <2>2 DEF TakeChunk
<1>12. CASE TakeClosed \/ TakeDone
  <2>1. consumer' \in ConsumerType
    BY <1>12, <1>f DEF TakeClosed, TakeDone, ConsumerType
  <2> QED
    BY <1>12, <1>f, <1>t, <2>1 DEF TakeClosed, TakeDone
<1> QED
  BY <1>1, <1>2, <1>3, <1>4, <1>5, <1>6, <1>7, <1>8, <1>9, <1>10, <1>11, <1>12
     DEF StreamNext, Producing, Relaying, Consuming

LEMMA Sent ==
  ASSUME NEW S, NEW a \in Seq(S), NEW b \in Seq(S), NEW c \in S
  PROVE  /\ a \o Append(b, c) \o <<>> = a \o b \o <<c>>
         /\ a \o b \o <<c>> = Append(a \o b \o <<>>, c)
<1>1. a \o b \in Seq(S) /\ Append(b, c) \in Seq(S)
  OBVIOUS
<1>2. a \o Append(b, c) = Append(a \o b, c)
  OBVIOUS
<1>3. ASSUME NEW s \in Seq(S) PROVE s \o <<>> = s /\ s \o <<c>> = Append(s, c)
  OBVIOUS
<1>4. Append(a \o b, c) \in Seq(S)
  BY <1>1
<1> QED
  BY <1>1, <1>2, <1>3, <1>4

LEMMA Relayed ==
  ASSUME NEW S, NEW b \in Seq(S), b # <<>>, NEW d \in Seq(S)
  PROVE  /\ <<Head(b)>> \o Tail(b) \o d = <<>> \o b \o d
         /\ <<>> \o Tail(b) \o d = Tail(<<>> \o b \o d)
         /\ (<<>> \o b \o d)[1] = Head(b) /\ <<>> \o b \o d # <<>>
<1>1. <<Head(b)>> \o Tail(b) = b /\ Tail(b) \in Seq(S) /\ Head(b) = b[1] /\ Len(b) > 0
  OBVIOUS
<1>2. ASSUME NEW s \in Seq(S) PROVE <<>> \o s = s
  OBVIOUS
<1>3. (b \o d)[1] = b[1] /\ b \o d # <<>> /\ b \o d \in Seq(S)
  BY <1>1
<1>4. Tail(b \o d) = Tail(b) \o d
  BY <1>1
<1> QED
  BY <1>1, <1>2, <1>3, <1>4

LEMMA Consumes ==
  ASSUME NEW S, NEW b \in Seq(S), NEW c \in S, NEW d \in Seq(S)
  PROVE  /\ <<>> \o b \o d = Tail(<<c>> \o b \o d)
         /\ (<<c>> \o b \o d)[1] = c /\ <<c>> \o b \o d # <<>>
OBVIOUS

LEMMA StartStep == StreamTypeOK /\ StartInv /\ [StreamNext]_streamVars => StartInv'
<1> SUFFICES ASSUME StreamTypeOK, StartInv, [StreamNext]_streamVars PROVE StartInv'
  OBVIOUS
<1>0. /\ consumer.pc \in {"waiting", "select", "ok", "error", "cancelled"}
      /\ producer.pc \in {"connecting", "headers", "read", "emit", "closing", "ended"}
      /\ relay.pc \in {"off", "take", "give", "ended"}
      /\ DOMAIN producer = {"pc", "chunk"} /\ DOMAIN relay = {"pc", "chunk"} /\ "pc" \in DOMAIN consumer
  BY DEF StreamTypeOK
<1>1. CASE TimerFires \/ TimerActs \/ CancelCall \/ UNCHANGED streamVars
  BY <1>1 DEF TimerFires, TimerActs, CancelCall, streamVars, request, StartInv
<1>2. CASE Headers \/ Close \/ EmitCancelled \/ ReadFails
  <2>1. /\ producer.pc \in {"connecting", "headers"} <=> producer'.pc \in {"connecting", "headers"}
        /\ closed' => producer'.pc = "ended" \/ closed
    BY <1>0, <1>2 DEF Headers, Close, EmitCancelled, ReadFails
  <2>2. /\ UNCHANGED <<logged, read, channel, relay, consumer>> /\ (closed' => closed \/ Close)
        /\ (closed => producer'.pc = "ended")
    BY <1>0, <1>2 DEF Headers, Close, EmitCancelled, ReadFails, StartInv, request
  <2> QED
    BY <1>0, <1>2, <2>1, <2>2 DEF StartInv, Close
<1>3. CASE NoHeaders \/ TooLate
  <2>1. PICK reason \in {"cancelled", "error"} : Refused(reason)
    BY <1>3 DEF NoHeaders, TooLate
  <2>2. producer'.pc = "ended" /\ consumer'.pc = reason /\ UNCHANGED <<logged, relay>>
    BY <1>0, <2>1 DEF Refused, request
  <2> QED
    BY <2>2 DEF StartInv
<1>4. ASSUME NEW status \in {"ok", "error"}, Begin(status) PROVE StartInv'
  <2>1. producer'.pc \in {"read", "emit"} /\ consumer'.pc = "select"
    BY <1>0, <1>4 DEF Begin
  <2>2. ~closed' /\ (~logged' => relay'.pc = "off")
    BY <1>0, <1>4 DEF Begin, StartInv, request
  <2> QED
    BY <2>1, <2>2 DEF StartInv
<1>5. CASE ReadEvent
  <2>1. producer.pc = "read" /\ producer'.pc \in {"read", "emit"} /\ UNCHANGED <<logged, closed, channel, relay, consumer>>
    BY <1>5 DEF ReadEvent, request
  <2> QED
    BY <2>1 DEF StartInv
<1>6. CASE EmitChunk
  <2>1. producer.pc = "emit" /\ producer'.pc \in {"read", "closing"} /\ UNCHANGED <<logged, closed, relay, consumer>>
    BY <1>0, <1>6 DEF EmitChunk, Emitted, request
  <2> QED
    BY <2>1 DEF StartInv
<1>7. CASE RelayTakes \/ RelayEnds
  <2>1. relay.pc # "off" /\ UNCHANGED <<logged, closed, producer, consumer>>
    BY <1>7 DEF RelayTakes, RelayEnds, request
  <2> QED
    BY <2>1 DEF StartInv
<1>8. CASE Consuming
  <2>3. consumer.pc = "select"
    BY <1>8 DEF Consuming, TakeRelayed, TakeChunk, TakeClosed, TakeDone
  <2>4. ASSUME TakeRelayed \/ TakeChunk PROVE consumer'.pc \in {"select", "ok", "error"}
    <3>1. PICK c : consumer' = Consumed(c)
      BY <2>4 DEF TakeRelayed, TakeChunk
    <3>2. Consumed(c).pc \in {"select", "ok", "error"}
      BY <1>0 DEF Consumed
    <3> QED
      BY <3>1, <3>2
  <2>5. ASSUME TakeClosed \/ TakeDone PROVE consumer'.pc \in {"ok", "cancelled"}
    BY <1>0, <2>5 DEF TakeClosed, TakeDone
  <2>1. consumer.pc = "select" /\ consumer'.pc \in {"select", "ok", "error", "cancelled"}
    BY <1>8, <2>3, <2>4, <2>5 DEF Consuming
  <2>2. UNCHANGED <<logged, closed, producer>> /\ (~logged => UNCHANGED relay)
    BY <1>8 DEF Consuming, TakeRelayed, TakeChunk, TakeClosed, TakeDone, request
  <2> QED
    BY <2>1, <2>2 DEF StartInv
<1> QED
  BY <1>1, <1>2, <1>3, <1>4, <1>5, <1>6, <1>7, <1>8 DEF StreamNext, Producing, Relaying

LEMMA AccStep ==
  ASSUME StreamTypeOK, StreamTypeOK', AccInv, [StreamNext]_streamVars
  PROVE  AccInv'
<1>0. adapter' = adapter /\ reply' = reply
  BY Framed
<1>1. CASE ReadEvent
  <2>1. PICK e \in Wire : Follows(read, e) /\ read' = e /\ acc' = Accumulated(e)
    BY <1>1 DEF ReadEvent
  <2> QED
    BY <1>0, <2>1, AccRead
<1>2. CASE read' = read /\ acc' = acc
  BY <1>0, <1>2 DEF AccInv, ReadOf, Ends, EndOf
<1>3. ReadEvent \/ (read' = read /\ acc' = acc)
  BY DEF StreamNext, streamVars, TimerFires, TimerActs, Headers, NoHeaders, Refused, ReadFails,
         Producing, EmitChunk, EmitCancelled, Close, TooLate, Begin, Relaying, RelayTakes, RelayEnds,
         Consuming, TakeRelayed, TakeChunk, TakeClosed, TakeDone, CancelCall
<1> QED
  BY <1>1, <1>2, <1>3


\* The request stays the same, and with it what the chunks of an event are.
LEMMA SameEvents ==
  ASSUME adapter' = adapter, reply' = reply
  PROVE  /\ Wire' = Wire /\ Final' = Final
         /\ \A e : Class(e)' = Class(e)
         /\ \A c : Source(c)' = Source(c)
         /\ \A e, c : Carries(e, c)' <=> Carries(e, c)
<1>1. Wire' = Wire /\ Final' = Final
  BY DEF Wire, Final, EventsOf, EndOf
<1>2. \A b : EndOf(b)' = EndOf(b) /\ Tokens(b)' = Tokens(b)
  BY DEF EndOf, Tokens
<1>3. \A e : (Ends(e)' <=> Ends(e)) /\ (IsDelta(e)' <=> IsDelta(e))
  BY <1>2 DEF Ends, IsDelta
<1>4. \A e : Class(e)' = Class(e)
  BY <1>1, <1>3 DEF Class
<1>5. \A c : Source(c)' = Source(c)
  BY <1>1, <1>2 DEF Source
<1>6. ASSUME NEW e, NEW c PROVE Carries(e, c)' <=> Carries(e, c)
  BY <1>2, <1>4 DEF Carries
<1> QED
  BY <1>1, <1>4, <1>5, <1>6

LEMMA SameHeld ==
  ASSUME adapter' = adapter, reply' = reply, Held(consumer', Flow', read')
  PROVE  Held(consumer, Flow, read)'
<1> USE SameEvents
<1>1. \A con, f : Has(con, f)' <=> Has(con, f)
  BY DEF Has, HasToken, HasBlock, HasPart
<1>2. \A tokens, class : TokensFormed(tokens, class)' <=> TokensFormed(tokens, class)
  BY DEF TokensFormed
<1>3. \A piece, kind : PieceFormed(piece, kind)' <=> PieceFormed(piece, kind)
  BY DEF PieceFormed
<1>4. \A pieces, kind : PiecesFormed(pieces, kind)' <=> PiecesFormed(pieces, kind)
  BY <1>3 DEF PiecesFormed
<1>5. \A con : Formed(con)' <=> Formed(con)
  BY <1>2, <1>4 DEF Formed
<1> QED
  BY <1>1, <1>5 DEF Held

LEMMA SameWhole ==
  ASSUME adapter' = adapter, reply' = reply, Whole(consumer')
  PROVE  Whole(consumer)'
<1>1. \A b : Tokens(b)' = Tokens(b)
  BY DEF Tokens
<1>2. \A e : IsDelta(e)' <=> IsDelta(e)
  BY DEF IsDelta
<1>3. \A tokens, kind : Spells(tokens, kind)' <=> Spells(tokens, kind)
  BY <1>1, <1>2 DEF Spells
<1>4. \A pieces, kind : Collects(pieces, kind)' <=> Collects(pieces, kind)
  BY <1>1 DEF Collects
<1> QED
  BY <1>3, <1>4 DEF Whole

\* The reply begins with nothing held, or with the error of its status.
LEMMA HeldStart ==
  ASSUME StreamTypeOK, NEW con, con.text = <<>>, con.reasoning = <<>>, con.states = <<>>, con.calls = <<>>,
         NEW flow, \A i \in DOMAIN flow : flow[i].error, \A i, j \in DOMAIN flow : ~(i < j)
  PROVE  Held(con, flow, <<0, 0>>)
<1>0. \A i : i \notin DOMAIN <<>>
  OBVIOUS
<1>1. Formed(con)
  BY <1>0 DEF Formed, TokensFormed, PiecesFormed
<1>2. \A f : ~Has(con, f)
  BY <1>0 DEF Has, HasToken, HasBlock, HasPart
<1>3. ASSUME NEW f \in Wire PROVE Before(<<0, 0>>, f)
  <2>1. f \in Nat \X Nat /\ f[1] > 0
    BY WireFacts
  <2> QED
    BY <2>1 DEF Before
<1> QED
  BY <1>1, <1>2, <1>3 DEF Held

\* The next step of a call that goes on.
Goes == EndInv' /\ HeldInv' /\ ReplyIsWhole'

LEMMA Begins ==
  ASSUME StreamTypeOK, StreamTypeOK', StartInv, NEW status \in {"ok", "error"}, Begin(status)
  PROVE  Goes
<1>0. /\ adapter' = adapter /\ reply' = reply /\ read' = read /\ channel' = channel
      /\ DOMAIN producer = {"pc", "chunk"} /\ DOMAIN relay = {"pc", "chunk"} /\ "pc" \in DOMAIN consumer
      /\ consumer' = [consumer EXCEPT !.pc = "select"]
  BY DEF Begin, request, StreamTypeOK
<1>1. /\ read = <<0, 0>> /\ channel = <<>> /\ relay.pc = "off"
      /\ consumer.text = <<>> /\ consumer.reasoning = <<>> /\ consumer.states = <<>> /\ consumer.calls = <<>>
  BY DEF Begin, StartInv
<1>2. relay'.pc \in {"off", "take"}
  BY <1>0, <1>1 DEF Begin
<1>3. /\ consumer'.text = <<>> /\ consumer'.reasoning = <<>> /\ consumer'.states = <<>> /\ consumer'.calls = <<>>
      /\ consumer'.pc = "select"
  BY <1>0, <1>1
<1>4. \/ producer'.pc = "read" /\ Flow' = <<>>
      \/ producer'.pc = "emit" /\ Flow' = <<ErrorChunk>>
  <2>1. Given' = <<>> /\ channel' = <<>>
    BY <1>0, <1>1, <1>2 DEF Given
  <2>2. \/ producer'.pc = "read" /\ Sending' = <<>>
        \/ producer'.pc = "emit" /\ Sending' = <<ErrorChunk>>
    BY <1>0 DEF Begin, Sending
  <2> QED
    BY <2>1, <2>2 DEF Flow
<1>5. (\A i \in DOMAIN Flow' : Flow'[i].error) /\ (\A i, j \in DOMAIN Flow' : ~(i < j))
  BY <1>4, ErrorChunkIs
<1>6. Held(consumer', Flow', read')
  BY <1>0, <1>1, <1>3, <1>5, HeldStart
<1>7. HeldInv'
  BY <1>0, <1>6, SameHeld DEF HeldInv
<1>8. EndInv'
  BY <1>2, <1>4 DEF EndInv
<1>9. ReplyIsWhole'
  BY <1>3 DEF ReplyIsWhole
<1> QED
  BY <1>7, <1>8, <1>9 DEF Goes

LEMMA TailIs ==
  ASSUME NEW S, NEW s \in Seq(S), s # <<>>
  PROVE  /\ \A i \in DOMAIN Tail(s) : i + 1 \in DOMAIN s /\ Tail(s)[i] = s[i + 1]
         /\ s[Len(s)] # s[1] => Tail(s) # <<>> /\ Tail(s)[Len(Tail(s))] = s[Len(s)]
<1>1. /\ Len(s) \in Nat /\ Len(s) > 0 /\ Len(Tail(s)) = Len(s) - 1
      /\ DOMAIN s = 1..Len(s) /\ DOMAIN Tail(s) = 1..(Len(s) - 1)
      /\ \A i \in 1..(Len(s) - 1) : Tail(s)[i] = s[i + 1]
  OBVIOUS
<1>2. ASSUME s[Len(s)] # s[1] PROVE Tail(s) # <<>> /\ Tail(s)[Len(Tail(s))] = s[Len(s)]
  <2>1. Len(s) - 1 \in 1..(Len(s) - 1) /\ (Len(s) - 1) + 1 = Len(s)
    BY <1>1, <1>2
  <2>2. Tail(s)[Len(s) - 1] = s[Len(s)]
    BY <1>1, <2>1
  <2>3. Len(Tail(s)) # 0 /\ Len(<<>>) = 0
    BY <1>1, <1>2
  <2>4. Tail(s) # <<>>
    BY <2>3
  <2> QED
    BY <1>1, <2>2, <2>4
<1> QED
  BY <1>1, <1>2

\* The consumer takes the first chunk of the flow.
LEMMA TakesChunk ==
  ASSUME StreamTypeOK, Live, EndInv, HeldInv,
         Flow # <<>>, consumer' = Consumed(Flow[1]), Flow' = Tail(Flow), relay'.pc # "ended",
         UNCHANGED <<adapter, reply, read, producer, ctxDone>>
  PROVE  Goes
<1>0. /\ adapter' = adapter /\ reply' = reply /\ read' = read /\ producer' = producer
      /\ Flow \in Seq(ChunkType) /\ Held(consumer, Flow, read)
  BY FlowTyped DEF HeldInv
<1>2. CASE Flow[1].error
  <2>1. consumer'.pc = "error"
    BY <1>2 DEF Consumed, StreamTypeOK
  <2> QED
    BY <2>1 DEF Goes, EndInv, HeldInv, ReplyIsWhole, Live
<1>3. CASE Flow[1].done /\ ~Flow[1].error
  <2>1. Whole(consumer)
    BY <1>0, <1>3, HeldFinal
  <2>2. /\ Flow[1].text = <<>> /\ Flow[1].reasoning = <<>> /\ Flow[1].state = None /\ Flow[1].call = None
    <3> DEFINE e == Source(Flow[1])
    <3>1. e \in Wire /\ Carries(e, Flow[1])
      BY <1>0, <1>3, HeldReady
    <3>2. e = Final
      BY <1>3, <3>1, SourceOf
    <3>3. Class(e) = "final"
      BY <3>1, <3>2, ClassFacts
    <3>4. Flow[1] = [NoChunk EXCEPT !.done = TRUE]
      BY <3>1, <3>3 DEF Carries
    <3> QED
      BY <3>4, ChunkFields DEF NoChunk
  <2>3. /\ consumer'.text = consumer.text /\ consumer'.reasoning = consumer.reasoning
        /\ consumer'.states = consumer.states /\ consumer'.calls = consumer.calls /\ consumer'.pc = "ok"
    BY <1>3, <2>2, ConsumerParts DEF Consumed
  <2>4. Whole(consumer')
    BY <2>1, <2>3 DEF Whole
  <2>5. Whole(consumer)'
    BY <1>0, <2>4, SameWhole
  <2>6. ReplyIsWhole'
    BY <2>5 DEF ReplyIsWhole, Whole
  <2> QED
    BY <2>3, <2>6 DEF Goes, EndInv, HeldInv, Live
<1>4. CASE ~Terminal(Flow[1])
  <2>1. consumer'.pc = "select"
    BY <1>4 DEF Terminal, Consumed
  <2>2. Held(consumer', Flow', read')
    BY <1>0, <1>4, HeldTake
  <2>3. HeldInv'
    BY <1>0, <2>2, SameHeld DEF HeldInv
  <2>4. /\ \A i \in DOMAIN Flow' : i + 1 \in DOMAIN Flow /\ Flow'[i] = Flow[i + 1]
        /\ Flow[Len(Flow)] # Flow[1] => Flow' # <<>> /\ Flow'[Len(Flow')] = Flow[Len(Flow)]
    BY <1>0, TailIs
  <2>5. EndInv'
    BY <1>0, <1>4, <2>4 DEF EndInv
  <2>6. ReplyIsWhole'
    BY <2>1 DEF ReplyIsWhole
  <2> QED
    BY <2>3, <2>5, <2>6 DEF Goes
<1> QED
  BY <1>2, <1>3, <1>4 DEF Terminal

\* A step that the flow of chunks does not show.
LEMMA Unseen ==
  ASSUME Live, HeldInv, ReplyIsWhole, EndInv', Flow' = Flow, UNCHANGED <<adapter, reply, read, consumer>>
  PROVE  Goes
<1>1. adapter' = adapter /\ reply' = reply /\ read' = read /\ consumer' = consumer
  OBVIOUS
<1>2. Held(consumer', Flow', read')
  BY <1>1 DEF HeldInv
<1>3. HeldInv'
  BY <1>1, <1>2, SameHeld DEF HeldInv
<1>4. ReplyIsWhole'
  BY <1>1 DEF Live, ReplyIsWhole
<1> QED
  BY <1>3, <1>4 DEF Goes

\* The adapter reads, sends and ends.
LEMMA ReadGoes ==
  ASSUME StreamTypeOK, AccInv, Live, EndInv, HeldInv, ReplyIsWhole, ReadEvent
  PROVE  Goes
<1>0. /\ adapter' = adapter /\ reply' = reply /\ consumer' = consumer /\ relay' = relay /\ channel' = channel
      /\ producer.pc = "read" /\ relay.pc # "ended" /\ Given' = Given
  BY DEF ReadEvent, request, Live, EndInv, Given
<1>1. PICK e \in Wire : /\ Follows(read, e) /\ read' = e
                        /\ \E c \in Chunks(e) :
                             producer' = IF c = None THEN producer ELSE [pc |-> "emit", chunk |-> c]
  BY DEF ReadEvent
<1>2. PICK c \in Chunks(e) : producer' = IF c = None THEN producer ELSE [pc |-> "emit", chunk |-> c]
  BY <1>1
<1>3. \/ c = None /\ Class(e) = "nothing"
      \/ Carries(e, c) /\ c \in ChunkType /\ c # None
  BY <1>1, ChunksCarry
<1>4. Sending = <<>> /\ Flow \in Seq(ChunkType) /\ Held(consumer, Flow, read) /\ \A i \in DOMAIN Flow : ~Terminal(Flow[i])
  BY <1>0, FlowTyped DEF Sending, HeldInv, EndInv
<1>5. ReplyIsWhole'
  BY <1>0 DEF Live, ReplyIsWhole
<1>6. CASE c = None /\ Class(e) = "nothing"
  <2>1. producer' = producer
    BY <1>2, <1>6
  <2>2. Flow' = Flow
    BY <1>0, <2>1 DEF Flow, Given, Sending
  <2>3. Held(consumer', Flow', read')
    BY <1>0, <1>1, <1>4, <1>6, <2>2, HeldSilent
  <2>4. EndInv'
    BY <1>0, <1>4, <2>1, <2>2 DEF EndInv
  <2> QED
    BY <1>0, <1>5, <2>3, <2>4, SameHeld DEF HeldInv, Goes
<1>7. CASE Carries(e, c) /\ c \in ChunkType /\ c # None
  <2>1. producer'.pc = "emit" /\ Sending' = <<c>>
    BY <1>2, <1>7 DEF Sending
  <2>2. Flow' = Append(Flow, c)
    BY <1>0, <1>4, <1>7, <2>1, FlowTyped, Sent DEF Flow
  <2>3. Held(consumer', Flow', read')
    BY <1>0, <1>1, <1>4, <1>7, <2>2, HeldAppend
  <2>4. EndInv'
    BY <1>0, <2>1 DEF EndInv
  <2> QED
    BY <1>0, <1>5, <2>3, <2>4, SameHeld DEF HeldInv, Goes
<1> QED
  BY <1>3, <1>6, <1>7

LEMMA FailGoes ==
  ASSUME StreamTypeOK, Live, EndInv, HeldInv, ReplyIsWhole, ReadFails
  PROVE  Goes
<1>0. /\ adapter' = adapter /\ reply' = reply /\ consumer' = consumer /\ relay' = relay /\ channel' = channel
      /\ read' = read /\ producer.pc = "read" /\ relay.pc # "ended" /\ Given' = Given
      /\ producer' = [pc |-> "emit", chunk |-> ErrorChunk]
  BY DEF ReadFails, request, Live, EndInv, Given
<1>1. Sending = <<>> /\ Flow \in Seq(ChunkType) /\ Held(consumer, Flow, read) /\ \A i \in DOMAIN Flow : ~Terminal(Flow[i])
  BY <1>0, FlowTyped DEF Sending, HeldInv, EndInv
<1>2. producer'.pc = "emit" /\ Sending' = <<ErrorChunk>>
  BY <1>0 DEF Sending
<1>3. Flow' = Append(Flow, ErrorChunk)
  BY <1>0, <1>1, <1>2, FlowTyped, ErrorChunkIs, Sent DEF Flow
<1>4. Held(consumer', Flow', read')
  BY <1>0, <1>1, <1>3, ErrorChunkIs, HeldError
<1>5. EndInv'
  BY <1>0, <1>2 DEF EndInv
<1>6. ReplyIsWhole'
  BY <1>0 DEF Live, ReplyIsWhole
<1> QED
  BY <1>0, <1>4, <1>5, <1>6, SameHeld DEF HeldInv, Goes

LEMMA EmitGoes ==
  ASSUME StreamTypeOK, Live, EndInv, HeldInv, ReplyIsWhole, EmitChunk
  PROVE  Goes
<1>0. /\ adapter' = adapter /\ reply' = reply /\ consumer' = consumer /\ relay' = relay /\ read' = read
      /\ channel' = Append(channel, producer.chunk) /\ producer.pc = "emit" /\ relay.pc # "ended" /\ Given' = Given
      /\ producer.chunk \in ChunkType /\ DOMAIN producer = {"pc", "chunk"}
  BY DEF EmitChunk, request, Live, EndInv, Given, StreamTypeOK
<1>1. producer'.pc = IF Terminal(producer.chunk) THEN "closing" ELSE "read"
  BY <1>0 DEF EmitChunk, Emitted
<1>2. Sending = <<producer.chunk>> /\ Sending' = <<>>
  BY <1>0, <1>1 DEF Sending
<1>3. Flow' = Flow
  BY <1>0, <1>2, FlowTyped, Sent DEF Flow
<1>4. Flow \in Seq(ChunkType) /\ Flow = Append(Given \o channel \o <<>>, producer.chunk)
  BY <1>0, <1>2, FlowTyped, Sent DEF Flow
<1>5. Flow # <<>> /\ Flow[Len(Flow)] = producer.chunk /\ Len(Flow) \in DOMAIN Flow
      /\ \A i \in DOMAIN Flow : i = Len(Flow) \/ i < Len(Flow)
  <2> DEFINE front == Given \o channel \o <<>>
  <2>1. front \in Seq(ChunkType)
    BY FlowTyped
  <2> HIDE DEF front
  <2>2. Flow = Append(front, producer.chunk)
    BY <1>4 DEF front
  <2>3. /\ Len(front) \in Nat /\ Len(Flow) = Len(front) + 1 /\ DOMAIN Flow = 1..(Len(front) + 1)
        /\ Flow[Len(front) + 1] = producer.chunk
    BY <1>0, <2>1, <2>2, AppendIs
  <2>4. Flow # <<>>
    BY <2>3
  <2> HIDE DEF front
  <2> QED
    BY <2>3, <2>4
<1>6. \A i \in DOMAIN Flow : i = Len(Flow) \/ ~Terminal(Flow[i])
  BY <1>5 DEF HeldInv, Held
<1>7. EndInv'
  BY <1>0, <1>1, <1>3, <1>5, <1>6 DEF EndInv
<1> QED
  BY <1>0, <1>3, <1>7, Unseen

\* The relay and the consumer take.
LEMMA RelayGoes ==
  ASSUME StreamTypeOK, StartInv, Live, EndInv, HeldInv, ReplyIsWhole, RelayTakes \/ RelayEnds
  PROVE  Goes
<1>0. /\ adapter' = adapter /\ reply' = reply /\ consumer' = consumer /\ producer' = producer /\ read' = read
      /\ relay.pc # "ended" /\ Sending' = Sending /\ ctxDone' = ctxDone /\ ~ctxDone
  BY DEF RelayTakes, RelayEnds, request, Live, EndInv, Sending
<1>1. CASE RelayTakes
  <2>1. relay.pc = "take" /\ relay' = [pc |-> "give", chunk |-> Head(channel)] /\ channel # <<>> /\ channel' = Tail(channel)
    BY <1>1 DEF RelayTakes
  <2>2. Given = <<>> /\ Given' = <<Head(channel)>>
    BY <2>1 DEF Given
  <2>3. Flow' = Flow
    BY <1>0, <2>1, <2>2, FlowTyped, Relayed DEF Flow
  <2>4. EndInv'
    BY <1>0, <2>1, <2>3 DEF EndInv, Live
  <2> QED
    BY <1>0, <2>3, <2>4, Unseen
<1>2. CASE RelayEnds
  <2>1. relay.pc = "take" /\ channel = <<>> /\ closed
    BY <1>0, <1>2 DEF RelayEnds
  <2>2. producer.pc = "ended"
    BY <2>1 DEF StartInv
  <2>3. Flow = <<>>
    BY <2>1, <2>2 DEF Flow, Given, Sending
  <2> QED
    BY <2>2, <2>3 DEF EndInv
<1> QED
  BY <1>1, <1>2

LEMMA ConsumingGoes ==
  ASSUME StreamTypeOK, StartInv, Live, EndInv, HeldInv, Consuming
  PROVE  Goes
<1>0. /\ adapter' = adapter /\ reply' = reply /\ producer' = producer /\ read' = read
      /\ relay.pc # "ended" /\ Sending' = Sending /\ ctxDone' = ctxDone /\ ~ctxDone
  BY DEF Consuming, TakeRelayed, TakeChunk, TakeClosed, TakeDone, request, Live, EndInv, Sending
<1>1. CASE TakeRelayed
  <2>1. relay.pc = "give" /\ consumer' = Consumed(relay.chunk) /\ relay'.pc = "take" /\ channel' = channel
        /\ relay.chunk \in ChunkType
    BY <1>1 DEF TakeRelayed, StreamTypeOK
  <2>2. Given = <<relay.chunk>> /\ Given' = <<>>
    BY <2>1 DEF Given
  <2>3. Flow' = Tail(Flow) /\ Flow[1] = relay.chunk /\ Flow # <<>>
    BY <1>0, <2>1, <2>2, FlowTyped, Consumes DEF Flow
  <2> QED
    BY <1>0, <2>1, <2>3, TakesChunk
<1>2. CASE TakeChunk
  <2>1. ~logged /\ channel # <<>> /\ consumer' = Consumed(Head(channel)) /\ channel' = Tail(channel) /\ relay' = relay
    BY <1>2 DEF TakeChunk
  <2>2. relay.pc = "off" /\ Given = <<>> /\ Given' = <<>>
    BY <2>1 DEF StartInv, Given
  <2>3. Flow' = Tail(Flow) /\ Flow[1] = Head(channel) /\ Flow # <<>>
    BY <1>0, <2>1, <2>2, FlowTyped, Relayed DEF Flow
  <2> QED
    BY <1>0, <2>1, <2>2, <2>3, TakesChunk
<1>3. CASE TakeClosed
  <2>1. ~logged /\ closed /\ channel = <<>>
    BY <1>0, <1>3 DEF TakeClosed
  <2>2. producer.pc = "ended" /\ relay.pc = "off"
    BY <2>1 DEF StartInv
  <2>3. Flow = <<>>
    BY <2>1, <2>2 DEF Flow, Given, Sending
  <2> QED
    BY <2>2, <2>3 DEF EndInv
<1>4. CASE TakeDone
  BY <1>0, <1>4 DEF TakeDone
<1> QED
  BY <1>1, <1>2, <1>3, <1>4 DEF Consuming

LEMMA LiveGoes ==
  ASSUME StreamTypeOK, StartInv, AccInv, EndInv, HeldInv, ReplyIsWhole, Live, [StreamNext]_streamVars
  PROVE  Goes
<1>0. producer.pc \notin {"connecting", "headers"} /\ ~ctxDone
  BY DEF StartInv, Live
<1>1. CASE TimerActs \/ UNCHANGED streamVars
  <2>1. UNCHANGED <<adapter, reply, ctxDone, read, consumer, producer, relay, channel>>
    BY <1>1 DEF TimerActs, streamVars, request
  <2>2. Flow' = Flow
    BY <2>1 DEF Flow, Given, Sending
  <2>3. EndInv'
    BY <2>1, <2>2 DEF EndInv, Live
  <2> QED
    BY <2>1, <2>2, <2>3, Unseen
<1>2. CASE Close
  <2>1. UNCHANGED <<adapter, reply, ctxDone, read, consumer, relay, channel>> /\ producer.pc = "closing"
        /\ producer' = [producer EXCEPT !.pc = "ended"]
    BY <1>2 DEF Close, request
  <2>2. producer'.pc = "ended"
    BY <2>1 DEF StreamTypeOK
  <2>3. Flow' = Flow
    BY <2>1, <2>2 DEF Flow, Given, Sending
  <2>4. EndInv'
    BY <2>1, <2>2, <2>3 DEF EndInv, Live
  <2> QED
    BY <2>1, <2>3, <2>4, Unseen
<1>3. CASE CancelCall
  BY <1>3 DEF CancelCall, Goes, EndInv, HeldInv, ReplyIsWhole, Live
<1>4. ~(TimerFires \/ Headers \/ NoHeaders \/ TooLate \/ EmitCancelled \/ \E status \in {"ok", "error"} : Begin(status))
  BY <1>0 DEF TimerFires, Headers, NoHeaders, TooLate, EmitCancelled, Begin
<1> QED
  BY <1>1, <1>2, <1>3, <1>4, ReadGoes, FailGoes, EmitGoes, RelayGoes, ConsumingGoes
     DEF StreamNext, Producing, Relaying

\* A call that does not wait for a chunk.
LEMMA OtherGoes ==
  ASSUME StreamTypeOK, StreamTypeOK', StartInv, ReplyIsWhole, ~Live, [StreamNext]_streamVars
  PROVE  Goes
<1>1. CASE ctxDone
  <2>1. ctxDone'
    BY <1>1 DEF StreamNext, streamVars, TimerFires, TimerActs, Headers, NoHeaders, Refused, ReadEvent, ReadFails,
         Producing, EmitChunk, EmitCancelled, Close, TooLate, Begin, Relaying, RelayTakes, RelayEnds,
         Consuming, TakeRelayed, TakeChunk, TakeClosed, TakeDone, CancelCall
  <2> QED
    BY <2>1 DEF Goes, EndInv, HeldInv, ReplyIsWhole, Live
<1>2. CASE Begin("ok") \/ Begin("error")
  BY <1>2, Begins
<1>3. CASE NoHeaders \/ TooLate
  <2>1. PICK reason \in {"cancelled", "error"} : Refused(reason)
    BY <1>3 DEF NoHeaders, TooLate
  <2>2. consumer'.pc = reason
    BY <2>1 DEF Refused, StreamTypeOK
  <2> QED
    BY <2>2 DEF Goes, EndInv, HeldInv, ReplyIsWhole, Live
<1>4. CASE consumer' = consumer /\ ~ctxDone
  <2>1. adapter' = adapter /\ reply' = reply
    BY Framed
  <2>2. ~(consumer.pc = "select")
    BY <1>4 DEF Live
  <2>3. ASSUME consumer.pc = "ok" PROVE Whole(consumer)'
    <3>1. Whole(consumer')
      BY <1>4, <2>3 DEF ReplyIsWhole, Whole
    <3> QED
      BY <2>1, <3>1, SameWhole
  <2>4. ReplyIsWhole'
    BY <1>4, <2>3 DEF ReplyIsWhole, Whole
  <2> QED
    BY <1>4, <2>2, <2>4 DEF Goes, EndInv, HeldInv, Live
<1>5. ctxDone \/ Begin("ok") \/ Begin("error") \/ NoHeaders \/ TooLate \/ consumer' = consumer
  BY DEF StreamNext, streamVars, TimerFires, TimerActs, Headers, ReadEvent, ReadFails, Live,
         Producing, EmitChunk, EmitCancelled, Close, Relaying, RelayTakes, RelayEnds,
         Consuming, TakeRelayed, TakeChunk, TakeClosed, TakeDone, CancelCall
<1> QED
  BY <1>1, <1>2, <1>3, <1>4, <1>5

LEMMA StreamInvInit == StreamInit => StreamInv
<1> SUFFICES ASSUME StreamInit PROVE StreamInv
  OBVIOUS
<1>1. StreamTypeOK
  BY StreamTypeInit
<1>2. consumer.pc = "waiting" /\ producer.pc = "connecting" /\ relay.pc = "off"
  BY DEF StreamInit
<1>3. StartInv
  BY <1>2 DEF StreamInit, StartInv
<1>4. AccInv
  <2> SUFFICES ASSUME NEW b \in DOMAIN reply PROVE acc[b] = [i \in 1..ReadOf(b) |-> <<b, i>>]
    BY DEF AccInv
  <2>1. acc[b] = <<>> /\ read[1] = 0 /\ b \in Nat /\ b > 0
    BY <1>1, ReplyFacts DEF StreamInit
  <2>2. ReadOf(b) = 0
    BY <2>1 DEF ReadOf
  <2> QED
    BY <2>1, <2>2
<1>5. EndInv /\ HeldInv /\ ReplyIsWhole
  BY <1>2 DEF EndInv, HeldInv, ReplyIsWhole, Live
<1> QED
  BY <1>1, <1>3, <1>4, <1>5 DEF StreamInv

LEMMA StreamInvStep == StreamInv /\ [StreamNext]_streamVars => StreamInv'
<1> SUFFICES ASSUME StreamInv, [StreamNext]_streamVars PROVE StreamInv'
  OBVIOUS
<1>1. StreamTypeOK /\ StartInv /\ AccInv /\ EndInv /\ HeldInv /\ ReplyIsWhole
  BY DEF StreamInv
<1>2. StreamTypeOK'
  BY <1>1, StreamTypeStep
<1>3. StartInv'
  BY <1>1, StartStep
<1>4. AccInv'
  BY <1>1, <1>2, AccStep
<1>5. Goes
  BY <1>1, <1>2, LiveGoes, OtherGoes
<1> QED
  BY <1>2, <1>3, <1>4, <1>5 DEF StreamInv, Goes

LEMMA StreamInvariant == StreamSpec => []StreamInv
BY StreamInvInit, StreamInvStep, PTL DEF StreamSpec

-----------------------------------------------------------------------------
(* The theorems about ModelStream *)

\* Every variable of a streamed request has its type, for any replies and any
\* capacity of the channel.
THEOREM StreamTypeCorrect == StreamSpec => []StreamTypeOK
<1>1. StreamInv => StreamTypeOK
  BY DEF StreamInv
<1> QED
  BY <1>1, StreamInvariant, PTL

\* A caller that consumeStream tells of no error, and that was not cancelled, has
\* the whole reply, each token once and in order: whatever the server and the
\* timer of the headers do, with each adapter, and with a logger between.
THEOREM ReplyComplete == StreamSpec => []ReplyIsWhole
<1>1. StreamInv => ReplyIsWhole
  BY DEF StreamInv
<1> QED
  BY <1>1, StreamInvariant, PTL
=============================================================================
