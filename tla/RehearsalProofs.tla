---------------------------- MODULE RehearsalProofs ----------------------------
(***************************************************************************)
(* The rehearsal for any dataset, number of ticks, personas, failures and  *)
(* handlers that raise.                                                    *)
(*                                                                         *)
(* The properties rest on where the client is in its script: a teardown    *)
(* is sent last, when there is nothing left to play, so until then a       *)
(* conversation that was opened stays, and the reply loop on it has it for *)
(* itself.  PlaceInv says the first, PlayInv the second; a claim has one   *)
(* holder (HoldInv), so a release never takes a conversation that a text   *)
(* was given out for.  While every request is answered, LoadInv says what  *)
(* the contexts are, and Known that an open conversation is on its way.    *)
(***************************************************************************)
EXTENDS Rehearsal, SequenceTheorems, WellFoundedInduction, TLAPS

Done == call.do \in {"answered", "failed"}

\* The request the client waits for, or has the answer of.
Asked == IF Done THEN call.to ELSE call

InLoop == call # Nothing /\ Asked.do = "reply"

Warm == Len(Warmup)

\* Only the last request but one of the script wipes the engine.
Unwiped ==
    \/ at < Len(Script) - 1
    \/ at = Len(Script) - 1 /\ (call = Nothing \/ InLoop)

\* What the answer to a request may be.
Returned(q) ==
    CASE q.do = "push" -> {"accepted", "stale"}
      [] q.do = "tick" -> Seq(Triggers)
      [] q.do = "reply" -> ReplyAnswer
      [] q.do \in {"teardown", "stateless"} -> {"ok"}
      [] OTHER -> SUBSET Ids

\* Ticks and looks are what raises.
IsResponse(c) ==
    /\ c.to \in Request
    /\ \/ c = [do |-> "answered", to |-> c.to, with |-> c.with] /\ c.with \in Returned(c.to)
       \/ c = [do |-> "failed", to |-> c.to] /\ c.to.do \in {"tick", "health"}

EngineType ==
    /\ contexts \in [Ids -> Nat \cup {Nothing}]
    /\ convs \in [Triggers -> Conversation \cup {Nothing}]
    /\ told \in [Triggers -> Seq(ReplyKind \cup {Opening})]

WireType ==
    /\ call = Nothing \/ call \in Request \/ IsResponse(call)
    /\ late \subseteq Request

Chats == [conv : Triggers, message : Personas \cup {NoMessage}, turn : Nat]

ClientType ==
    /\ at \in 1 .. Len(Script) + 1
    /\ chats \in Seq(Chats)
    /\ \A i \in DOMAIN chats :
          chats[i].turn = 1 \/ (i = 1 /\ chats[i].message \in Personas)
    /\ failures \in Nat
    /\ logged \subseteq Triggers
    /\ heard \in [Triggers -> SUBSET (ReplyKind \cup {Opening})]
    /\ stopped \subseteq Elements(Merchants)

TypeInv == EngineType /\ WireType /\ ClientType

\* Everything between the warmup and the wipe.
MidRequests ==
    {PushOf(id, version) : id \in Ids, version \in {1, 2}}
    \cup {PushOf(Merchants[1], 0)}
    \cup {TickOf(list, now) : list \in Seq(Triggers), now \in 0 .. NumTicks - 1}
    \cup {TickOf(<<Extra>>, FarFuture)}
    \cup {Stateless}

\* A request, perhaps half served, of the script.
From(q, s) ==
    /\ q.do = s.do
    /\ q.do \in {"push", "health", "stateless", "teardown"} => q = s
    /\ q.do = "tick" => q.now = s.now

\* The expired tick finds nothing to do.
FarTick(q) ==
    q.do = "tick" /\ q.now = FarFuture =>
        q.actions = <<>> /\ q.rest \in {<<>>, <<Extra>>} /\ q.step = "test"

PlaceInv ==
    /\ call # Nothing /\ ~InLoop =>
          /\ at <= Len(Script)
          /\ chats = <<>>
          /\ From(Asked, Script[at])
          /\ FarTick(Asked)
    /\ Answered("tick") => call.with = call.to.actions
    /\ InLoop => Playing /\ Asked = ReplyOf(Head(chats).conv, Head(chats).message)
    /\ chats # <<>> => at > Warm /\ at < Len(Script)
    /\ Unwiped => \A r \in late : r.do # "teardown"

\* The conversation as the next turn of the loop finds it.
Ready(turn, g, message) ==
    \/ turn = 2 /\ convs[g] = Fresh
    \/ /\ turn \in {3, 4}
       /\ message \notin HostileMarked
       /\ \/ convs[g].status = "ended"
          \/ convs[g].last = message /\ (turn = 4 => convs[g].hits > 0)

\* A conversation that a tick has opened and the client has not come to.
Unheard(g) == g \notin logged /\ convs[g] = Fresh /\ told[g] # <<>>

Apart(list) == \A i, j \in DOMAIN list : list[i] = list[j] => i = j

ChatsInv ==
    /\ \A i, j \in DOMAIN chats : chats[i].conv = chats[j].conv => i = j
    /\ \A i \in DOMAIN chats : i > 1 \/ ~Playing => Unheard(chats[i].conv)

TickInv ==
    call # Nothing /\ Asked.do = "tick" =>
        Apart(Asked.actions) /\ \A i \in DOMAIN Asked.actions : Unheard(Asked.actions[i])

\* A claim has one holder, and nothing was said in its conversation.
HoldInv ==
    \A r \in InService : AtStep(r, "compose") =>
        /\ convs[Head(r.rest)] = Fresh
        /\ told[Head(r.rest)] = <<>>
        /\ ~(r = call /\ r \in late)
        /\ \A s \in InService : AtStep(s, "compose") /\ Head(s.rest) = Head(r.rest) => s = r

\* What was given out in a conversation: its opening, and then what its record has.
ToldInv ==
    \A g \in Triggers : told[g] # <<>> =>
        /\ convs[g] # Nothing
        /\ told[g][1] = Opening
        /\ Apart(told[g])
        /\ \A i \in DOMAIN told[g] : i > 1 => told[g][i] \in convs[g].sent

\* What was heard of a conversation is in its record, and of the others nothing was.
HeardInv ==
    /\ \A g \in logged : told[g] # <<>> /\ heard[g] \ {Opening} \subseteq convs[g].sent
    /\ \A g \in Triggers \ logged : heard[g] = {}

LateInv ==
    \A r \in late : r.do = "reply" => r.conv \in logged /\ (Playing => r.conv # Head(chats).conv)

LoopInv ==
    Playing =>
        LET c == Head(chats) IN
        /\ c.conv \in logged
        /\ call = Nothing \/ call.do = "reply" => Ready(c.turn, c.conv, c.message)
        /\ call # Nothing /\ call.do = "answered" =>
              /\ c.turn <= 4
              /\ call.with.action # "end" => Ready(c.turn + 1, c.conv, c.message)
              /\ call.with.action = "send" =>
                    call.with.body \in convs[c.conv].sent \ heard[c.conv]
              /\ c.message \in HostileMarked => MerchantOf[c.conv] \in optedOut

\* A tick has nothing from a merchant that had stopped when it was sent, nor will it.
Minds(r) ==
    /\ r.stops \subseteq stopped
    /\ AtStep(r, "claim") \/ AtStep(r, "compose") => MerchantOf[Head(r.rest)] \notin r.stops
    /\ \A g \in Elements(r.actions) : MerchantOf[g] \notin r.stops

StopInv ==
    /\ stopped \subseteq optedOut
    /\ \A r \in InService : r.do = "tick" => Minds(r)

PlayInv ==
    /\ ChatsInv
    /\ TickInv
    /\ HoldInv
    /\ ToldInv
    /\ HeardInv
    /\ LateInv
    /\ LoopInv
    /\ StopInv

\* What the engine has loaded while every request is answered.
Pushed(n) == {Base[j] : j \in 1 .. n}

LoadInv ==
    /\ at <= Warm =>
          /\ Loaded = Pushed(IF Answered("push") THEN at - 2 ELSE at - 3)
          /\ \A id \in Loaded : contexts[id] > 0
    /\ at = Warm /\ Answered("health") => call.with = Elements(Base)
    /\ at > Warm /\ at < Len(Script) - 1 =>
          Stored(Merchants[1]) /\ contexts[Merchants[1]] > 0
    /\ Answered("push") /\ call.to.version = 0 => call.with = "stale"
    /\ Answered("teardown") => Loaded = {}
    /\ at >= Len(Script) => Loaded = {}
    /\ at = Len(Script) /\ Answered("health") => call.with = {}
    /\ call # Nothing /\ call.do = "failed" => call.to.do = "tick"

SoundInv == failures = 0 => late = {} /\ faults \subseteq {"fivexx"} /\ LoadInv

\* No slip of the engine's reaches the client, whatever is given up.
NoSlip == faults \cap {"duplicate", "repeat", "expired"} = {}

-------------------------------------------------------------------------------
(***************************************************************************)
(* The script.                                                             *)
(***************************************************************************)

LEMMA ElementsOfConcat ==
    ASSUME NEW S, NEW s \in Seq(S), NEW t \in Seq(S)
    PROVE  Elements(s) \subseteq Elements(s \o t) /\ Elements(t) \subseteq Elements(s \o t)
  <1>1. /\ s \o t \in Seq(S) /\ Len(s \o t) = Len(s) + Len(t)
        /\ \A i \in 1 .. Len(s) + Len(t) :
              (s \o t)[i] = IF i <= Len(s) THEN s[i] ELSE t[i - Len(s)]
    BY ConcatProperties
  <1>2. /\ Len(s) \in Nat /\ DOMAIN s = 1 .. Len(s) /\ Len(t) \in Nat /\ DOMAIN t = 1 .. Len(t)
        /\ DOMAIN (s \o t) = 1 .. Len(s) + Len(t)
    BY <1>1, LenProperties
  <1>3. \A i \in DOMAIN s : i \in DOMAIN (s \o t) /\ (s \o t)[i] = s[i]
    BY <1>1, <1>2
  <1>4. \A i \in DOMAIN t : i + Len(s) \in DOMAIN (s \o t) /\ (s \o t)[i + Len(s)] = t[i]
    <2>1. SUFFICES ASSUME NEW i \in DOMAIN t
                   PROVE  i + Len(s) \in DOMAIN (s \o t) /\ (s \o t)[i + Len(s)] = t[i]
      OBVIOUS
    <2>2. /\ i + Len(s) \in 1 .. Len(s) + Len(t) /\ ~(i + Len(s) <= Len(s))
          /\ i + Len(s) - Len(s) = i
      BY <1>2
    <2> QED BY <1>1, <1>2, <2>2
  <1> QED BY <1>3, <1>4 DEF Elements

LEMMA SequencesOfBase ==
    /\ Categories \in Seq(Ids) /\ Merchants \in Seq(Ids) /\ Seeds \in Seq(Triggers)
    /\ Base \in Seq(Ids) /\ Len(Base) \in Nat /\ DOMAIN Base = 1 .. Len(Base)
    /\ Seeds \in Seq(Ids) /\ Triggers \subseteq Ids
    /\ Len(Merchants) \in Nat \ {0}
    /\ Extra \in Triggers
    /\ Merchants[1] \in Ids /\ Merchants[1] \in Elements(Base)
  <1> DEFINE All == Elements(Categories) \cup Elements(Merchants) \cup Elements(Customers)
             CM == Categories \o Merchants
  <1>1. /\ Elements(Seeds) \subseteq Triggers
        /\ Triggers \subseteq Ids
        /\ Extra \in Triggers
    BY DEF Ids, Triggers
  <1>2. /\ Categories \in Seq(Elements(Categories))
        /\ Merchants \in Seq(Elements(Merchants))
        /\ Customers \in Seq(Elements(Customers))
        /\ Seeds \in Seq(Elements(Seeds))
    BY RehearsalAssumption
  <1>3. MerchantOf[Extra] \in Elements(Merchants)
    BY <1>1, RehearsalAssumption
  <1>4. Len(Merchants) \in Nat \ {0}
    BY <1>2, <1>3, EmptySeq, LenProperties DEF Elements
  <1>5. ASSUME NEW s, NEW S, NEW T, s \in Seq(S), S \subseteq T
        PROVE  s \in Seq(T)
    BY <1>5, SeqMonotonic
  <1>6. Merchants[1] \in Elements(Merchants)
    <2>1. DOMAIN Merchants = 1 .. Len(Merchants)
      BY <1>2, LenProperties
    <2>2. 1 \in DOMAIN Merchants
      BY <1>4, <2>1
    <2> QED BY <2>2 DEF Elements
  <1>7. Categories \in Seq(All) /\ Merchants \in Seq(All) /\ Customers \in Seq(All)
    <2>1. /\ Elements(Categories) \subseteq All
          /\ Elements(Merchants) \subseteq All
          /\ Elements(Customers) \subseteq All
      OBVIOUS
    <2> HIDE DEF All
    <2> QED BY <1>2, <1>5, <2>1
  <1>8. CM \in Seq(All) /\ Base = CM \o Customers
    <2> HIDE DEF All
    <2> QED BY <1>7, ConcatProperties DEF Base
  <1>9. Base \in Seq(All)
    <2> HIDE DEF All, CM
    <2> QED BY <1>7, <1>8, ConcatProperties
  <1>10. /\ Elements(Categories) \subseteq Elements(Base)
         /\ Elements(Merchants) \subseteq Elements(Base)
         /\ Elements(Customers) \subseteq Elements(Base)
    <2>1. Elements(Categories) \subseteq Elements(CM) /\ Elements(Merchants) \subseteq Elements(CM)
      <3> HIDE DEF All
      <3> QED BY <1>7, ElementsOfConcat
    <2>2. Elements(CM) \subseteq Elements(Base) /\ Elements(Customers) \subseteq Elements(Base)
      <3> HIDE DEF All, CM
      <3> QED BY <1>7, <1>8, ElementsOfConcat
    <2> QED BY <2>1, <2>2
  <1>11. All \subseteq Ids
    BY <1>10 DEF Ids
  <1>12. Categories \in Seq(Ids) /\ Merchants \in Seq(Ids) /\ Base \in Seq(Ids)
    <2> HIDE DEF All
    <2> QED BY <1>5, <1>7, <1>9, <1>11
  <1>13. Len(Base) \in Nat /\ DOMAIN Base = 1 .. Len(Base)
    BY <1>12, LenProperties
  <1>14. Seeds \in Seq(Triggers) /\ Seeds \in Seq(Ids)
    BY <1>1, <1>2, <1>5
  <1> QED BY <1>1, <1>4, <1>6, <1>10, <1>11, <1>12, <1>13, <1>14

LEMMA PushAllType ==
    ASSUME NEW s \in Seq(Ids)
    PROVE  /\ PushAll(s) \in Seq({PushOf(id, 1) : id \in Ids})
           /\ Len(PushAll(s)) = Len(s)
           /\ \A i \in 1 .. Len(s) : PushAll(s)[i] = PushOf(s[i], 1)
  <1>1. Len(s) \in Nat /\ DOMAIN s = 1 .. Len(s) /\ \A i \in 1 .. Len(s) : s[i] \in Ids
    BY LenProperties, ElementOfSeq
  <1>2. PushAll(s) = [i \in 1 .. Len(s) |-> PushOf(s[i], 1)]
    BY <1>1 DEF PushAll
  <1>3. PushAll(s) \in [1 .. Len(s) -> {PushOf(id, 1) : id \in Ids}]
    BY <1>1, <1>2
  <1> QED BY <1>1, <1>2, <1>3, LenProperties

LEMMA BatchType ==
    ASSUME NEW i \in Nat
    PROVE  Batch(i) \in Seq(Triggers) /\ Available(i) \in Seq(Triggers)
  <1>1. Len(Seeds) \in Nat \ {0}
    BY SequencesOfBase, RehearsalAssumption, EmptySeq
  <1>2. \A j \in 1 .. Len(Seeds) : Seeds[j] \in Triggers
    BY SequencesOfBase, ElementOfSeq
  <1>3. PerTick \in Nat
    <2>1. NumTicks \in Nat \ {0}
      BY RehearsalAssumption
    <2> QED BY <1>1, <2>1 DEF PerTick
  <1>4. i * PerTick \in Nat /\ (i + 1) * PerTick \in Nat
    BY <1>3
  <1> DEFINE first == i * PerTick + 1
             last == IF (i + 1) * PerTick < Len(Seeds) THEN (i + 1) * PerTick ELSE Len(Seeds)
  <1>5. first \in Int /\ first >= 1 /\ last \in Int /\ last <= Len(Seeds)
    BY <1>1, <1>4
  <1>6. Batch(i) = SubSeq(Seeds, first, last)
    BY DEF Batch
  <1>7. Batch(i) \in Seq(Triggers)
    <2> HIDE DEF first, last
    <2>1. \A j \in first .. last : Seeds[j] \in Triggers
      BY <1>1, <1>2, <1>5
    <2> QED BY <1>5, <1>6, <2>1, SubSeqProperties
  <1>8. LastPushed \in Seq(Triggers)
    <2>1. CASE Len(Seeds) = 1
      BY <2>1, SequencesOfBase DEF LastPushed
    <2>2. CASE Len(Seeds) # 1
      <3>1. \A j \in Len(Seeds) - 1 .. Len(Seeds) : Seeds[j] \in Triggers
        BY <1>1, <1>2, <2>2
      <3>2. SubSeq(Seeds, Len(Seeds) - 1, Len(Seeds)) \in Seq(Triggers)
        BY <1>1, <3>1, SubSeqProperties
      <3> QED BY <2>2, <3>2 DEF LastPushed
    <2> QED BY <2>1, <2>2
  <1> QED BY <1>7, <1>8 DEF Available

LEMMA CyclicType ==
    ASSUME NEW S, NEW s \in Seq(S), s # <<>>, NEW i \in Nat
    PROVE  Cyclic(s, i) \in S
  <1>1. Len(s) \in Nat \ {0}
    BY EmptySeq
  <1>2. (i % Len(s)) + 1 \in 1 .. Len(s)
    BY <1>1
  <1> QED BY <1>2, ElementOfSeq DEF Cyclic

LEMMA TickScriptType ==
    ASSUME NEW i \in 0 .. NumTicks - 1
    PROVE  TickScript(i) \in Seq(MidRequests)
  <1>1. i \in Nat /\ NumTicks \in Nat
    BY RehearsalAssumption
  <1>2. /\ \A id \in Ids : PushOf(id, 1) \in MidRequests /\ PushOf(id, 2) \in MidRequests
        /\ PushOf(Merchants[1], 0) \in MidRequests
        /\ \A list \in Seq(Triggers) : TickOf(list, i) \in MidRequests
        /\ TickOf(<<Extra>>, FarFuture) \in MidRequests
        /\ Stateless \in MidRequests
    <2>1. ASSUME NEW id \in Ids, NEW version \in {1, 2}
          PROVE  PushOf(id, version) \in MidRequests
      BY DEF MidRequests
    <2>2. ASSUME NEW list \in Seq(Triggers)
          PROVE  TickOf(list, i) \in MidRequests
      BY DEF MidRequests
    <2>3. /\ PushOf(Merchants[1], 0) \in MidRequests
          /\ TickOf(<<Extra>>, FarFuture) \in MidRequests
          /\ Stateless \in MidRequests
      BY DEF MidRequests
    <2> QED BY <2>1, <2>2, <2>3
  <1>3. PushAll(Batch(i)) \in Seq(MidRequests)
    <2>1. Batch(i) \in Seq(Ids)
      BY <1>1, BatchType, SequencesOfBase, SeqMonotonic
    <2>2. {PushOf(id, 1) : id \in Ids} \subseteq MidRequests
      BY <1>2
    <2> QED BY <2>1, <2>2, PushAllType, SeqMonotonic
  <1>4. Categories # <<>> /\ Merchants # <<>>
    <2>1. Merchants # <<>>
      BY SequencesOfBase
    <2>2. CategoryOf[Merchants[1]] \in Elements(Categories)
      <3>1. Merchants[1] \in Elements(Merchants)
        <4>1. DOMAIN Merchants = 1 .. Len(Merchants)
          BY SequencesOfBase, LenProperties
        <4>2. 1 \in DOMAIN Merchants
          BY <4>1, SequencesOfBase
        <4> QED BY <4>2 DEF Elements
      <3> QED BY <3>1, RehearsalAssumption
    <2>3. Categories # <<>>
      BY <2>2, SequencesOfBase, EmptySeq, LenProperties DEF Elements
    <2> QED BY <2>1, <2>3
  <1>5. ASSUME NEW q \in MidRequests PROVE <<q>> \in Seq(MidRequests)
    OBVIOUS
  <1>6. <<>> \in Seq(MidRequests)
    OBVIOUS
  <1>7. (IF i % 3 = 1 THEN <<PushOf(Cyclic(Merchants, i), 2)>> ELSE <<>>) \in Seq(MidRequests)
    <2>1. Cyclic(Merchants, i) \in Ids
      BY <1>1, <1>4, SequencesOfBase, CyclicType
    <2> QED BY <2>1, <1>2, <1>5, <1>6
  <1>8. (IF i % 4 = 2 THEN <<PushOf(Cyclic(Categories, i), 2)>> ELSE <<>>) \in Seq(MidRequests)
    <2>1. Cyclic(Categories, i) \in Ids
      BY <1>1, <1>4, SequencesOfBase, CyclicType
    <2> QED BY <2>1, <1>2, <1>5, <1>6
  <1>9. <<TickOf(Available(i), i)>> \in Seq(MidRequests)
    BY <1>1, <1>2, <1>5, BatchType
  <1>10. Interlude(i) \in Seq(MidRequests)
    <2>1. i % 4 = 0 \/ i % 4 = 1 \/ i % 4 = 2 \/ i % 4 = 3
      BY <1>1
    <2>2. /\ <<PushOf(Merchants[1], 1)>> \in Seq(MidRequests)
          /\ <<Stateless>> \in Seq(MidRequests)
          /\ <<PushOf(Merchants[1], 0)>> \in Seq(MidRequests)
      BY <1>2, <1>5, SequencesOfBase
    <2>3. <<PushOf(Extra, 1), TickOf(<<Extra>>, FarFuture)>> \in Seq(MidRequests)
      <3>1. ASSUME NEW p \in MidRequests, NEW q \in MidRequests
            PROVE  <<p, q>> \in Seq(MidRequests)
        OBVIOUS
      <3> QED BY <3>1, <1>2, SequencesOfBase
    <2>4. CASE i % 4 = 0
      BY <2>2, <2>4 DEF Interlude
    <2>5. CASE i % 4 = 1
      BY <2>2, <2>5 DEF Interlude
    <2>6. CASE i % 4 = 2
      BY <2>3, <2>6 DEF Interlude
    <2>7. CASE i % 4 = 3
      BY <2>2, <2>7 DEF Interlude
    <2> QED BY <2>1, <2>4, <2>5, <2>6, <2>7
  <1>11. ASSUME NEW p \in Seq(MidRequests), NEW q \in Seq(MidRequests)
         PROVE  p \o q \in Seq(MidRequests)
    BY ConcatProperties
  <1> QED BY <1>3, <1>7, <1>8, <1>9, <1>10, <1>11, Zenon DEF TickScript

\* The recursion that defines Window has a solution.
LEMMA WindowExists ==
    \E f : f = [i \in 0 .. NumTicks |-> IF i = 0 THEN <<>> ELSE f[i - 1] \o TickScript(i - 1)]
  <1> DEFINE Upto(n, f) ==
                 f = [i \in 0 .. n |-> IF i = 0 THEN <<>> ELSE f[i - 1] \o TickScript(i - 1)]
             Bad == {n \in Nat : ~ \E f : Upto(n, f)}
  <1>1. SUFFICES ASSUME Bad # {} PROVE FALSE
    BY RehearsalAssumption
  <1>2. PICK n \in Bad : \A m \in Bad : ~ (<<m, n>> \in OpToRel(<, Nat))
    <2> HIDE DEF Bad
    <2>1. Bad \subseteq Nat
      BY DEF Bad
    <2> QED BY <1>1, <2>1, NatLessThanWellFounded, WFMin
  <1>3. \A m \in Nat : m < n => m \notin Bad
    BY <1>2 DEF OpToRel
  <1>4. CASE n = 0
    <2> DEFINE f == [i \in 0 .. 0 |-> <<>>]
    <2>1. Upto(0, f)
      OBVIOUS
    <2> HIDE DEF f
    <2> QED BY <1>2, <1>4, <2>1
  <1>5. CASE n # 0
    <2>1. n - 1 \in Nat /\ n - 1 < n
      BY <1>5
    <2>2. PICK f : Upto(n - 1, f)
      BY <1>3, <2>1
    <2> DEFINE g == [i \in 0 .. n |-> IF i = n THEN f[n - 1] \o TickScript(n - 1) ELSE f[i]]
    <2>3. \A i \in 0 .. n : g[i] = IF i = 0 THEN <<>> ELSE g[i - 1] \o TickScript(i - 1)
      <3>1. SUFFICES ASSUME NEW i \in 0 .. n
                     PROVE  g[i] = IF i = 0 THEN <<>> ELSE g[i - 1] \o TickScript(i - 1)
        OBVIOUS
      <3>2. CASE i = n
        BY <3>2, <2>1
      <3>3. CASE i # n
        <4>1. i \in 0 .. n - 1
          BY <3>3, <2>1
        <4>2. f[i] = IF i = 0 THEN <<>> ELSE f[i - 1] \o TickScript(i - 1)
          BY <2>2, <4>1
        <4>3. g[i] = f[i]
          BY <3>3
        <4>4. i # 0 => g[i - 1] = f[i - 1]
          BY <4>1, <2>1
        <4> QED BY <4>2, <4>3, <4>4
      <3> QED BY <3>2, <3>3
    <2>4. Upto(n, g)
      <3>1. g = [i \in 0 .. n |-> g[i]]
        OBVIOUS
      <3> HIDE DEF g
      <3> QED BY <2>3, <3>1
    <2> HIDE DEF g
    <2> QED BY <1>2, <2>4
  <1> QED BY <1>4, <1>5

LEMMA WindowType ==
    ASSUME NEW n \in 0 .. NumTicks
    PROVE  Window[n] \in Seq(MidRequests)
  <1>1. NumTicks \in Nat
    BY RehearsalAssumption
  <1>2. \A i \in 0 .. NumTicks :
            Window[i] = IF i = 0 THEN <<>> ELSE Window[i - 1] \o TickScript(i - 1)
    <2>1. Window = [i \in 0 .. NumTicks |->
                        IF i = 0 THEN <<>> ELSE Window[i - 1] \o TickScript(i - 1)]
      BY WindowExists, Zenon DEF Window
    <2> QED BY <2>1
  <1> DEFINE Bad == {i \in 0 .. NumTicks : Window[i] \notin Seq(MidRequests)}
  <1>3. SUFFICES ASSUME Bad # {} PROVE FALSE
    OBVIOUS
  <1>4. PICK m \in Bad : \A i \in Bad : ~ (<<i, m>> \in OpToRel(<, Nat))
    <2>1. Bad \subseteq Nat
      BY <1>1
    <2> HIDE DEF Bad
    <2> QED BY <1>3, <2>1, NatLessThanWellFounded, WFMin
  <1>5. m \in 0 .. NumTicks /\ Window[m] \notin Seq(MidRequests)
    BY <1>4
  <1>6. \A i \in 0 .. NumTicks : i < m => Window[i] \in Seq(MidRequests)
    <2>1. SUFFICES ASSUME NEW i \in 0 .. NumTicks, i < m, Window[i] \notin Seq(MidRequests)
                   PROVE  FALSE
      OBVIOUS
    <2>2. i \in Bad
      BY <2>1
    <2>3. <<i, m>> \in OpToRel(<, Nat)
      BY <1>1, <1>5, <2>1 DEF OpToRel
    <2> QED BY <1>4, <2>2, <2>3
  <1>7. CASE m = 0
    <2>1. Window[m] = <<>>
      BY <1>2, <1>5, <1>7
    <2> QED BY <1>5, <2>1
  <1>8. CASE m # 0
    <2>1. m - 1 \in 0 .. NumTicks /\ m - 1 < m /\ m - 1 \in 0 .. NumTicks - 1
      BY <1>1, <1>5, <1>8
    <2>2. Window[m - 1] \in Seq(MidRequests)
      BY <1>6, <2>1
    <2>3. TickScript(m - 1) \in Seq(MidRequests)
      BY <2>1, TickScriptType
    <2>4. Window[m] = Window[m - 1] \o TickScript(m - 1)
      BY <1>2, <1>5, <1>8
    <2>5. Window[m] \in Seq(MidRequests)
      BY <2>2, <2>3, <2>4, ConcatProperties
    <2> QED BY <1>5, <2>5
  <1> QED BY <1>7, <1>8

LEMMA MidRequestsType == MidRequests \subseteq Request
  <1>1. ASSUME NEW id \in Ids, NEW version \in {1, 2}
        PROVE  PushOf(id, version) \in Request
    BY DEF PushOf, Request
  <1>2. PushOf(Merchants[1], 0) \in Request
    BY SequencesOfBase DEF PushOf, Request
  <1>3. ASSUME NEW list \in Seq(Triggers), NEW now \in Nat
        PROVE  TickOf(list, now) \in Request
    BY DEF TickOf, Request, Tick
  <1>4. Stateless \in Request
    BY DEF Stateless, Request
  <1>5. FarFuture \in Nat /\ \A now \in 0 .. NumTicks - 1 : now \in Nat
    BY RehearsalAssumption DEF FarFuture
  <1>6. TickOf(<<Extra>>, FarFuture) \in Request
    <2>1. <<Extra>> \in Seq(Triggers)
      BY SequencesOfBase
    <2> QED BY <1>3, <1>5, <2>1
  <1> QED BY <1>1, <1>2, <1>3, <1>4, <1>5, <1>6 DEF MidRequests

\* The warmup, the test window, the wipe and a last look.
LEMMA ScriptShape ==
    /\ Script \in Seq(Request) /\ Len(Script) \in Nat /\ Warm \in Nat
    /\ Len(Base) \in Nat /\ Warm = Len(Base) + 3 /\ Warm <= Len(Script) - 2
    /\ Script[1] = Health /\ Script[2] = Stateless
    /\ \A i \in 3 .. Warm - 1 :
          i - 2 \in 1 .. Len(Base) /\ Base[i - 2] \in Ids /\ Script[i] = PushOf(Base[i - 2], 1)
    /\ Script[Warm] = Health
    /\ \A i \in Warm + 1 .. Len(Script) - 2 : Script[i] \in MidRequests
    /\ Script[Len(Script) - 1] = Wipe
    /\ Script[Len(Script)] = Health
  <1> DEFINE W == Window[NumTicks]
             E == <<Wipe, Health>>
             D == <<Health, Stateless>>
             P == PushAll(Base)
             H == <<Health>>
  <1>1. Health \in Request /\ Wipe \in Request /\ Stateless \in Request
    BY DEF Health, Wipe, Stateless, Request
  <1>2. /\ H \in Seq(Request) /\ Len(H) = 1 /\ H[1] = Health
        /\ E \in Seq(Request) /\ Len(E) = 2 /\ E[1] = Wipe /\ E[2] = Health
        /\ D \in Seq(Request) /\ Len(D) = 2 /\ D[1] = Health /\ D[2] = Stateless
    BY <1>1
  <1>3. /\ W \in Seq(MidRequests) /\ W \in Seq(Request) /\ Len(W) \in Nat
    BY WindowType, RehearsalAssumption, MidRequestsType, SeqMonotonic, LenProperties
  <1>4. /\ Base \in Seq(Ids) /\ Len(Base) \in Nat
    BY SequencesOfBase
  <1>5. \A id \in Ids : PushOf(id, 1) \in Request
    BY DEF PushOf, Request
  <1>6. /\ P \in Seq(Request) /\ Len(P) = Len(Base)
        /\ \A i \in 1 .. Len(Base) : P[i] = PushOf(Base[i], 1)
    <2>1. {PushOf(id, 1) : id \in Ids} \subseteq Request
      BY <1>5
    <2> QED BY <2>1, <1>4, PushAllType, SeqMonotonic
  <1>7. \A i \in 1 .. Len(Base) : Base[i] \in Ids
    BY <1>4, ElementOfSeq
  <1>8. ASSUME NEW p \in Seq(Request), NEW q \in Seq(Request)
         PROVE  /\ p \o q \in Seq(Request) /\ Len(p \o q) = Len(p) + Len(q)
                /\ \A i \in 1 .. Len(p) + Len(q) :
                      (p \o q)[i] = IF i <= Len(p) THEN p[i] ELSE q[i - Len(p)]
    BY ConcatProperties
  <1> HIDE DEF W, E, D, P, H
  <1>9. /\ D \o P \in Seq(Request) /\ Len(D \o P) = Len(Base) + 2
        /\ (D \o P)[1] = Health /\ (D \o P)[2] = Stateless
        /\ \A i \in 3 .. Len(Base) + 2 : (D \o P)[i] = PushOf(Base[i - 2], 1)
    <2>1. /\ D \o P \in Seq(Request) /\ Len(D \o P) = Len(D) + Len(P)
          /\ \A i \in 1 .. Len(D) + Len(P) :
                (D \o P)[i] = IF i <= Len(D) THEN D[i] ELSE P[i - Len(D)]
      BY <1>2, <1>6, <1>8
    <2>2. /\ Len(D \o P) = Len(Base) + 2
          /\ \A i \in 1 .. Len(Base) + 2 :
                (D \o P)[i] = IF i <= 2 THEN D[i] ELSE P[i - 2]
      BY <1>2, <1>4, <1>6, <2>1
    <2>3. ASSUME NEW i \in 3 .. Len(Base) + 2
          PROVE  (D \o P)[i] = PushOf(Base[i - 2], 1)
      <3>1. i \in 1 .. Len(Base) + 2 /\ ~(i <= 2) /\ i - 2 \in 1 .. Len(Base)
        BY <1>4, <2>3
      <3>2. (D \o P)[i] = P[i - 2]
        BY <2>2, <3>1
      <3> QED BY <1>6, <3>1, <3>2
    <2>4. (D \o P)[1] = D[1] /\ (D \o P)[2] = D[2]
      <3>1. 1 \in 1 .. Len(Base) + 2 /\ 2 \in 1 .. Len(Base) + 2
        BY <1>4
      <3> QED BY <2>2, <3>1
    <2> QED BY <1>2, <2>1, <2>2, <2>3, <2>4
  <1>10. Warmup = (D \o P) \o H
    BY DEF Warmup, D, P, H
  <1>11. /\ Warmup \in Seq(Request) /\ Len(Warmup) = Len(Base) + 3
         /\ Warmup[1] = Health /\ Warmup[2] = Stateless
         /\ \A i \in 3 .. Len(Base) + 2 : Warmup[i] = PushOf(Base[i - 2], 1)
         /\ Warmup[Len(Base) + 3] = Health
    <2>1. /\ Warmup \in Seq(Request) /\ Len(Warmup) = Len(D \o P) + Len(H)
          /\ \A i \in 1 .. Len(D \o P) + Len(H) :
                Warmup[i] = IF i <= Len(D \o P) THEN (D \o P)[i] ELSE H[i - Len(D \o P)]
      BY <1>2, <1>8, <1>9, <1>10
    <2>2. /\ Len(Warmup) = Len(Base) + 3
          /\ \A i \in 1 .. Len(Base) + 3 :
                Warmup[i] = IF i <= Len(Base) + 2 THEN (D \o P)[i] ELSE H[i - (Len(Base) + 2)]
      BY <1>2, <1>4, <1>9, <2>1
    <2>3. \A i \in 1 .. Len(Base) + 2 : Warmup[i] = (D \o P)[i]
      <3>1. \A i \in 1 .. Len(Base) + 2 : i \in 1 .. Len(Base) + 3 /\ i <= Len(Base) + 2
        BY <1>4
      <3> QED BY <2>2, <3>1
    <2>4. Warmup[1] = (D \o P)[1] /\ Warmup[2] = (D \o P)[2]
      <3>1. 1 \in 1 .. Len(Base) + 2 /\ 2 \in 1 .. Len(Base) + 2
        BY <1>4
      <3> QED BY <2>3, <3>1
    <2>5. Warmup[Len(Base) + 3] = H[1]
      <3>1. /\ Len(Base) + 3 \in 1 .. Len(Base) + 3 /\ ~(Len(Base) + 3 <= Len(Base) + 2)
            /\ Len(Base) + 3 - (Len(Base) + 2) = 1
        BY <1>4
      <3> QED BY <2>2, <3>1
    <2>6. \A i \in 3 .. Len(Base) + 2 : i \in 1 .. Len(Base) + 2
      BY <1>4
    <2> QED BY <1>2, <1>9, <2>1, <2>2, <2>3, <2>4, <2>5, <2>6
  <1>12. Warm \in Nat /\ Warm = Len(Base) + 3
    BY <1>4, <1>11 DEF Warm
  <1>13. /\ Warmup \o W \in Seq(Request) /\ Len(Warmup \o W) = Warm + Len(W)
         /\ \A i \in 1 .. Warm + Len(W) :
               (Warmup \o W)[i] = IF i <= Warm THEN Warmup[i] ELSE W[i - Warm]
    BY <1>3, <1>8, <1>11 DEF Warm
  <1>14. Script = (Warmup \o W) \o E
    BY DEF Script, W, E
  <1>15. /\ Script \in Seq(Request) /\ Len(Script) = Warm + Len(W) + 2
         /\ \A i \in 1 .. Warm + Len(W) + 2 :
               Script[i] = IF i <= Warm + Len(W) THEN (Warmup \o W)[i]
                           ELSE E[i - (Warm + Len(W))]
    <2>1. /\ Script \in Seq(Request) /\ Len(Script) = Len(Warmup \o W) + Len(E)
          /\ \A i \in 1 .. Len(Warmup \o W) + Len(E) :
                Script[i] = IF i <= Len(Warmup \o W) THEN (Warmup \o W)[i]
                            ELSE E[i - Len(Warmup \o W)]
      BY <1>2, <1>8, <1>13, <1>14
    <2>2. Len(Warmup \o W) = Warm + Len(W) /\ Len(E) = 2
      BY <1>2, <1>13
    <2> QED BY <2>1, <2>2
  <1>16. Script[Len(Script) - 1] = Wipe /\ Script[Len(Script)] = Health
    <2>1. /\ Len(Script) - 1 - (Warm + Len(W)) = 1 /\ Len(Script) - (Warm + Len(W)) = 2
          /\ Len(Script) - 1 \in 1 .. Warm + Len(W) + 2
          /\ Len(Script) \in 1 .. Warm + Len(W) + 2
          /\ ~(Len(Script) - 1 <= Warm + Len(W)) /\ ~(Len(Script) <= Warm + Len(W))
      BY <1>3, <1>12, <1>15
    <2> QED BY <2>1, <1>2, <1>15
  <1>17. \A i \in Warm + 1 .. Len(Script) - 2 : Script[i] \in MidRequests
    <2>1. SUFFICES ASSUME NEW i \in Warm + 1 .. Len(Script) - 2
                   PROVE  Script[i] \in MidRequests
      OBVIOUS
    <2>2. /\ i \in 1 .. Warm + Len(W) + 2 /\ i <= Warm + Len(W) /\ ~(i <= Warm)
          /\ i \in 1 .. Warm + Len(W) /\ i - Warm \in 1 .. Len(W)
      BY <1>3, <1>12, <1>15, <2>1
    <2>3. Script[i] = W[i - Warm]
      BY <2>2, <1>13, <1>15
    <2> QED BY <2>2, <2>3, <1>3, ElementOfSeq
  <1>18. \A i \in 1 .. Warm : Script[i] = Warmup[i]
    <2>1. \A i \in 1 .. Warm : i \in 1 .. Warm + Len(W) + 2 /\ i \in 1 .. Warm + Len(W)
                               /\ i <= Warm + Len(W) /\ i <= Warm
      BY <1>3, <1>12
    <2> QED BY <1>13, <1>15, <2>1
  <1>19. \A i \in 3 .. Warm - 1 :
            i - 2 \in 1 .. Len(Base) /\ Base[i - 2] \in Ids /\ Script[i] = PushOf(Base[i - 2], 1)
    <2>1. SUFFICES ASSUME NEW i \in 3 .. Warm - 1
                   PROVE  i - 2 \in 1 .. Len(Base) /\ Base[i - 2] \in Ids
                            /\ Script[i] = PushOf(Base[i - 2], 1)
      OBVIOUS
    <2>2. i \in 1 .. Warm /\ i - 2 \in 1 .. Len(Base) /\ i \in 3 .. Len(Base) + 2
      BY <1>4, <1>12, <2>1
    <2> QED BY <1>7, <1>11, <1>18, <2>2
  <1>20. Script[1] = Health /\ Script[2] = Stateless /\ Script[Warm] = Health
    <2>1. 1 \in 1 .. Warm /\ 2 \in 1 .. Warm /\ Warm \in 1 .. Warm
      BY <1>4, <1>12
    <2> QED BY <1>11, <1>12, <1>18, <2>1
  <1>21. Len(Script) \in Nat /\ Warm <= Len(Script) - 2
    BY <1>3, <1>12, <1>15
  <1> QED BY <1>4, <1>12, <1>15, <1>16, <1>17, <1>19, <1>20, <1>21

-------------------------------------------------------------------------------
(***************************************************************************)
(* Requests, answers and conversations.                                    *)
(***************************************************************************)

LEMMA RequestFields ==
    ASSUME NEW q \in Request
    PROVE  /\ q.do \in {"push", "tick", "reply", "health", "teardown", "stateless"}
           /\ q.do = "push" => q.id \in Ids /\ q.version \in Nat
           /\ q.do = "tick" =>
                 /\ q.rest \in Seq(Triggers) /\ q.now \in Nat /\ q.actions \in Seq(Triggers)
                 /\ q.step \in {"test", "claim", "compose"}
                 /\ q.stops \in SUBSET Elements(Merchants)
           /\ q.do = "reply" => q.conv \in Triggers /\ q.message \in Personas
  BY DEF Request, Tick

LEMMA ResponseFields ==
    ASSUME NEW c, IsResponse(c)
    PROVE  /\ c.to \in Request
           /\ c.do \in {"answered", "failed"}
           /\ c.do = "answered" => c.with \in Returned(c.to)
           /\ c.do = "failed" => c.to.do \in {"tick", "health"}
  BY DEF IsResponse

LEMMA NothingApart ==
    /\ Nothing \notin Request
    /\ Nothing \notin Nat
    /\ Nothing \notin Conversation
    /\ \A c : IsResponse(c) => c # Nothing
  <1>1. ASSUME NEW c, IsResponse(c)
        PROVE  c \in Response
    <2>1. CASE c = [do |-> "failed", to |-> c.to]
      BY <1>1, <2>1, ResponseFields DEF Response
    <2>2. CASE c = [do |-> "answered", to |-> c.to, with |-> c.with] /\ c.with \in Returned(c.to)
      <3>1. c.to \in Request
        BY <1>1, ResponseFields
      <3>2. Returned(c.to) \subseteq {"accepted", "stale", "ok"} \cup Seq(Triggers)
                                       \cup ReplyAnswer \cup SUBSET Ids
        <4>1. CASE c.to.do = "push"
          BY <4>1 DEF Returned
        <4>2. CASE c.to.do = "tick"
          BY <4>2 DEF Returned
        <4>3. CASE c.to.do = "reply"
          BY <4>3 DEF Returned
        <4>4. CASE c.to.do \in {"teardown", "stateless"}
          BY <4>4 DEF Returned
        <4>5. CASE c.to.do = "health"
          BY <4>5 DEF Returned
        <4> QED BY <3>1, <4>1, <4>2, <4>3, <4>4, <4>5, RequestFields
      <3>3. c.with \in {"accepted", "stale", "ok"} \cup Seq(Triggers) \cup ReplyAnswer
                         \cup SUBSET Ids
        BY <2>2, <3>2
      <3> QED BY <2>2, <3>1, <3>3 DEF Response
    <2> QED BY <1>1, <2>1, <2>2 DEF IsResponse
  <1> QED BY <1>1, NothingAssumption

\* What the client waits for is a request, and what it has the answer of was one.
LEMMA AskedType ==
    ASSUME TypeInv, call # Nothing
    PROVE  /\ Asked \in Request
           /\ ~Done => call \in Request /\ Asked = call
           /\ Done => IsResponse(call) /\ Asked = call.to
  <1>1. CASE call \in Request
    <2>1. ~Done
      BY <1>1, RequestFields DEF Done
    <2> QED BY <1>1, <2>1 DEF Asked
  <1>2. CASE IsResponse(call)
    <2>1. Done /\ call.to \in Request
      BY <1>2, ResponseFields DEF Done
    <2> QED BY <1>2, <2>1 DEF Asked
  <1> QED BY <1>1, <1>2 DEF TypeInv, WireType

LEMMA InServiceType ==
    ASSUME TypeInv, NEW r \in InService
    PROVE  /\ r \in Request /\ r # Nothing /\ r.do \notin {"answered", "failed"}
           /\ r \in late \/ (call # Nothing /\ r = call /\ ~Done)
           /\ r = call => call # Nothing /\ ~Done /\ Asked = r
  <1>1. r \in late \/ (call # Nothing /\ r = call /\ ~Done)
    BY DEF InService, Done
  <1>2. r \in Request
    BY <1>1, AskedType DEF TypeInv, WireType
  <1>3. r # Nothing /\ r.do \notin {"answered", "failed"}
    BY <1>2, NothingApart, RequestFields
  <1> QED BY <1>1, <1>2, <1>3 DEF Done, Asked

\* A request keeps its place while it is served.
LEMMA BecomesType ==
    ASSUME TypeInv, NEW r \in InService, NEW next \in Request, Becomes(r, next)
    PROVE  WireType'
  <1>1. call' = next \/ call' = call
    BY DEF Becomes
  <1>2. late' \subseteq Request
    BY DEF Becomes, TypeInv, WireType
  <1>3. call = Nothing \/ call \in Request \/ IsResponse(call)
    BY DEF TypeInv, WireType
  <1>4. IsResponse(call) /\ call' = call => IsResponse(call')
    OBVIOUS
  <1> QED BY <1>1, <1>2, <1>3, <1>4 DEF WireType

LEMMA RespondType ==
    ASSUME TypeInv, NEW r \in InService, NEW response, IsResponse(response), Respond(r, response)
    PROVE  WireType'
  <1>1. call' = response \/ call' = call
    BY DEF Respond
  <1>2. late' \subseteq Request
    BY DEF Respond, TypeInv, WireType
  <1>3. call = Nothing \/ call \in Request \/ IsResponse(call)
    BY DEF TypeInv, WireType
  <1>4. IsResponse(call) /\ call' = call => IsResponse(call')
    OBVIOUS
  <1>5. call' = response => IsResponse(call')
    OBVIOUS
  <1> QED BY <1>1, <1>2, <1>3, <1>4, <1>5 DEF WireType

TickMade(rest, now, actions, step, stops) ==
    [do |-> "tick", rest |-> rest, now |-> now, actions |-> actions, step |-> step, stops |-> stops]

LEMMA TickRecord ==
    ASSUME NEW x \in Seq(Triggers), NEW y \in Seq(Triggers), NEW now \in Nat,
           NEW step \in {"test", "claim", "compose"}, NEW stops \in SUBSET Elements(Merchants)
    PROVE  TickMade(x, now, y, step, stops) \in Request
  BY DEF Request, Tick, TickMade

LEMMA TickFields ==
    ASSUME NEW r \in Request, r.do = "tick", NEW x \in Seq(Triggers), NEW y \in Seq(Triggers),
           NEW step \in {"test", "claim", "compose"}
    PROVE  /\ [r EXCEPT !.step = step] = TickMade(r.rest, r.now, r.actions, step, r.stops)
           /\ [r EXCEPT !.rest = x, !.step = "test"]
                 = TickMade(x, r.now, r.actions, "test", r.stops)
           /\ [[r EXCEPT !.rest = x, !.step = "test"] EXCEPT !.actions = y]
                 = TickMade(x, r.now, y, "test", r.stops)
  <1>1. r \in Tick
    BY DEF Request, Tick
  <1> DEFINE q == [r EXCEPT !.step = step]
  <1>2. q = TickMade(r.rest, r.now, r.actions, step, r.stops)
    <2>1. q \in Tick
      BY <1>1 DEF Tick
    <2>2. /\ q.rest = r.rest /\ q.now = r.now /\ q.actions = r.actions /\ q.step = step
          /\ q.stops = r.stops
      BY <1>1 DEF Tick
    <2> HIDE DEF q
    <2> QED BY <2>1, <2>2 DEF Tick, TickMade
  <1> DEFINE p == [r EXCEPT !.rest = x, !.step = "test"]
             made == TickMade(x, r.now, r.actions, "test", r.stops)
  <1>3. p \in Tick
    BY <1>1 DEF Tick
  <1>4. /\ p.rest = x /\ p.now = r.now /\ p.actions = r.actions /\ p.step = "test"
        /\ p.stops = r.stops
    BY <1>1 DEF Tick
  <1>5. p = made
    <2> HIDE DEF p
    <2> QED BY <1>3, <1>4 DEF Tick, TickMade
  <1>6. [made EXCEPT !.actions = y] = TickMade(x, r.now, y, "test", r.stops)
    BY DEF TickMade
  <1>7. [p EXCEPT !.actions = y] = TickMade(x, r.now, y, "test", r.stops)
    <2> HIDE DEF p, made
    <2> QED BY <1>5, <1>6
  <1> QED BY <1>2, <1>5, <1>7

LEMMA ConversationFields ==
    ASSUME NEW c \in Conversation, NEW m \in Messages
    PROVE  LET listened == [c EXCEPT !.last = m]
               Made(status, hits, sent) ==
                   [status |-> status, hits |-> hits, last |-> m, sent |-> sent]
           IN  /\ listened.sent = c.sent
               /\ [listened EXCEPT !.hits = @ + 1, !.status = "waiting"]
                     = Made("waiting", c.hits + 1, c.sent)
               /\ [listened EXCEPT !.status = "ended"] = Made("ended", c.hits, c.sent)
               /\ \A body : [listened EXCEPT !.sent = @ \cup {body}]
                               = Made(c.status, c.hits, c.sent \cup {body})
  <1> DEFINE listened == [c EXCEPT !.last = m]
             Made(status, hits, sent) ==
                 [status |-> status, hits |-> hits, last |-> m, sent |-> sent]
  <1>1. listened = Made(c.status, c.hits, c.sent)
    BY DEF Conversation
  <1>2. listened \in Conversation /\ listened.sent = c.sent /\ listened.hits = c.hits
          /\ listened.last = m
    BY <1>1 DEF Conversation
  <1> HIDE DEF listened
  <1> DEFINE n == listened.hits + 1
             w == [listened EXCEPT !.hits = n, !.status = "waiting"]
  <1>3. n \in Nat
    BY <1>2 DEF Conversation
  <1>4. w \in Conversation /\ w.hits = n /\ w.status = "waiting" /\ w.last = m /\ w.sent = c.sent
    <2> HIDE DEF n
    <2> QED BY <1>2, <1>3 DEF Conversation
  <1>5. w = Made("waiting", c.hits + 1, c.sent)
    <2>1. n = c.hits + 1
      BY <1>2
    <2> HIDE DEF n, w
    <2> QED BY <1>4, <2>1 DEF Conversation
  <1>6. [listened EXCEPT !.status = "ended"] = Made("ended", c.hits, c.sent)
    BY <1>2 DEF Conversation
  <1>7. ASSUME NEW body
        PROVE  [listened EXCEPT !.sent = @ \cup {body}] = Made(c.status, c.hits, c.sent \cup {body})
    BY <1>1
  <1> QED BY <1>2, <1>5, <1>6, <1>7 DEF listened

\* What the policy decides, in the cases that the loop meets.
LEMMA PolicyFacts ==
    ASSUME NEW m \in Messages, NEW previous \in Messages \cup {NoMessage}, NEW hits \in Nat
    PROVE  LET d == DecideReply(m, previous, hits) IN
           /\ d.action \in {"send", "wait", "end"} /\ d.kind \in ReplyKind
           /\ d.action = "wait" => hits = 0 /\ d.kind = "auto_reply"
           /\ m = previous => d.action # "send" /\ d.kind = "auto_reply"
           /\ m = previous /\ hits > 0 => d.action = "end"
           /\ m \in HostileMarked \ AutoMarked /\ m # previous =>
                 d.action = "end" /\ d.kind = "hostile_optout"
           /\ m \notin HostileMarked => d.kind # "hostile_optout"
  <1> DEFINE kind == ClassifyKind(m, previous)
  <1>1. /\ kind \in ReplyKind
        /\ m = previous => kind = "auto_reply"
        /\ m \in HostileMarked \ AutoMarked /\ m # previous => kind = "hostile_optout"
        /\ m \notin HostileMarked => kind # "hostile_optout"
    BY DEF ClassifyKind, ReplyKind
  <1>2. DecideReply(m, previous, hits) =
           [ kind   |-> kind,
             action |-> CASE kind = "hostile_optout" -> "end"
                          [] kind = "auto_reply" -> IF hits = 0 THEN "wait" ELSE "end"
                          [] OTHER -> "send" ]
    BY DEF DecideReply
  <1> HIDE DEF kind
  <1>3. CASE kind = "hostile_optout"
    BY <1>1, <1>2, <1>3
  <1>4. CASE kind = "auto_reply"
    BY <1>1, <1>2, <1>4
  <1>5. CASE kind \in {"intent_commit", "other"}
    BY <1>1, <1>2, <1>5
  <1> QED BY <1>1, <1>3, <1>4, <1>5 DEF ReplyKind

\* One turn, seen from the conversation: c is how it was found, d how it is left.
Turned(r, c, d, a) ==
    LET said == DecideReply(r.message, c.last, c.hits) IN
    /\ c.sent \subseteq d.sent
    /\ d.last = r.message
    /\ a.action \in {said.action, "end"}
    /\ a.action = "end" => d.status = "ended"
    /\ a.action = "wait" => d.hits > 0
    /\ a.action = "send" => a.body \in d.sent \ c.sent
    /\ said.action = "end" /\ said.kind = "hostile_optout" => MerchantOf[r.conv] \in optedOut'

\* What the answer adds to what was given out.
Said(r, a) ==
    told' = IF a.action = "send" THEN [told EXCEPT ![r.conv] = Append(@, a.body)] ELSE told

LEMMA ReplyEffect ==
    ASSUME TypeInv, NEW r \in InService, ServeReply(r)
    PROVE  /\ contexts' = contexts /\ optedOut \subseteq optedOut'
           /\ \E d \in Conversation \cup {Nothing}, a \in ReplyAnswer :
                 /\ convs' = [convs EXCEPT ![r.conv] = d]
                 /\ Answer(r, a) /\ Said(r, a)
                 /\ LET c == convs[r.conv] IN
                    IF c = Nothing \/ c.status = "ended"
                    THEN d = c /\ a.action = "end"
                    ELSE d # Nothing /\ Turned(r, c, d, a)
  <1> DEFINE g == r.conv
             c == convs[g]
             said == DecideReply(r.message, c.last, c.hits)
             listened == [c EXCEPT !.last = r.message]
             End == [action |-> "end", body |-> ""]
             Made(status, hits, sent) ==
                 [status |-> status, hits |-> hits, last |-> r.message, sent |-> sent]
  <1>1. /\ r \in Request /\ r.do = "reply" /\ g \in Triggers /\ r.message \in Messages
        /\ convs \in [Triggers -> Conversation \cup {Nothing}]
        /\ c \in Conversation \cup {Nothing}
    BY InServiceType, RequestFields, RehearsalAssumption DEF ServeReply, TypeInv, EngineType
  <1>2. contexts' = contexts /\ End \in ReplyAnswer
    BY DEF ServeReply, ReplyAnswer
  <1>3. CASE c = Nothing \/ c.status = "ended"
    <2>1. Answer(r, End) /\ convs' = convs /\ optedOut' = optedOut /\ told' = told
      BY <1>3 DEF ServeReply
    <2>3. Said(r, End)
      BY <2>1 DEF Said
    <2>2. convs' = [convs EXCEPT ![g] = c]
      BY <1>1, <2>1
    <2> HIDE DEF c
    <2> QED BY <1>1, <1>2, <1>3, <2>1, <2>2, <2>3, ZenonT(30)
  <1>4. CASE ~(c = Nothing \/ c.status = "ended")
    <2> SUFFICES /\ optedOut \subseteq optedOut'
                 /\ \E d \in Conversation, a \in ReplyAnswer :
                       /\ convs' = [convs EXCEPT ![g] = d]
                       /\ Answer(r, a) /\ Said(r, a)
                       /\ Turned(r, c, d, a)
      <3>1. Nothing \notin Conversation
        BY NothingApart
      <3> HIDE DEF c
      <3> QED BY <1>2, <1>4, <3>1 DEF c
    <2>1. c \in Conversation /\ c.status \in {"active", "waiting", "ended"} /\ c.hits \in Nat
            /\ c.last \in Messages \cup {NoMessage} /\ c.sent \in SUBSET ReplyKind
      BY <1>1, <1>4 DEF Conversation
    <2>2. /\ listened.sent = c.sent
          /\ [listened EXCEPT !.hits = @ + 1, !.status = "waiting"]
                = Made("waiting", c.hits + 1, c.sent)
          /\ [listened EXCEPT !.status = "ended"] = Made("ended", c.hits, c.sent)
          /\ \A body : [listened EXCEPT !.sent = @ \cup {body}]
                          = Made(c.status, c.hits, c.sent \cup {body})
      BY <1>1, <2>1, ConversationFields
    <2>3. said.action \in {"send", "wait", "end"} /\ said.kind \in ReplyKind
      BY <1>1, <2>1, PolicyFacts
    <2>4. \A hits \in Nat, sent \in SUBSET ReplyKind, status \in {"active", "waiting", "ended"} :
              Made(status, hits, sent) \in Conversation
      BY <1>1 DEF Conversation
    <2>5. ASSUME said.action # "end", optedOut' = optedOut, Answer(r, End), told' = told,
                 convs' = [convs EXCEPT ![g] = [listened EXCEPT !.status = "ended"]]
          PROVE  \E d \in Conversation, a \in ReplyAnswer :
                    /\ convs' = [convs EXCEPT ![g] = d]
                    /\ Answer(r, a) /\ Said(r, a)
                    /\ Turned(r, c, d, a)
      <3> DEFINE d == Made("ended", c.hits, c.sent)
      <3>1. d \in Conversation
        BY <2>1, <2>4
      <3>2. convs' = [convs EXCEPT ![g] = d]
        BY <2>2, <2>5
      <3>3. Turned(r, c, d, End)
        <4>1. d.sent = c.sent /\ d.last = r.message /\ d.status = "ended"
          OBVIOUS
        <4>2. End.action = "end"
          OBVIOUS
        <4> HIDE DEF d, c, End
        <4> QED BY <2>5, <4>1, <4>2 DEF Turned, c
      <3>4. Said(r, End)
        BY <2>5 DEF Said
      <3> HIDE DEF d, End
      <3> QED BY <1>2, <2>5, <3>1, <3>2, <3>3, <3>4
    <2>6. CASE said.action = "wait"
      <3> DEFINE d == Made("waiting", c.hits + 1, c.sent)
                 a == [action |-> "wait", body |-> ""]
      <3>1. /\ convs' = [convs EXCEPT ![g] = [listened EXCEPT !.hits = @ + 1, !.status = "waiting"]]
            /\ Answer(r, a) /\ optedOut' = optedOut /\ told' = told
        BY <1>4, <2>6 DEF ServeReply
      <3>5. Said(r, a)
        BY <3>1 DEF Said
      <3>2. convs' = [convs EXCEPT ![g] = d]
        BY <2>2, <3>1
      <3>3. d \in Conversation /\ a \in ReplyAnswer
        <4>1. c.hits + 1 \in Nat
          BY <2>1
        <4> QED BY <2>1, <2>4, <4>1 DEF ReplyAnswer
      <3>4. Turned(r, c, d, a)
        <4>1. d.sent = c.sent /\ d.last = r.message /\ d.hits > 0 /\ a.action = "wait"
          BY <2>1
        <4> HIDE DEF d, c, a
        <4> QED BY <2>6, <4>1 DEF Turned, c
      <3> HIDE DEF d, a
      <3> QED BY <3>1, <3>2, <3>3, <3>4, <3>5
    <2>7. CASE said.action = "end"
      <3> DEFINE d == Made("ended", c.hits, c.sent)
      <3>1. /\ convs' = [convs EXCEPT ![g] = [listened EXCEPT !.status = "ended"]]
            /\ optedOut' = IF said.kind = "hostile_optout"
                           THEN optedOut \cup {MerchantOf[g]} ELSE optedOut
            /\ Answer(r, End) /\ told' = told
        BY <1>4, <2>7 DEF ServeReply
      <3>5. Said(r, End)
        BY <3>1 DEF Said
      <3>2. convs' = [convs EXCEPT ![g] = d]
        BY <2>2, <3>1
      <3>3. d \in Conversation
        BY <2>1, <2>4
      <3>4. Turned(r, c, d, End)
        <4>1. d.sent = c.sent /\ d.last = r.message /\ d.status = "ended" /\ End.action = "end"
          OBVIOUS
        <4>2. said.kind = "hostile_optout" => MerchantOf[g] \in optedOut'
          BY <3>1
        <4> HIDE DEF d, c, End
        <4> QED BY <4>1, <4>2 DEF Turned, c
      <3> HIDE DEF d, End
      <3> QED BY <1>2, <3>1, <3>2, <3>3, <3>4, <3>5
    <2>8. CASE said.action = "send"
      <3>1. /\ optedOut' = optedOut
            /\ Speak(r, listened, said.kind) \/ FallSilent(r, listened)
        BY <1>4, <2>8 DEF ServeReply
      <3>2. CASE said.kind \notin c.sent /\ Speak(r, listened, said.kind)
        <4> DEFINE d == Made(c.status, c.hits, c.sent \cup {said.kind})
                   a == [action |-> "send", body |-> said.kind]
        <4>1. /\ convs' = [convs EXCEPT ![g] = [listened EXCEPT !.sent = @ \cup {said.kind}]]
              /\ Answer(r, a) /\ told' = [told EXCEPT ![g] = Append(@, said.kind)]
          BY <2>2, <3>2 DEF Speak
        <4>5. Said(r, a)
          BY <4>1 DEF Said
        <4>2. convs' = [convs EXCEPT ![g] = d]
          BY <2>2, <4>1
        <4>3. d \in Conversation /\ a \in ReplyAnswer
          <5>1. c.sent \cup {said.kind} \in SUBSET ReplyKind
            BY <2>1, <2>3
          <5> QED BY <2>1, <2>3, <2>4, <5>1 DEF ReplyAnswer
        <4>4. Turned(r, c, d, a)
          <5>1. /\ d.sent = c.sent \cup {said.kind} /\ d.last = r.message
                /\ a.action = "send" /\ a.body = said.kind
            OBVIOUS
          <5> HIDE DEF d, c, a
          <5> QED BY <2>8, <3>2, <5>1 DEF Turned, c
        <4> HIDE DEF d, a
        <4> QED BY <3>1, <4>1, <4>2, <4>3, <4>4, <4>5
      <3>3. CASE said.kind \in c.sent \/ FallSilent(r, listened)
        <4>1. /\ Answer(r, End) /\ told' = told
              /\ convs' = [convs EXCEPT ![g] = [listened EXCEPT !.status = "ended"]]
          BY <2>2, <3>1, <3>3 DEF Speak, FallSilent
        <4> QED BY <2>5, <2>8, <3>1, <4>1
      <3> QED BY <3>1, <3>2, <3>3
    <2> QED BY <2>3, <2>6, <2>7, <2>8
  <1> QED BY <1>3, <1>4

\* The steps of a tick that leave it running.
Moves(r) == Test(r) \/ Claim(r) \/ Open(r) \/ Unclaim(r)

\* One such step: r becomes q.
Moved(r, q) ==
    /\ r.do = "tick" /\ r.rest # <<>> /\ q.do = "tick"
    /\ q.now = r.now /\ q.stops = r.stops
    /\ \/ /\ r.step \in {"test", "claim"}
          /\ q.rest = Tail(r.rest) /\ q.step = "test" /\ q.actions = r.actions
          /\ convs' = convs /\ told' = told
       \/ /\ r.step = "test" /\ Actable(Head(r.rest), r.now)
          /\ q.rest = r.rest /\ q.step = "claim" /\ q.actions = r.actions
          /\ convs' = convs /\ told' = told
       \/ /\ r.step = "claim" /\ convs[Head(r.rest)] = Nothing
          /\ q.rest = r.rest /\ q.step = "compose" /\ q.actions = r.actions
          /\ convs' = [convs EXCEPT ![Head(r.rest)] = Fresh] /\ told' = told
       \/ /\ r.step = "compose"
          /\ q.rest = Tail(r.rest) /\ q.step = "test"
          /\ q.actions = Append(r.actions, Head(r.rest))
          /\ convs' = convs /\ told' = [told EXCEPT ![Head(r.rest)] = Append(@, Opening)]
       \/ /\ r.step = "compose"
          /\ q.rest = Tail(r.rest) /\ q.step = "test" /\ q.actions = r.actions
          /\ convs' = [convs EXCEPT ![Head(r.rest)] = Nothing] /\ told' = told

LEMMA MoveEffect ==
    ASSUME TypeInv, NEW r \in InService, Moves(r)
    PROVE  /\ contexts' = contexts /\ optedOut' = optedOut
           /\ Head(r.rest) \in Triggers
           /\ \E q \in Request : Becomes(r, q) /\ Moved(r, q)
  <1> DEFINE g == Head(r.rest)
             passed == TickMade(Tail(r.rest), r.now, r.actions, "test", r.stops)
             ready == TickMade(r.rest, r.now, r.actions, "claim", r.stops)
             claimed == TickMade(r.rest, r.now, r.actions, "compose", r.stops)
             opened == TickMade(Tail(r.rest), r.now, Append(r.actions, g), "test", r.stops)
  <1>1. r.do = "tick" /\ r.rest # <<>> /\ r \in Request
    BY InServiceType DEF Moves, Test, Claim, Open, Unclaim, AtStep
  <1>2. /\ r.rest \in Seq(Triggers) /\ r.actions \in Seq(Triggers) /\ r.now \in Nat
        /\ r.stops \in SUBSET Elements(Merchants)
    BY <1>1, RequestFields
  <1>3. g \in Triggers /\ Tail(r.rest) \in Seq(Triggers) /\ Append(r.actions, g) \in Seq(Triggers)
    BY <1>1, <1>2, HeadTailProperties, AppendProperties
  <1>4. contexts' = contexts /\ optedOut' = optedOut
    BY DEF Moves, Test, Claim, Open, Unclaim, engineVars
  <1>5. passed \in Request /\ ready \in Request /\ claimed \in Request /\ opened \in Request
    BY <1>2, <1>3, TickRecord
  <1>6. /\ Passed(r) = passed
        /\ [r EXCEPT !.step = "claim"] = ready
        /\ [r EXCEPT !.step = "compose"] = claimed
    BY <1>1, <1>2, <1>3, TickFields DEF Passed
  <1>7. [Passed(r) EXCEPT !.actions = Append(@, g)] = opened
    <2> DEFINE list == Append(r.actions, g)
    <2>1. Passed(r).actions = r.actions
      <3>1. passed.actions = r.actions
        BY DEF TickMade
      <3> QED BY <1>6, <3>1
    <2>2. [Passed(r) EXCEPT !.actions = list] = opened
      BY <1>1, <1>2, <1>3, TickFields DEF Passed
    <2> HIDE DEF passed, opened
    <2> QED BY <2>1, <2>2
  <1>8. /\ passed.do = "tick" /\ passed.now = r.now /\ passed.stops = r.stops
        /\ passed.rest = Tail(r.rest) /\ passed.step = "test" /\ passed.actions = r.actions
        /\ ready.do = "tick" /\ ready.now = r.now /\ ready.stops = r.stops
        /\ ready.rest = r.rest /\ ready.step = "claim" /\ ready.actions = r.actions
        /\ claimed.do = "tick" /\ claimed.now = r.now /\ claimed.stops = r.stops
        /\ claimed.rest = r.rest /\ claimed.step = "compose" /\ claimed.actions = r.actions
        /\ opened.do = "tick" /\ opened.now = r.now /\ opened.stops = r.stops
        /\ opened.rest = Tail(r.rest) /\ opened.step = "test"
        /\ opened.actions = Append(r.actions, g)
    BY DEF TickMade
  <1> HIDE DEF passed, ready, claimed, opened
  <1>9. CASE Test(r)
    <2>1. r.step = "test" /\ convs' = convs /\ told' = told
      BY <1>9 DEF Test, AtStep, engineVars, served
    <2>2. Becomes(r, passed) \/ (Actable(g, r.now) /\ Becomes(r, ready))
      BY <1>6, <1>9 DEF Test
    <2>3. Moved(r, passed) /\ (Actable(g, r.now) => Moved(r, ready))
      BY <1>1, <1>8, <2>1 DEF Moved
    <2> QED BY <1>3, <1>4, <1>5, <2>2, <2>3
  <1>10. CASE Claim(r)
    <2>1. r.step = "claim" /\ told' = told
      BY <1>10 DEF Claim, AtStep, served
    <2>2. \/ /\ convs[g] = Nothing /\ convs' = [convs EXCEPT ![g] = Fresh]
             /\ Becomes(r, claimed)
          \/ Becomes(r, passed) /\ convs' = convs
      BY <1>6, <1>10 DEF Claim
    <2>3. CASE /\ convs[g] = Nothing /\ convs' = [convs EXCEPT ![g] = Fresh]
               /\ Becomes(r, claimed)
      <3>1. Moved(r, claimed)
        BY <1>1, <1>8, <2>1, <2>3 DEF Moved
      <3> QED BY <1>3, <1>4, <1>5, <2>3, <3>1
    <2>4. CASE Becomes(r, passed) /\ convs' = convs
      <3>1. Moved(r, passed)
        BY <1>1, <1>8, <2>1, <2>4 DEF Moved
      <3> QED BY <1>3, <1>4, <1>5, <2>4, <3>1
    <2> QED BY <2>2, <2>3, <2>4
  <1>11. CASE Open(r)
    <2>1. /\ r.step = "compose" /\ told' = [told EXCEPT ![g] = Append(@, Opening)] /\ convs' = convs
          /\ Becomes(r, opened)
      BY <1>7, <1>11 DEF Open, AtStep
    <2>2. Moved(r, opened)
      BY <1>1, <1>8, <2>1 DEF Moved
    <2> QED BY <1>3, <1>4, <1>5, <2>1, <2>2
  <1>12. CASE Unclaim(r)
    <2>1. /\ r.step = "compose" /\ told' = told /\ convs' = [convs EXCEPT ![g] = Nothing]
          /\ Becomes(r, passed)
      BY <1>6, <1>12 DEF Unclaim, AtStep, served
    <2>2. Moved(r, passed)
      BY <1>1, <1>8, <2>1 DEF Moved
    <2> QED BY <1>3, <1>4, <1>5, <2>1, <2>2
  <1> QED BY <1>9, <1>10, <1>11, <1>12 DEF Moves

Raises(r) == TestRaises(r) \/ OpenRaises(r) \/ HealthRaises(r)

ServeOne(r) ==
    \/ Moves(r) \/ Raises(r)
    \/ ServePush(r) \/ ServeTick(r) \/ ServeReply(r) \/ ServeTeardown(r)
    \/ ServeHealth(r) \/ ServeStateless(r)

\* Whatever is not such a step gives an answer, or a 500.
LEMMA ServeAnswers ==
    ASSUME TypeInv, NEW r \in InService, ServeOne(r), ~Moves(r)
    PROVE  \E response :
              /\ Respond(r, response) /\ IsResponse(response) /\ response.to = r
              /\ r.do = "tick" /\ response.do = "answered" => response.with = r.actions
              /\ response.do = "failed" => Raises(r)
  <1>1. r \in Request
    BY InServiceType
  <1>2. ASSUME NEW answer \in Returned(r), Answer(r, answer), r.do = "tick" => answer = r.actions
        PROVE  \E response :
                  /\ Respond(r, response) /\ IsResponse(response) /\ response.to = r
                  /\ r.do = "tick" /\ response.do = "answered" => response.with = r.actions
                  /\ response.do = "failed" => Raises(r)
    <2> DEFINE response == [do |-> "answered", to |-> r, with |-> answer]
    <2>1. /\ Respond(r, response) /\ response.to = r /\ response.with = answer
          /\ response.do = "answered"
      BY <1>2 DEF Answer
    <2>2. IsResponse(response)
      BY <1>1, <1>2 DEF IsResponse
    <2> HIDE DEF response
    <2> QED BY <1>2, <2>1, <2>2
  <1>3. CASE ServePush(r)
    <2>1. r.do = "push"
      BY <1>3 DEF ServePush
    <2>2. \E answer \in {"accepted", "stale"} : Answer(r, answer)
      BY <1>3 DEF ServePush
    <2>3. \E answer \in Returned(r) : Answer(r, answer)
      BY <2>1, <2>2 DEF Returned
    <2> QED BY <1>2, <2>1, <2>3
  <1>4. CASE ServeTick(r)
    <2>1. r.do = "tick" /\ r.actions \in Seq(Triggers) /\ Answer(r, r.actions)
      BY <1>1, <1>4, RequestFields DEF ServeTick
    <2>2. r.actions \in Returned(r)
      BY <2>1 DEF Returned
    <2> QED BY <1>2, <2>1, <2>2
  <1>5. CASE ServeReply(r)
    <2>1. r.do = "reply"
      BY <1>5 DEF ServeReply
    <2>2. \E a \in ReplyAnswer : Answer(r, a)
      BY <1>5, ReplyEffect
    <2>3. \E answer \in Returned(r) : Answer(r, answer)
      BY <2>1, <2>2 DEF Returned
    <2> QED BY <1>2, <2>1, <2>3
  <1>6. CASE ServeTeardown(r) \/ ServeStateless(r)
    <2>1. Answer(r, "ok") /\ r.do \in {"teardown", "stateless"}
      BY <1>6 DEF ServeTeardown, ServeStateless
    <2>2. "ok" \in Returned(r)
      BY <2>1 DEF Returned
    <2> QED BY <1>2, <2>1, <2>2
  <1>7. CASE ServeHealth(r)
    <2>1. r.do = "health" /\ Answer(r, Loaded)
      BY <1>7 DEF ServeHealth
    <2>2. Loaded \in Returned(r)
      BY <2>1 DEF Returned, Loaded
    <2> QED BY <1>2, <2>1, <2>2
  <1>8. CASE Raises(r)
    <2> DEFINE response == [do |-> "failed", to |-> r]
    <2>1. r.do \in {"tick", "health"} /\ Respond(r, response)
      BY <1>8 DEF Raises, TestRaises, OpenRaises, HealthRaises, AtStep, Raise
    <2>2. IsResponse(response) /\ response.to = r /\ response.do = "failed"
      BY <1>1, <2>1 DEF IsResponse
    <2> HIDE DEF response
    <2> QED BY <1>8, <2>1, <2>2
  <1> QED BY <1>3, <1>4, <1>5, <1>6, <1>7, <1>8 DEF ServeOne

LEMMA FreshType == Fresh \in Conversation /\ Fresh # Nothing
  <1>1. Fresh \in Conversation
    BY DEF Fresh, Conversation
  <1> QED BY <1>1, NothingApart

\* Only a claim, a release, a reply and the teardown change a conversation.
LEMMA OthersKeep ==
    ASSUME NEW r, ServeOne(r), ~Moves(r), ~ServeReply(r), ~ServeTeardown(r)
    PROVE  /\ convs' = convs /\ told' = told /\ optedOut' = optedOut
           /\ ServePush(r) \/ contexts' = contexts
  BY DEF ServeOne, Raises, TestRaises, OpenRaises, HealthRaises, ServePush, ServeTick, ServeHealth,
         ServeStateless, engineVars, served

LEMMA ServeTypes ==
    ASSUME TypeInv, NEW r \in InService, ServeOne(r)
    PROVE  EngineType' /\ WireType'
  <1>1. /\ r \in Request
        /\ contexts \in [Ids -> Nat \cup {Nothing}]
        /\ convs \in [Triggers -> Conversation \cup {Nothing}]
        /\ told \in [Triggers -> Seq(ReplyKind \cup {Opening})]
    BY InServiceType DEF TypeInv, EngineType
  <1>2. ASSUME NEW g \in Triggers, NEW body \in ReplyKind \cup {Opening},
               told' = [told EXCEPT ![g] = Append(@, body)]
        PROVE  told' \in [Triggers -> Seq(ReplyKind \cup {Opening})]
    <2>1. told[g] \in Seq(ReplyKind \cup {Opening})
      BY <1>1
    <2>2. Append(told[g], body) \in Seq(ReplyKind \cup {Opening})
      BY <2>1, AppendProperties
    <2> QED BY <1>1, <1>2, <2>2
  <1>3. WireType'
    <2>1. CASE Moves(r)
      BY <2>1, MoveEffect, BecomesType
    <2>2. CASE ~Moves(r)
      BY <2>2, ServeAnswers, RespondType
    <2> QED BY <2>1, <2>2
  <1>4. CASE Moves(r)
    <2>1. /\ contexts' = contexts /\ Head(r.rest) \in Triggers
          /\ \E q \in Request : Moved(r, q)
      BY <1>4, MoveEffect
    <2>2. convs' \in [Triggers -> Conversation \cup {Nothing}]
      <3>1. \/ convs' = convs
            \/ convs' = [convs EXCEPT ![Head(r.rest)] = Fresh]
            \/ convs' = [convs EXCEPT ![Head(r.rest)] = Nothing]
        BY <2>1 DEF Moved
      <3> QED BY <1>1, <3>1, FreshType
    <2>3. told' \in [Triggers -> Seq(ReplyKind \cup {Opening})]
      <3>1. told' = told \/ told' = [told EXCEPT ![Head(r.rest)] = Append(@, Opening)]
        BY <2>1 DEF Moved
      <3> QED BY <1>1, <1>2, <2>1, <3>1
    <2> QED BY <1>1, <1>3, <2>1, <2>2, <2>3 DEF EngineType
  <1>5. CASE ServeReply(r)
    <2>1. r.do = "reply" /\ r.conv \in Triggers
      BY <1>1, <1>5, RequestFields DEF ServeReply
    <2>2. PICK d \in Conversation \cup {Nothing}, a \in ReplyAnswer :
              convs' = [convs EXCEPT ![r.conv] = d] /\ Said(r, a)
      BY <1>5, ReplyEffect
    <2>3. a.action = "send" => a.body \in ReplyKind \cup {Opening}
      BY DEF ReplyAnswer
    <2>4. told' \in [Triggers -> Seq(ReplyKind \cup {Opening})]
      BY <1>1, <1>2, <2>1, <2>2, <2>3 DEF Said
    <2>5. contexts' = contexts
      BY <1>5, ReplyEffect
    <2> QED BY <1>1, <1>3, <2>2, <2>4, <2>5 DEF EngineType
  <1>6. CASE ServeTeardown(r)
    <2>1. /\ contexts' = [id \in Ids |-> Nothing] /\ convs' = [g \in Triggers |-> Nothing]
          /\ told' = told
      BY <1>6 DEF ServeTeardown, served
    <2> QED BY <1>1, <1>3, <2>1 DEF EngineType
  <1>7. CASE ~Moves(r) /\ ~ServeReply(r) /\ ~ServeTeardown(r)
    <2>1. /\ convs' = convs /\ told' = told
          /\ ServePush(r) \/ contexts' = contexts
      BY <1>7, OthersKeep
    <2>2. contexts' \in [Ids -> Nat \cup {Nothing}]
      <3>1. CASE ServePush(r)
        <4>1. r.id \in Ids /\ r.version \in Nat
          BY <1>1, <3>1, RequestFields DEF ServePush
        <4> QED BY <1>1, <3>1, <4>1 DEF ServePush
      <3> QED BY <1>1, <2>1, <3>1
    <2> QED BY <1>1, <1>3, <2>1, <2>2 DEF EngineType
  <1> QED BY <1>4, <1>5, <1>6, <1>7

-------------------------------------------------------------------------------
(***************************************************************************)
(* The list of conversations to play.                                      *)
(***************************************************************************)

LEMMA ChatsFacts ==
    ASSUME TypeInv
    PROVE  /\ chats \in Seq(Chats) /\ Len(chats) \in Nat /\ DOMAIN chats = 1 .. Len(chats)
           /\ \A i \in 1 .. Len(chats) :
                 /\ chats[i] \in Chats
                 /\ chats[i].conv \in Triggers /\ chats[i].turn \in Nat
                 /\ chats[i].turn = 1 \/ (i = 1 /\ chats[i].message \in Personas)
           /\ chats # <<>> => Len(chats) >= 1 /\ Head(chats) = chats[1]
           /\ Playing => chats # <<>> /\ chats[1].turn >= 2 /\ chats[1].message \in Personas
  <1>1. /\ chats \in Seq(Chats) /\ Len(chats) \in Nat /\ DOMAIN chats = 1 .. Len(chats)
        /\ \A i \in 1 .. Len(chats) : chats[i] \in Chats
    BY LenProperties, ElementOfSeq DEF TypeInv, ClientType
  <1>2. \A i \in 1 .. Len(chats) :
            /\ chats[i].conv \in Triggers /\ chats[i].turn \in Nat
            /\ chats[i].turn = 1 \/ (i = 1 /\ chats[i].message \in Personas)
    BY <1>1 DEF TypeInv, ClientType, Chats
  <1>3. chats # <<>> => Len(chats) >= 1 /\ Head(chats) = chats[1]
    BY <1>1, EmptySeq
  <1>4. Playing => chats # <<>> /\ chats[1].turn >= 2 /\ chats[1].message \in Personas
    <2>1. SUFFICES ASSUME Playing PROVE chats[1].turn >= 2 /\ chats[1].message \in Personas
      BY DEF Playing
    <2>2. chats # <<>> /\ Head(chats).turn >= 2
      BY <2>1 DEF Playing, FirstTurn
    <2>3. 1 \in 1 .. Len(chats)
      BY <1>1, <1>3, <2>2
    <2> QED BY <1>2, <1>3, <2>2, <2>3
  <1> QED BY <1>1, <1>2, <1>3, <1>4

\* The first conversation is left: none of the others has been begun.
LEMMA ChatsTail ==
    ASSUME TypeInv, chats # <<>>, chats' = Tail(chats)
    PROVE  /\ chats' \in Seq(Chats) /\ Len(chats') = Len(chats) - 1
           /\ DOMAIN chats' = 1 .. Len(chats')
           /\ \A i \in 1 .. Len(chats') :
                 chats'[i] = chats[i + 1] /\ i + 1 \in 2 .. Len(chats) /\ chats'[i].turn = 1
           /\ ~Playing'
  <1>1. /\ chats' \in Seq(Chats) /\ Len(chats') = Len(chats) - 1 /\ DOMAIN chats' = 1 .. Len(chats')
        /\ \A i \in 1 .. Len(chats') : chats'[i] = chats[i + 1]
    BY ChatsFacts, HeadTailProperties, LenProperties
  <1>2. \A i \in 1 .. Len(chats') : i + 1 \in 2 .. Len(chats) /\ chats'[i].turn = 1
    <2>1. SUFFICES ASSUME NEW i \in 1 .. Len(chats')
                   PROVE  i + 1 \in 2 .. Len(chats) /\ chats'[i].turn = 1
      OBVIOUS
    <2>2. i + 1 \in 1 .. Len(chats) /\ i + 1 # 1 /\ i + 1 \in 2 .. Len(chats)
      BY <1>1, ChatsFacts
    <2>3. chats[i + 1].turn = 1
      BY <2>2, ChatsFacts
    <2> QED BY <1>1, <2>2, <2>3
  <1>3. ~Playing'
    <2>1. CASE chats' = <<>>
      BY <2>1 DEF Playing
    <2>2. CASE chats' # <<>>
      <3>1. Len(chats') \in Nat \ {0} /\ Head(chats') = chats'[1]
        BY <1>1, <2>2, EmptySeq
      <3>2. 1 \in 1 .. Len(chats')
        BY <1>1, <3>1, ChatsFacts
      <3>3. chats'[1].turn = 1
        BY <1>2, <3>2
      <3> QED BY <3>1, <3>3 DEF Playing, FirstTurn
    <2> QED BY <2>1, <2>2
  <1> QED BY <1>1, <1>2, <1>3

\* The first conversation goes on.
LEMMA ChatsPut ==
    ASSUME TypeInv, chats # <<>>, NEW y \in Chats, chats' = [chats EXCEPT ![1] = y]
    PROVE  /\ chats' \in Seq(Chats) /\ Len(chats') = Len(chats) /\ DOMAIN chats' = 1 .. Len(chats)
           /\ \A i \in 1 .. Len(chats) : chats'[i] = IF i = 1 THEN y ELSE chats[i]
           /\ chats' # <<>> /\ Head(chats') = y
  <1>1. 1 \in 1 .. Len(chats) /\ chats \in Seq(Chats) /\ Len(chats) \in Nat
    BY ChatsFacts
  <1>2. /\ chats' \in Seq(Chats) /\ Len(chats') = Len(chats)
        /\ \A i \in 1 .. Len(chats) : chats'[i] = IF i = 1 THEN y ELSE chats[i]
    BY <1>1, ExceptSeq
  <1>3. chats' # <<>> /\ DOMAIN chats' = 1 .. Len(chats)
    BY <1>1, <1>2, EmptySeq, LenProperties
  <1>4. Head(chats') = y
    BY <1>1, <1>2, <1>3
  <1> QED BY <1>2, <1>3, <1>4

LEMMA OpenEffect ==
    ASSUME TypeInv, OpenChat
    PROVE  /\ chats # <<>>
           /\ \E y \in Chats :
                 /\ y.conv = Head(chats).conv /\ y.message \in Personas /\ y.turn = FirstTurn
                 /\ chats' = [chats EXCEPT ![1] = y]
  <1>1. chats # <<>>
    BY DEF OpenChat
  <1>2. PICK persona \in Personas :
            chats' = [chats EXCEPT ![1] = [@ EXCEPT !.message = persona, !.turn = FirstTurn]]
    BY DEF OpenChat
  <1> DEFINE y == [chats[1] EXCEPT !.message = persona, !.turn = FirstTurn]
  <1>3. chats[1] \in Chats /\ Head(chats) = chats[1]
    BY <1>1, ChatsFacts
  <1>4. FirstTurn \in Nat
    BY DEF FirstTurn
  <1>5. y \in Chats
    BY <1>3, <1>4 DEF Chats
  <1>6. y.conv = Head(chats).conv /\ y.message = persona /\ y.turn = FirstTurn
    BY <1>3 DEF Chats
  <1>7. chats' = [chats EXCEPT ![1] = y]
    <2>1. 1 \in 1 .. Len(chats) /\ DOMAIN chats = 1 .. Len(chats)
      BY <1>1, ChatsFacts
    <2> QED BY <1>2
  <1> HIDE DEF y
  <1> QED BY <1>1, <1>5, <1>6, <1>7

LEMMA NextTurnEffect ==
    ASSUME TypeInv, Playing
    PROVE  \/ NextTurn = Tail(chats)
           \/ /\ Head(chats).turn # LastTurn
              /\ \E y \in Chats :
                    /\ y.conv = Head(chats).conv /\ y.message = Head(chats).message
                    /\ y.turn = Head(chats).turn + 1
                    /\ NextTurn = [chats EXCEPT ![1] = y]
  <1>1. SUFFICES ASSUME Head(chats).turn # LastTurn
                 PROVE  \E y \in Chats :
                           /\ y.conv = Head(chats).conv /\ y.message = Head(chats).message
                           /\ y.turn = Head(chats).turn + 1
                           /\ NextTurn = [chats EXCEPT ![1] = y]
    BY DEF NextTurn
  <1> DEFINE y == [chats[1] EXCEPT !.turn = @ + 1]
  <1>2. chats[1] \in Chats /\ Head(chats) = chats[1] /\ 1 \in DOMAIN chats
    BY ChatsFacts DEF Playing
  <1>3. y \in Chats
    BY <1>2 DEF Chats
  <1>4. /\ y.conv = Head(chats).conv /\ y.message = Head(chats).message
        /\ y.turn = Head(chats).turn + 1
    BY <1>2 DEF Chats
  <1>5. NextTurn = [chats EXCEPT ![1] = y]
    BY <1>1, <1>2 DEF NextTurn
  <1> QED BY <1>3, <1>4, <1>5

\* Any of the three, as far as the types go.
LEMMA ChatsKept ==
    ASSUME TypeInv, chats # <<>>,
           \/ chats' = Tail(chats)
           \/ \E y \in Chats : y.message \in Personas /\ chats' = [chats EXCEPT ![1] = y]
    PROVE  /\ chats' \in Seq(Chats)
           /\ \A i \in DOMAIN chats' :
                 chats'[i].turn = 1 \/ (i = 1 /\ chats'[i].message \in Personas)
  <1>1. CASE chats' = Tail(chats)
    <2>1. /\ chats' \in Seq(Chats) /\ DOMAIN chats' = 1 .. Len(chats')
          /\ \A i \in 1 .. Len(chats') : chats'[i].turn = 1
      BY <1>1, ChatsTail, SMTT(30)
    <2> QED BY <2>1
  <1>2. CASE \E y \in Chats : y.message \in Personas /\ chats' = [chats EXCEPT ![1] = y]
    <2>1. PICK y \in Chats : y.message \in Personas /\ chats' = [chats EXCEPT ![1] = y]
      BY <1>2
    <2>2. /\ chats' \in Seq(Chats) /\ DOMAIN chats' = 1 .. Len(chats)
          /\ \A i \in 1 .. Len(chats) : chats'[i] = IF i = 1 THEN y ELSE chats[i]
      BY <2>1, ChatsPut
    <2> QED BY <2>1, <2>2, ChatsFacts
  <1> QED BY <1>1, <1>2

-------------------------------------------------------------------------------
(***************************************************************************)
(* Types, and the client's place in its script.                            *)
(***************************************************************************)

\* While a request is open and not of the loop, there is nothing to play.
LEMMA PlaceFacts ==
    ASSUME TypeInv, PlaceInv
    PROVE  /\ call # Nothing /\ ~InLoop => ~Playing /\ at \in 1 .. Len(Script)
           /\ InLoop => Playing
           /\ chats # <<>> => Unwiped /\ at \in Warm + 1 .. Len(Script) - 1
           /\ Answered("reply") => InLoop
  <1>1. call # Nothing /\ ~InLoop => ~Playing /\ at \in 1 .. Len(Script)
    BY DEF TypeInv, ClientType, PlaceInv, Playing
  <1>2. InLoop => Playing
    BY DEF PlaceInv
  <1>3. chats # <<>> => at \in Warm + 1 .. Len(Script) - 1
    BY ScriptShape DEF TypeInv, ClientType, PlaceInv
  <1>4. chats # <<>> => Unwiped
    <2>1. SUFFICES ASSUME chats # <<>> PROVE Unwiped
      OBVIOUS
    <2>2. call = Nothing \/ InLoop
      BY <2>1 DEF PlaceInv
    <2>3. at < Len(Script) - 1 \/ at = Len(Script) - 1
      BY <1>3, <2>1, ScriptShape
    <2> QED BY <2>2, <2>3 DEF Unwiped
  <1>5. Answered("reply") => InLoop
    BY DEF Answered, InLoop, Asked, Done
  <1> QED BY <1>1, <1>2, <1>3, <1>4, <1>5

\* What a request may be at each place of the script.
LEMMA ScriptRequests ==
    ASSUME NEW i \in 1 .. Len(Script)
    PROVE  /\ Script[i] \in Request /\ Script[i].do # "reply"
           /\ From(Script[i], Script[i]) /\ FarTick(Script[i])
           /\ Script[i].do = "teardown" <=> i = Len(Script) - 1
           /\ Script[i].do = "tick" =>
                 /\ i \in Warm + 1 .. Len(Script) - 2
                 /\ Script[i].actions = <<>> /\ Script[i].step = "test"
           /\ Script[i].do = "health" <=> i \in {1, Warm, Len(Script)}
           /\ Script[i].do = "push" => i \in 3 .. Warm - 1 \/ i \in Warm + 1 .. Len(Script) - 2
           /\ i \in 3 .. Warm - 1 => Script[i] = PushOf(Base[i - 2], 1) /\ Base[i - 2] \in Ids
           /\ Script[i].do = "push" /\ Script[i].version = 0 =>
                 Script[i].id = Merchants[1] /\ i \in Warm + 1 .. Len(Script) - 2
  <1>1. Script[i] \in Request
    BY ScriptShape, ElementOfSeq
  <1>2. CASE i \in 3 .. Warm - 1
    <2>1. Script[i] = PushOf(Base[i - 2], 1) /\ Base[i - 2] \in Ids
      BY <1>2, ScriptShape
    <2>2. Script[i].do = "push" /\ Script[i].version = 1
      BY <2>1 DEF PushOf
    <2>3. i \notin {1, Warm, Len(Script), Len(Script) - 1}
      BY <1>2, ScriptShape
    <2> QED BY <1>1, <1>2, <2>1, <2>2, <2>3 DEF From, FarTick
  <1>3. CASE i \in {1, Warm, Len(Script)}
    <2>1. Script[i] = Health
      BY <1>3, ScriptShape
    <2>2. Script[i].do = "health"
      BY <2>1 DEF Health
    <2>3. i # Len(Script) - 1 /\ i \notin 3 .. Warm - 1
      BY <1>3, ScriptShape
    <2> QED BY <1>1, <1>3, <2>2, <2>3 DEF From, FarTick
  <1>4. CASE i = Len(Script) - 1
    <2>1. Script[i] = Wipe
      BY <1>4, ScriptShape
    <2>2. Script[i].do = "teardown"
      BY <2>1 DEF Wipe
    <2>3. i \notin {1, Warm, Len(Script)} /\ i \notin 3 .. Warm - 1
      BY <1>4, ScriptShape
    <2> QED BY <1>1, <1>4, <2>2, <2>3 DEF From, FarTick
  <1>5. CASE i = 2
    <2>1. Script[i] = Stateless
      BY <1>5, ScriptShape
    <2>2. Script[i].do = "stateless"
      BY <2>1 DEF Stateless
    <2>3. i \notin {1, Warm, Len(Script), Len(Script) - 1} /\ i \notin 3 .. Warm - 1
      BY <1>5, ScriptShape
    <2> QED BY <1>1, <2>2, <2>3 DEF From, FarTick
  <1>6. CASE i \in Warm + 1 .. Len(Script) - 2
    <2>1. Script[i] \in MidRequests
      BY <1>6, ScriptShape
    <2>2. FarFuture \notin 0 .. NumTicks - 1
      BY RehearsalAssumption DEF FarFuture
    <2>3. /\ Script[i].do \in {"push", "tick", "stateless"}
          /\ FarTick(Script[i])
          /\ Script[i].do = "tick" => Script[i].actions = <<>> /\ Script[i].step = "test"
          /\ Script[i].do = "push" /\ Script[i].version = 0 => Script[i].id = Merchants[1]
      <3>1. CASE \E id \in Ids, version \in {1, 2} : Script[i] = PushOf(id, version)
        BY <3>1 DEF PushOf, FarTick
      <3>2. CASE Script[i] = PushOf(Merchants[1], 0)
        BY <3>2 DEF PushOf, FarTick
      <3>3. CASE \E list \in Seq(Triggers), now \in 0 .. NumTicks - 1 : Script[i] = TickOf(list, now)
        BY <2>2, <3>3 DEF TickOf, FarTick
      <3>4. CASE Script[i] = TickOf(<<Extra>>, FarFuture)
        BY <3>4 DEF TickOf, FarTick
      <3>5. CASE Script[i] = Stateless
        BY <3>5 DEF Stateless, FarTick
      <3> QED BY <2>1, <3>1, <3>2, <3>3, <3>4, <3>5 DEF MidRequests
    <2>4. i \notin {1, Warm, Len(Script), Len(Script) - 1} /\ i \notin 3 .. Warm - 1
      BY <1>6, ScriptShape
    <2> QED BY <1>1, <1>6, <2>3, <2>4 DEF From
  <1>7. \/ i = 2 \/ i \in 3 .. Warm - 1 \/ i \in {1, Warm, Len(Script)}
        \/ i \in Warm + 1 .. Len(Script) - 2 \/ i = Len(Script) - 1
    BY ScriptShape
  <1> QED BY <1>2, <1>3, <1>4, <1>5, <1>6, <1>7

\* The request as it is sent: a tick carries what had been stopped by then.
LEMMA ScriptedFacts ==
    ASSUME TypeInv, at \in 1 .. Len(Script)
    PROVE  /\ Scripted \in Request /\ Scripted # Nothing
           /\ Scripted.do \notin {"reply", "answered", "failed"}
           /\ From(Scripted, Script[at]) /\ FarTick(Scripted)
           /\ Scripted.do = "tick" =>
                 /\ Scripted.actions = <<>> /\ Scripted.step = "test"
                 /\ Scripted.stops = stopped
  <1>1. /\ Script[at] \in Request /\ Script[at].do # "reply"
        /\ From(Script[at], Script[at]) /\ FarTick(Script[at])
        /\ Script[at].do = "tick" => Script[at].actions = <<>> /\ Script[at].step = "test"
    BY ScriptRequests
  <1>2. CASE Script[at].do # "tick"
    <2>1. Scripted = Script[at]
      BY <1>2 DEF Scripted
    <2> QED BY <1>1, <1>2, <2>1, NothingApart, RequestFields
  <1>3. CASE Script[at].do = "tick"
    <2> DEFINE s == Script[at]
               q == [s EXCEPT !.stops = stopped]
    <2>1. Scripted = q
      BY <1>3 DEF Scripted
    <2>2. s \in Tick /\ stopped \in SUBSET Elements(Merchants)
      BY <1>1, <1>3 DEF Request, Tick, TypeInv, ClientType
    <2>3. /\ q \in Tick /\ q.do = "tick" /\ q.now = s.now /\ q.rest = s.rest
          /\ q.actions = s.actions /\ q.step = s.step /\ q.stops = stopped
      BY <2>2 DEF Tick
    <2>4. q \in Request
      BY <2>3 DEF Request
    <2> HIDE DEF q
    <2>5. From(q, s) /\ FarTick(q)
      BY <1>1, <1>3, <2>3 DEF From, FarTick
    <2> QED BY <1>1, <1>3, <2>1, <2>3, <2>4, <2>5, NothingApart, RequestFields
  <1> QED BY <1>2, <1>3

LEMMA ServeIsOne ==
    ASSUME Serve
    PROVE  \E r \in InService : ServeOne(r)
  BY DEF Serve, ServeOne, Moves, Raises

LEMMA TypeNext ==
    ASSUME TypeInv, PlaceInv, [Next]_vars
    PROVE  TypeInv'
  <1>1. CASE UNCHANGED vars
    BY <1>1 DEF vars, engineVars, clientVars, served, TypeInv, EngineType, WireType, ClientType,
                IsResponse
  <1>2. CASE Serve
    <2>1. EngineType' /\ WireType'
      <3>1. PICK r \in InService : ServeOne(r)
        BY <1>2, ServeIsOne
      <3> QED BY <3>1, ServeTypes
    <2>2. ClientType'
      BY <1>2 DEF Serve, clientVars, TypeInv, ClientType
    <2> QED BY <2>1, <2>2 DEF TypeInv
  <1>3. CASE OpenChat
    <2>1. EngineType' /\ WireType'
      BY <1>3 DEF OpenChat, engineVars, served, TypeInv, EngineType, WireType, IsResponse
    <2>2. /\ chats' \in Seq(Chats)
          /\ \A i \in DOMAIN chats' :
                chats'[i].turn = 1 \/ (i = 1 /\ chats'[i].message \in Personas)
      BY <1>3, OpenEffect, ChatsKept
    <2>3. Head(chats).conv \in Triggers
      BY <1>3, ChatsFacts DEF OpenChat
    <2>4. logged' \subseteq Triggers /\ heard' \in [Triggers -> SUBSET (ReplyKind \cup {Opening})]
      BY <1>3, <2>3 DEF OpenChat, TypeInv, ClientType
    <2>5. at' = at /\ failures' = failures /\ stopped' = stopped
      BY <1>3 DEF OpenChat
    <2> QED BY <2>1, <2>2, <2>4, <2>5 DEF TypeInv, ClientType
  <1>4. CASE Send
    <2>1. call' \in Request
      <3>1. CASE Playing /\ call' = ReplyOf(Head(chats).conv, Head(chats).message)
        <4>1. Head(chats).conv \in Triggers /\ Head(chats).message \in Personas
          BY <3>1, ChatsFacts
        <4> QED BY <3>1, <4>1 DEF ReplyOf, Request
      <3>2. CASE chats = <<>> /\ ~Ended /\ call' = Scripted
        <4>1. at \in 1 .. Len(Script)
          BY <3>2, ScriptShape DEF Ended, TypeInv, ClientType
        <4> QED BY <3>2, <4>1, ScriptedFacts
      <3> QED BY <1>4, <3>1, <3>2 DEF Send
    <2> QED BY <1>4, <2>1 DEF Send, engineVars, clientVars, served, TypeInv, EngineType, WireType, ClientType
  <1>5. CASE Receive
    <2>1. call # Nothing /\ call.do = "answered"
      BY <1>5 DEF Receive, Answered
    <2>2. IsResponse(call) /\ Asked = call.to
      BY <2>1, AskedType DEF Done
    <2>3. ~InLoop
      BY <1>5, <2>2 DEF Receive, Answered, InLoop
    <2>4. at' \in 1 .. Len(Script) + 1
      BY <1>5, <2>1, <2>3, PlaceFacts, ScriptShape DEF Receive
    <2>5. /\ chats' \in Seq(Chats)
          /\ \A i \in DOMAIN chats' :
                chats'[i].turn = 1 \/ (i = 1 /\ chats'[i].message \in Personas)
      <3>1. CASE call.to.do = "tick" /\ call.to.now # FarFuture
        <4>1. call.with \in Seq(Triggers)
          BY <2>1, <2>2, <3>1, ResponseFields DEF Returned
        <4>2. /\ Len(call.with) \in Nat /\ DOMAIN call.with = 1 .. Len(call.with)
              /\ \A i \in 1 .. Len(call.with) : call.with[i] \in Triggers
          BY <4>1, LenProperties, ElementOfSeq
        <4>3. chats' = [i \in 1 .. Len(call.with) |-> Chat(call.with[i])]
          BY <1>5, <3>1, <4>2 DEF Receive
        <4>4. \A g \in Triggers : Chat(g) \in Chats /\ Chat(g).turn = 1
          BY DEF Chat, Chats
        <4> QED BY <4>2, <4>3, <4>4
      <3>2. CASE ~(call.to.do = "tick" /\ call.to.now # FarFuture)
        <4>1. chats' = <<>>
          BY <1>5, <3>2 DEF Receive
        <4> QED BY <4>1
      <3> QED BY <3>1, <3>2
    <2>6. /\ engineVars' = engineVars /\ call' = Nothing
          /\ UNCHANGED <<late, failures, logged, heard, stopped, served>>
      BY <1>5 DEF Receive
    <2>7. EngineType' /\ WireType'
      BY <2>6 DEF engineVars, served, TypeInv, EngineType, WireType
    <2> QED BY <2>4, <2>5, <2>6, <2>7 DEF TypeInv, ClientType
  <1>6. CASE ReceiveReply
    <2>1. Answered("reply") /\ Playing
      BY <1>6, PlaceFacts DEF ReceiveReply
    <2>2. IsResponse(call) /\ call.to \in Request /\ call.to.do = "reply"
      BY <2>1, AskedType, ResponseFields DEF Answered, Done
    <2>3. call.to.conv \in Triggers /\ call.with \in ReplyAnswer
      BY <2>1, <2>2, RequestFields, ResponseFields DEF Answered, Returned
    <2>4. chats' = Tail(chats) \/ chats' = NextTurn
      BY <1>6 DEF ReceiveReply
    <2>5. /\ chats' \in Seq(Chats)
          /\ \A i \in DOMAIN chats' :
                chats'[i].turn = 1 \/ (i = 1 /\ chats'[i].message \in Personas)
      BY <2>1, <2>4, NextTurnEffect, ChatsFacts, ChatsKept DEF Playing
    <2>6. heard' \in [Triggers -> SUBSET (ReplyKind \cup {Opening})]
      <3>1. call.with.action = "send" => call.with.body \in ReplyKind
        BY <2>3 DEF ReplyAnswer
      <3> QED BY <1>6, <2>3, <3>1 DEF ReceiveReply, TypeInv, ClientType
    <2>7. stopped' \subseteq Elements(Merchants)
      <3>1. MerchantOf[call.to.conv] \in Elements(Merchants)
        BY <2>3, RehearsalAssumption
      <3> QED BY <1>6, <3>1 DEF ReceiveReply, TypeInv, ClientType
    <2>8. /\ engineVars' = engineVars /\ call' = Nothing
          /\ UNCHANGED <<late, at, failures, logged, served>>
      BY <1>6 DEF ReceiveReply
    <2>9. EngineType' /\ WireType'
      BY <2>8 DEF engineVars, served, TypeInv, EngineType, WireType
    <2> QED BY <2>5, <2>6, <2>7, <2>8, <2>9 DEF TypeInv, ClientType
  <1>7. CASE ReceiveError
    <2>1. /\ call # Nothing /\ call.do = "failed" /\ call' = Nothing /\ at' = at + 1
          /\ engineVars' = engineVars
          /\ UNCHANGED <<late, chats, failures, logged, heard, stopped, served>>
      BY <1>7 DEF ReceiveError
    <2>2. ~InLoop
      <3>1. IsResponse(call) /\ Asked = call.to
        BY <2>1, AskedType DEF Done
      <3> QED BY <2>1, <3>1, ResponseFields DEF InLoop
    <2>3. at' \in 1 .. Len(Script) + 1
      BY <2>1, <2>2, PlaceFacts, ScriptShape
    <2>4. EngineType' /\ WireType'
      BY <2>1 DEF engineVars, served, TypeInv, EngineType, WireType
    <2> QED BY <2>1, <2>3, <2>4 DEF TypeInv, ClientType
  <1>8. CASE Fail
    <2>1. /\ call # Nothing /\ call' = Nothing /\ engineVars' = engineVars
          /\ UNCHANGED <<logged, heard, stopped, served>>
      BY <1>8 DEF Fail
    <2>2. late' \subseteq Request
      <3>1. call.do \notin {"answered", "failed"} => call \in Request
        BY <2>1, AskedType DEF Done
      <3> QED BY <1>8, <3>1 DEF Fail, TypeInv, WireType
    <2>3. failures' \in Nat
      BY <1>8 DEF Fail, TypeInv, ClientType
    <2>4. EngineType' /\ WireType'
      BY <2>1, <2>2 DEF engineVars, served, TypeInv, EngineType, WireType
    <2>5. CASE Playing
      <3>1. chats' = Tail(chats) /\ at' = at
        BY <1>8, <2>5 DEF Fail
      <3>2. /\ chats' \in Seq(Chats)
            /\ \A i \in DOMAIN chats' :
                  chats'[i].turn = 1 \/ (i = 1 /\ chats'[i].message \in Personas)
        BY <2>5, <3>1, ChatsKept DEF Playing
      <3> QED BY <2>1, <2>3, <2>4, <3>1, <3>2 DEF TypeInv, ClientType
    <2>6. CASE ~Playing
      <3>1. chats' = chats /\ at' = (IF at = 1 THEN Warm ELSE at) + 1
        BY <1>8, <2>6 DEF Fail, Warm
      <3>2. at' \in 1 .. Len(Script) + 1
        BY <2>1, <2>6, <3>1, PlaceFacts, ScriptShape
      <3> QED BY <2>1, <2>3, <2>4, <3>1, <3>2 DEF TypeInv, ClientType
    <2> QED BY <2>5, <2>6
  <1>9. CASE Finished
    BY <1>1, <1>9 DEF Finished
  <1> QED BY <1>1, <1>2, <1>3, <1>4, <1>5, <1>6, <1>7, <1>8, <1>9 DEF Next

\* Serving answers what the client waits for, or takes a tick on by one step.
LEMMA ServeAsked ==
    ASSUME TypeInv, NEW r \in InService, ServeOne(r)
    PROVE  /\ call' = Nothing <=> call = Nothing
           /\ call # Nothing => Asked' = Asked \/ Moved(Asked, Asked')
           /\ call # Nothing /\ Done => call' = call
           /\ Answered("tick")' => call' = call \/ call'.with = call'.to.actions
           /\ InLoop' <=> InLoop
           /\ \A q \in late' : q \in late \/ q.do = "tick"
  <1>1. /\ r \in Request /\ r # Nothing /\ r.do \notin {"answered", "failed"}
        /\ r = call => call # Nothing /\ ~Done /\ Asked = r
    BY InServiceType
  <1>2. CASE ~Moves(r)
    <2>1. PICK response :
             /\ Respond(r, response) /\ IsResponse(response) /\ response.to = r
             /\ r.do = "tick" /\ response.do = "answered" => response.with = r.actions
      BY <1>2, ServeAnswers
    <2>2. CASE call = r /\ call' = response /\ late' = late
      <3>1. call' # Nothing /\ call'.do \in {"answered", "failed"} /\ call'.to = r
        BY <2>1, <2>2, NothingApart, ResponseFields
      <3>2. Asked = r /\ Asked' = r /\ call # Nothing /\ ~Done
        BY <1>1, <2>2, <3>1 DEF Asked, Done
      <3>3. InLoop' <=> InLoop
        BY <3>1, <3>2 DEF InLoop
      <3>4. Answered("tick")' => call'.with = call'.to.actions
        BY <2>1, <2>2, <3>1 DEF Answered
      <3> QED BY <2>2, <3>1, <3>2, <3>3, <3>4
    <2>3. CASE late' = late \ {r} /\ call' = call
      BY <2>3 DEF Asked, Done, InLoop
    <2> QED BY <2>1, <2>2, <2>3 DEF Respond
  <1>3. CASE Moves(r)
    <2>1. PICK q \in Request : Becomes(r, q) /\ Moved(r, q)
      BY <1>3, MoveEffect
    <2>2. /\ q # Nothing /\ q.do \notin {"answered", "failed"}
          /\ q.do = "tick" /\ r.do = "tick"
      BY <2>1, NothingApart DEF Moved
    <2>3. CASE call = r /\ call' = q /\ late' = late
      <3>1. Asked = r /\ Asked' = q /\ call # Nothing /\ ~Done
        BY <1>1, <2>2, <2>3 DEF Asked, Done
      <3>2. ~InLoop /\ ~InLoop' /\ ~Answered("tick")'
        BY <2>2, <2>3, <3>1 DEF InLoop, Answered
      <3> QED BY <2>1, <2>2, <2>3, <3>1, <3>2
    <2>4. CASE late' = (late \ {r}) \cup {q} /\ call' = call
      BY <2>2, <2>4 DEF Asked, Done, InLoop
    <2> QED BY <2>1, <2>3, <2>4 DEF Becomes
  <1> QED BY <1>2, <1>3

LEMMA PlaceServed ==
    ASSUME TypeInv, PlaceInv, Serve
    PROVE  PlaceInv' /\ (Unwiped' <=> Unwiped)
  <1>1. PICK r \in InService : ServeOne(r)
    BY ServeIsOne
  <1>2. /\ call' = Nothing <=> call = Nothing
        /\ call # Nothing => Asked' = Asked \/ Moved(Asked, Asked')
        /\ call # Nothing /\ Done => call' = call
        /\ Answered("tick")' => call' = call \/ call'.with = call'.to.actions
        /\ InLoop' <=> InLoop
        /\ \A q \in late' : q \in late \/ q.do = "tick"
    BY <1>1, ServeAsked
  <1>3. at' = at /\ chats' = chats
    BY DEF Serve, clientVars
  <1>4. Unwiped' <=> Unwiped
    BY <1>2, <1>3 DEF Unwiped
  <1>5. ASSUME call' # Nothing, ~InLoop'
        PROVE  at <= Len(Script) /\ chats = <<>> /\ From(Asked', Script[at]) /\ FarTick(Asked')
    <2>1. /\ call # Nothing /\ at <= Len(Script) /\ chats = <<>>
          /\ From(Asked, Script[at]) /\ FarTick(Asked)
      BY <1>2, <1>5 DEF PlaceInv
    <2>2. CASE Asked' = Asked
      BY <2>1, <2>2
    <2>3. CASE Moved(Asked, Asked')
      <3>1. From(Asked', Script[at])
        BY <2>1, <2>3 DEF From, Moved
      <3>2. FarTick(Asked')
        <4>1. SUFFICES ASSUME Asked'.now = FarFuture
                       PROVE  /\ Asked'.actions = <<>> /\ Asked'.rest \in {<<>>, <<Extra>>}
                              /\ Asked'.step = "test"
          BY DEF FarTick
        <4>2. /\ Asked.now = FarFuture /\ Asked.actions = <<>> /\ Asked.rest = <<Extra>>
              /\ Asked.step = "test"
          BY <2>1, <2>3, <4>1 DEF FarTick, Moved
        <4>3. Head(Asked.rest) = Extra /\ Tail(Asked.rest) = <<>>
          BY <4>2
        <4>4. ~Actable(Extra, FarFuture)
          <5>1. /\ Expiry[Extra] \in Nat /\ Expiry[Extra] # Never
                /\ ~(FarFuture <= Expiry[Extra])
            BY RehearsalAssumption DEF FarFuture, Triggers
          <5> QED BY <5>1 DEF Actable
        <4> QED BY <2>3, <4>2, <4>3, <4>4 DEF Moved
      <3> QED BY <2>1, <3>1, <3>2
    <2> QED BY <1>2, <2>1, <2>2, <2>3
  <1>6. Answered("tick")' => call'.with = call'.to.actions
    BY <1>2 DEF PlaceInv, Answered
  <1>7. InLoop' => Playing' /\ Asked' = ReplyOf(Head(chats).conv, Head(chats).message)
    <2>1. SUFFICES ASSUME InLoop PROVE Playing' /\ Asked' = ReplyOf(Head(chats).conv, Head(chats).message)
      BY <1>2
    <2>2. Playing /\ Asked = ReplyOf(Head(chats).conv, Head(chats).message) /\ Asked.do = "reply"
      BY <2>1 DEF PlaceInv, InLoop
    <2>3. Asked' = Asked
      BY <1>2, <2>1, <2>2 DEF InLoop, Moved
    <2> QED BY <1>3, <2>2, <2>3 DEF Playing
  <1>8. Unwiped' => \A q \in late' : q.do # "teardown"
    BY <1>2, <1>4 DEF PlaceInv
  <1>9. chats' # <<>> => at' > Warm /\ at' < Len(Script)
    BY <1>3 DEF PlaceInv
  <1> QED BY <1>3, <1>4, <1>5, <1>6, <1>7, <1>8, <1>9 DEF PlaceInv

\* While nothing is open, the place is all there is to say.
LEMMA PlaceIdle ==
    ASSUME TypeInv, call' = Nothing,
           chats' # <<>> => at' > Warm /\ at' < Len(Script),
           Unwiped' => \A q \in late' : q.do # "teardown"
    PROVE  PlaceInv'
  <1>1. ~InLoop' /\ ~Answered("tick")'
    BY DEF InLoop, Answered
  <1> QED BY <1>1 DEF PlaceInv

LEMMA PlaceClient ==
    ASSUME TypeInv, PlaceInv, OpenChat \/ Send \/ Receive \/ ReceiveReply \/ ReceiveError \/ Fail
    PROVE  PlaceInv' /\ (Unwiped' => Unwiped)
  <1>1. /\ at \in 1 .. Len(Script) + 1 /\ Len(Script) \in Nat /\ Warm \in Nat
        /\ Warm <= Len(Script) - 2
    BY ScriptShape DEF TypeInv, ClientType
  <1>2. CASE OpenChat
    <2>1. call = Nothing /\ call' = Nothing /\ chats # <<>> /\ at' = at /\ late' = late
      BY <1>2 DEF OpenChat
    <2>2. Unwiped
      BY <2>1, PlaceFacts
    <2> QED BY <2>1, <2>2, PlaceIdle DEF PlaceInv
  <1>3. CASE Send
    <2>1. call = Nothing /\ at' = at /\ late' = late /\ chats' = chats
      BY <1>3 DEF Send, clientVars
    <2>2. Unwiped' => Unwiped
      BY <2>1 DEF Unwiped
    <2>3. CASE Playing /\ call' = ReplyOf(Head(chats).conv, Head(chats).message)
      <3>1. /\ call'.do = "reply" /\ Asked' = call' /\ ~Answered("tick")'
        BY <2>3 DEF ReplyOf, Asked, Done, Answered
      <3>2. call' # Nothing
        <4>1. TypeInv'
          BY <1>3, TypeNext DEF Next
        <4>2. Head(chats).conv \in Triggers /\ Head(chats).message \in Personas
          BY <2>3, ChatsFacts
        <4>3. call' \in Request
          BY <2>3, <4>2 DEF ReplyOf, Request
        <4> QED BY <4>3, NothingApart
      <3>3. InLoop' /\ Playing'
        BY <2>1, <2>3, <3>1, <3>2 DEF InLoop, Playing
      <3> QED BY <2>1, <2>2, <2>3, <3>1, <3>3 DEF PlaceInv
    <2>4. CASE chats = <<>> /\ ~Ended /\ call' = Scripted
      <3>1. at \in 1 .. Len(Script)
        BY <1>1, <2>4 DEF Ended
      <3>2. /\ call' \in Request /\ call'.do # "reply" /\ From(call', Script[at]) /\ FarTick(call')
        BY <2>4, <3>1, ScriptedFacts
      <3>3. call'.do \notin {"answered", "failed"} /\ Asked' = call'
        BY <3>2, RequestFields DEF Asked, Done
      <3>4. ~InLoop' /\ ~Answered("tick")'
        BY <3>2, <3>3 DEF InLoop, Answered
      <3> QED BY <2>1, <2>2, <2>4, <3>1, <3>2, <3>3, <3>4 DEF PlaceInv
    <2> QED BY <1>3, <2>3, <2>4 DEF Send
  <1>4. CASE Receive
    <2>1. call # Nothing /\ call.do = "answered" /\ call' = Nothing /\ at' = at + 1 /\ late' = late
      BY <1>4 DEF Receive, Answered
    <2>2. Asked = call.to /\ ~InLoop
      BY <1>4, <2>1 DEF Asked, Done, InLoop, Receive, Answered
    <2>3. at \in 1 .. Len(Script) /\ From(Asked, Script[at])
      BY <2>1, <2>2, PlaceFacts DEF PlaceInv
    <2>4. chats' # <<>> => at' > Warm /\ at' < Len(Script)
      <3>1. chats' # <<>> => call.to.do = "tick"
        BY <1>4 DEF Receive
      <3>2. call.to.do = "tick" => Script[at].do = "tick"
        BY <2>2, <2>3 DEF From
      <3> QED BY <1>1, <2>1, <2>3, <3>1, <3>2, ScriptRequests
    <2>5. Unwiped' => Unwiped
      BY <1>1, <2>1 DEF Unwiped
    <2> QED BY <2>1, <2>4, <2>5, PlaceIdle DEF PlaceInv
  <1>5. CASE ReceiveReply
    <2>1. Playing /\ chats # <<>>
      BY <1>5, PlaceFacts DEF ReceiveReply, Playing
    <2>2. Unwiped /\ at > Warm /\ at < Len(Script)
      BY <2>1, PlaceFacts DEF PlaceInv
    <2>3. call' = Nothing /\ at' = at /\ late' = late
      BY <1>5 DEF ReceiveReply
    <2> QED BY <2>2, <2>3, PlaceIdle DEF PlaceInv
  <1>6. CASE Fail
    <2>1. call # Nothing /\ call' = Nothing /\ (late' = late \cup {call} \/ late' = late)
      BY <1>6 DEF Fail
    <2>2. late' # late => ~Done
      BY <1>6 DEF Fail, Done
    <2>3. ~Done => Asked = call
      BY DEF Asked
    <2>4. CASE Playing
      <3>1. chats # <<>> /\ at' = at
        BY <1>6, <2>4 DEF Fail, Playing
      <3>2. Unwiped /\ InLoop /\ at > Warm /\ at < Len(Script)
        BY <2>1, <3>1, PlaceFacts DEF PlaceInv
      <3>3. \A q \in late' : q.do # "teardown"
        BY <2>1, <2>2, <2>3, <3>2 DEF PlaceInv, InLoop
      <3> QED BY <2>1, <3>1, <3>2, <3>3, PlaceIdle
    <2>5. CASE ~Playing
      <3>1. ~InLoop /\ chats' = chats /\ at' = (IF at = 1 THEN Warm ELSE at) + 1
        BY <1>6, <2>5 DEF Fail, PlaceInv, Warm
      <3>2. at \in 1 .. Len(Script) /\ From(Asked, Script[at]) /\ chats = <<>>
        BY <2>1, <3>1, PlaceFacts DEF PlaceInv
      <3>3. Unwiped' => Unwiped /\ at # Len(Script) - 1
        <4>1. CASE at = 1
          <5>1. 1 < Len(Script) - 1
            BY ScriptShape
          <5>2. at < Len(Script) - 1
            BY <4>1, <5>1
          <5>3. at # Len(Script) - 1
            BY <1>1, <5>2
          <5>4. Unwiped
            BY <5>2 DEF Unwiped
          <5> QED BY <5>3, <5>4
        <4>2. CASE at # 1
          <5>1. at' = at + 1
            BY <3>1, <4>2
          <5>2. CASE at' < Len(Script) - 1
            BY <1>1, <5>1, <5>2 DEF Unwiped
          <5>3. CASE at' = Len(Script) - 1
            BY <1>1, <5>1, <5>3 DEF Unwiped
          <5> QED BY <5>2, <5>3 DEF Unwiped
        <4> QED BY <4>1, <4>2
      <3>4. Unwiped' => Asked.do # "teardown"
        BY <3>2, <3>3, ScriptRequests DEF From
      <3>5. Unwiped' => \A q \in late' : q.do # "teardown"
        BY <2>1, <2>2, <2>3, <3>3, <3>4 DEF PlaceInv
      <3> QED BY <2>1, <3>1, <3>2, <3>3, <3>5, PlaceIdle
    <2> QED BY <2>4, <2>5
  <1>7. CASE ReceiveError
    <2>1. /\ call # Nothing /\ call.do = "failed" /\ call' = Nothing /\ at' = at + 1
          /\ late' = late /\ chats' = chats
      BY <1>7 DEF ReceiveError
    <2>2. ~InLoop
      <3>1. IsResponse(call) /\ Asked = call.to
        BY <2>1, AskedType DEF Done
      <3> QED BY <2>1, <3>1, ResponseFields DEF InLoop
    <2>3. chats' = <<>>
      BY <2>1, <2>2 DEF PlaceInv
    <2>4. Unwiped' => Unwiped
      BY <1>1, <2>1 DEF Unwiped
    <2> QED BY <2>1, <2>3, <2>4, PlaceIdle DEF PlaceInv
  <1> QED BY <1>2, <1>3, <1>4, <1>5, <1>6, <1>7

LEMMA PlaceNext ==
    ASSUME TypeInv, PlaceInv, [Next]_vars
    PROVE  TypeInv' /\ PlaceInv' /\ (Unwiped' => Unwiped)
  <1>1. TypeInv'
    BY TypeNext
  <1>2. CASE UNCHANGED vars \/ Finished
    <2>1. call' = call /\ late' = late /\ at' = at /\ chats' = chats
      BY <1>2 DEF Finished, vars, clientVars
    <2>2. /\ InLoop' <=> InLoop
          /\ Playing' <=> Playing
          /\ Answered("tick")' <=> Answered("tick")
          /\ Asked' = Asked
      BY <2>1 DEF InLoop, Asked, Done, Playing, Answered
    <2>3. Unwiped' <=> Unwiped
      BY <2>1, <2>2 DEF Unwiped
    <2> QED BY <1>1, <2>1, <2>2, <2>3 DEF PlaceInv
  <1>3. CASE Serve
    BY <1>1, <1>3, PlaceServed
  <1>4. CASE OpenChat \/ Send \/ Receive \/ ReceiveReply \/ ReceiveError \/ Fail
    BY <1>1, <1>4, PlaceClient
  <1> QED BY <1>2, <1>3, <1>4 DEF Next

LEMMA PlaceInit == Init => TypeInv /\ PlaceInv
  <1>1. SUFFICES ASSUME Init PROVE TypeInv /\ PlaceInv
    OBVIOUS
  <1>2. EngineType /\ WireType
    BY <1>1 DEF Init, EngineType, WireType
  <1>3. ClientType
    <2>1. at \in 1 .. Len(Script) + 1
      BY <1>1, ScriptShape DEF Init
    <2> QED BY <1>1, <2>1 DEF Init, ClientType
  <1>4. PlaceInv
    BY <1>1 DEF Init, PlaceInv, InLoop, Answered
  <1> QED BY <1>2, <1>3, <1>4 DEF TypeInv

\* The client waits for the request at its place of the script, or for the turn of the
\* conversation that is first on its list, and no teardown is on its way before the last
\* but one (run_simulation, hostile_evaluator_simulation.py).
THEOREM PlaceInvariant == Spec => [](TypeInv /\ PlaceInv)
  <1>1. Init => TypeInv /\ PlaceInv
    BY PlaceInit
  <1>2. TypeInv /\ PlaceInv /\ [Next]_vars => (TypeInv /\ PlaceInv)'
    BY PlaceNext
  <1> QED BY <1>1, <1>2, PTL DEF Spec

-------------------------------------------------------------------------------
(***************************************************************************)
(* The loop, until the wipe.                                               *)
(***************************************************************************)

LEMMA NoTeardown ==
    ASSUME TypeInv, PlaceInv, Unwiped, NEW r \in InService
    PROVE  r.do # "teardown"
  <1>1. /\ r \in late \/ (call # Nothing /\ r = call)
        /\ r = call => Asked = r
    BY InServiceType
  <1>2. CASE r \in late
    BY <1>2 DEF PlaceInv
  <1>3. CASE call # Nothing /\ r = call
    <2>1. Asked = r
      BY <1>1, <1>3
    <2>2. CASE InLoop
      BY <2>1, <2>2 DEF InLoop
    <2>3. CASE ~InLoop
      <3>1. at \in 1 .. Len(Script) /\ From(r, Script[at])
        BY <1>3, <2>1, <2>3, PlaceFacts DEF PlaceInv
      <3>2. at # Len(Script) - 1
        BY <1>3, <2>3, <3>1, ScriptShape DEF Unwiped
      <3> QED BY <3>1, <3>2, ScriptRequests DEF From
    <2> QED BY <2>2, <2>3
  <1> QED BY <1>1, <1>2, <1>3

LEMMA OthersServed ==
    ASSUME TypeInv, NEW r \in InService, ServeOne(r), r # call
    PROVE  call' = call
  <1>1. CASE Moves(r)
    BY <1>1, MoveEffect DEF Becomes
  <1>2. CASE ~Moves(r)
    BY <1>2, ServeAnswers DEF Respond
  <1> QED BY <1>1, <1>2

\* What is in service after a step was before, or is the request that it moved.
LEMMA StillInService ==
    ASSUME TypeInv, NEW r \in InService, ServeOne(r)
    PROVE  \/ /\ ~Moves(r)
              /\ \A s \in InService' : s \in InService /\ (s = r => r = call /\ r \in late)
              /\ \A s : s \in late' => s \in late
              /\ call' = call \/ call' \notin InService'
           \/ \E q \in Request :
                 /\ Moves(r) /\ Moved(r, q) /\ q # r /\ q \in InService'
                 /\ \A s \in InService' : s = q \/ s \in InService
                 /\ \A s \in InService' : s = r => r = call /\ r \in late
                 /\ \A s : s \in late' => s \in late \/ s = q
                 /\ call' = call \/ (call' = q /\ late' = late)
  <1>1. /\ r \in Request /\ r # Nothing /\ r.do \notin {"answered", "failed"}
        /\ r \in late \/ (call # Nothing /\ r = call /\ ~Done)
        /\ r = call => call # Nothing /\ ~Done /\ Asked = r
    BY InServiceType
  <1>2. /\ \A s \in InService : s \in late \/ s = call
        /\ \A s \in InService' : s \in late' \/ s = call'
        /\ late \subseteq InService
    BY DEF InService
  <1>3. CASE ~Moves(r)
    <2>1. PICK response : Respond(r, response) /\ IsResponse(response)
      BY <1>3, ServeAnswers
    <2>2. CASE call = r /\ call' = response /\ late' = late
      <3>1. call' \notin InService'
        <4>1. call'.do \in {"answered", "failed"}
          BY <2>1, <2>2, ResponseFields
        <4>2. call' \notin late
          BY <4>1, RequestFields DEF TypeInv, WireType
        <4> QED BY <2>2, <4>1, <4>2 DEF InService
      <3>2. \A s \in InService' : s \in late
        BY <1>2, <2>2, <3>1
      <3> QED BY <1>2, <1>3, <2>2, <3>1, <3>2
    <2>3. CASE r \in late /\ late' = late \ {r} /\ call' = call
      <3>1. \A s \in InService' : s \in InService
        BY <2>3 DEF InService
      <3>2. \A s \in InService' : s = r => r = call
        BY <1>2, <2>3
      <3> QED BY <1>3, <2>3, <3>1, <3>2
    <2> QED BY <2>1, <2>2, <2>3 DEF Respond
  <1>4. CASE Moves(r)
    <2>1. PICK q \in Request : Becomes(r, q) /\ Moved(r, q)
      BY <1>4, MoveEffect
    <2>2. q # Nothing /\ q.do \notin {"answered", "failed"}
      BY <2>1, NothingApart, RequestFields
    <2>3. q # r
      <3>1. r.rest \in Seq(Triggers) /\ r.rest # <<>>
        BY <1>1, <2>1, RequestFields DEF Moved
      <3>2. Tail(r.rest) # r.rest
        <4> DEFINE n == Len(r.rest)
                   m == Len(Tail(r.rest))
        <4>1. m = n - 1 /\ n \in Nat
          BY <3>1, HeadTailProperties, LenProperties
        <4>2. Tail(r.rest) = r.rest => m = n
          OBVIOUS
        <4> HIDE DEF m, n
        <4>3. m # n
          BY <4>1
        <4> QED BY <4>2, <4>3
      <3> QED BY <2>1, <3>2 DEF Moved
    <2>4. CASE call = r /\ call' = q /\ late' = late
      <3>1. q \in InService'
        BY <2>2, <2>4 DEF InService
      <3>2. \A s \in InService' : s = q \/ s \in late
        BY <1>2, <2>4
      <3> QED BY <1>2, <1>4, <2>1, <2>3, <2>4, <3>1, <3>2
    <2>5. CASE r \in late /\ late' = (late \ {r}) \cup {q} /\ call' = call
      <3>1. q \in InService'
        BY <2>5 DEF InService
      <3>2. \A s \in InService' : s = q \/ s \in InService
        BY <2>5 DEF InService
      <3>3. \A s \in InService' : s = r => r = call
        BY <1>2, <2>3, <2>5
      <3> QED BY <1>4, <2>1, <2>3, <2>5, <3>1, <3>2, <3>3
    <2> QED BY <2>1, <2>4, <2>5 DEF Becomes
  <1> QED BY <1>3, <1>4

\* Until the wipe, a conversation changes by a reply to it, or by the claim of a tick on it
\* while nothing is told of it; and what was told of it stays.
LEMMA EngineGrows ==
    ASSUME TypeInv, PlayInv, NEW r \in InService, ServeOne(r), r.do # "teardown"
    PROVE  /\ optedOut \subseteq optedOut'
           /\ \A g \in Triggers :
                 /\ told[g] # <<>> =>
                       /\ told'[g] # <<>> /\ convs[g] # Nothing /\ convs'[g] # Nothing
                       /\ convs[g].sent \subseteq convs'[g].sent
                 /\ convs'[g] # convs[g] \/ told'[g] # told[g] =>
                       \/ r.do = "reply" /\ ServeReply(r) /\ g = r.conv
                       \/ /\ Moves(r) /\ r.do = "tick" /\ r.rest # <<>> /\ g = Head(r.rest)
                          /\ told[g] = <<>>
                          /\ r.step = "compose" \/ (r.step = "claim" /\ convs[g] = Nothing)
  <1>1. /\ convs \in [Triggers -> Conversation \cup {Nothing}] /\ r \in Request
        /\ told \in [Triggers -> Seq(ReplyKind \cup {Opening})]
    BY InServiceType DEF TypeInv, EngineType
  <1>2. \A g \in Triggers : told[g] # <<>> => convs[g] # Nothing
    BY DEF PlayInv, ToldInv
  <1>3. CASE convs' = convs /\ told' = told /\ optedOut' = optedOut
    BY <1>2, <1>3
  <1>4. CASE Moves(r)
    <2> DEFINE h == Head(r.rest)
    <2>1. optedOut' = optedOut /\ h \in Triggers
      BY <1>4, MoveEffect
    <2>2. PICK q : Moved(r, q)
      BY <1>4, MoveEffect
    <2>3. r.do = "tick" /\ r.rest # <<>>
      BY <2>2 DEF Moved
    <2>4. \/ convs' = convs /\ told' = told
          \/ /\ r.step = "claim" /\ convs[h] = Nothing
             /\ convs' = [convs EXCEPT ![h] = Fresh] /\ told' = told
          \/ /\ r.step = "compose" /\ convs' = convs
             /\ told' = [told EXCEPT ![h] = Append(@, Opening)]
          \/ /\ r.step = "compose" /\ told' = told
             /\ convs' = [convs EXCEPT ![h] = Nothing]
      BY <2>2 DEF Moved
    <2>5. r.step = "compose" => told[h] = <<>>
      BY <2>3 DEF PlayInv, HoldInv, AtStep
    <2>6. convs[h] = Nothing => told[h] = <<>>
      BY <1>2, <2>1
    <2> HIDE DEF h
    <2>7. \A g \in Triggers : convs'[g] # convs[g] \/ told'[g] # told[g] =>
              /\ g = h /\ told[g] = <<>>
              /\ r.step = "compose" \/ (r.step = "claim" /\ convs[g] = Nothing)
      BY <1>1, <2>1, <2>4, <2>5, <2>6
    <2>8. \A g \in Triggers : told[g] # <<>> => told'[g] = told[g] /\ convs'[g] = convs[g]
      BY <2>7
    <2> QED BY <1>2, <1>4, <2>1, <2>3, <2>7, <2>8 DEF h
  <1>5. CASE ServeReply(r)
    <2>1. r.do = "reply" /\ r.conv \in Triggers
      BY <1>1, <1>5, RequestFields DEF ServeReply
    <2>2. optedOut \subseteq optedOut'
      BY <1>5, ReplyEffect
    <2>3. PICK d \in Conversation \cup {Nothing}, a \in ReplyAnswer :
             /\ convs' = [convs EXCEPT ![r.conv] = d]
             /\ Said(r, a)
             /\ LET c == convs[r.conv] IN
                IF c = Nothing \/ c.status = "ended"
                THEN d = c /\ a.action = "end"
                ELSE d # Nothing /\ Turned(r, c, d, a)
      BY <1>5, ReplyEffect
    <2>4. convs[r.conv] # Nothing => d # Nothing /\ convs[r.conv].sent \subseteq d.sent
      BY <2>3 DEF Turned
    <2>5. \A g \in Triggers : convs'[g] = IF g = r.conv THEN d ELSE convs[g]
      BY <1>1, <2>3
    <2>6. \A g \in Triggers :
              told'[g] = told[g] \/ (g = r.conv /\ told'[g] = Append(told[g], a.body))
      BY <1>1, <2>1, <2>3 DEF Said
    <2>7. a.action = "send" => a.body \in ReplyKind
      BY DEF ReplyAnswer
    <2>8. told'[r.conv] = told[r.conv] \/ told'[r.conv] # <<>>
      <3>1. CASE a.action = "send"
        <4>1. told[r.conv] \in Seq(ReplyKind \cup {Opening})
          BY <1>1, <2>1
        <4>2. Append(told[r.conv], a.body) # <<>>
          BY <2>7, <3>1, <4>1, AppendProperties, EmptySeq
        <4> QED BY <2>1, <2>6, <4>2
      <3>2. CASE a.action # "send"
        BY <2>1, <2>3, <3>2 DEF Said
      <3> QED BY <3>1, <3>2
    <2>9. \A g \in Triggers : told[g] # <<>> =>
              /\ told'[g] # <<>> /\ convs'[g] # Nothing /\ convs[g].sent \subseteq convs'[g].sent
      BY <1>2, <2>4, <2>5, <2>6, <2>8
    <2> QED BY <1>2, <1>5, <2>1, <2>2, <2>5, <2>6, <2>9
  <1>6. ~ServeTeardown(r)
    BY DEF ServeTeardown
  <1> QED BY <1>3, <1>4, <1>5, <1>6, OthersKeep

\* A reply in service is about a conversation that the client knows, and that of a late one
\* is not the one that is played.
LEMMA ReplyKnown ==
    ASSUME TypeInv, PlaceInv, PlayInv, NEW r \in InService, r.do = "reply"
    PROVE  /\ r.conv \in logged
           /\ Playing /\ r.conv = Head(chats).conv => r = call
           /\ r = call => Playing /\ call # Nothing /\ call.do = "reply"
                 /\ r.conv = Head(chats).conv /\ r.message = Head(chats).message
  <1>1. /\ r \in late \/ (call # Nothing /\ r = call)
        /\ r = call => call # Nothing /\ Asked = r
    BY InServiceType
  <1>3. r = call => Playing /\ r.conv = Head(chats).conv /\ r.message = Head(chats).message
    <2>1. SUFFICES ASSUME r = call
                   PROVE  Playing /\ r.conv = Head(chats).conv /\ r.message = Head(chats).message
      OBVIOUS
    <2>2. Asked = r /\ InLoop
      BY <1>1, <2>1 DEF InLoop
    <2> QED BY <2>2 DEF PlaceInv, ReplyOf
  <1>4. r \in late => r.conv \in logged /\ (Playing => r.conv # Head(chats).conv)
    BY DEF PlayInv, LateInv
  <1>5. r = call => r.conv \in logged
    BY <1>3 DEF PlayInv, LoopInv
  <1> QED BY <1>1, <1>3, <1>4, <1>5

\* Ready for turn three or four, after the step.
ReadyNext(turn, g, message) ==
    /\ turn \in {3, 4}
    /\ convs'[g].last = message
    /\ turn = 4 => convs'[g].hits > 0

\* One turn of the loop leaves the conversation ready for the next.
LEMMA TurnReady ==
    ASSUME TypeInv, PlaceInv, PlayInv, NEW r \in InService, r = call, ServeReply(r), r \notin late
    PROVE  LET c == Head(chats) IN
           /\ call' # Nothing /\ call'.do = "answered"
           /\ c.turn <= 4
           /\ call'.with.action # "end" =>
                 c.message \notin HostileMarked /\ ReadyNext(c.turn + 1, c.conv, c.message)
           /\ call'.with.action = "send" => call'.with.body \in convs'[c.conv].sent \ heard[c.conv]
           /\ c.message \in HostileMarked => MerchantOf[c.conv] \in optedOut'
  <1> DEFINE g == r.conv
             m == r.message
             turn == Head(chats).turn
  <1>1. /\ r \in Request /\ r.do = "reply" /\ g \in Triggers /\ m \in Messages /\ m \in Personas
        /\ g \in logged /\ Playing
        /\ g = Head(chats).conv /\ m = Head(chats).message /\ call # Nothing /\ call.do = "reply"
    BY InServiceType, RequestFields, RehearsalAssumption, ReplyKnown DEF ServeReply
  <1>2. convs \in [Triggers -> Conversation \cup {Nothing}] /\ convs[g] # Nothing
    BY <1>1 DEF TypeInv, EngineType, PlayInv, HeardInv, ToldInv
  <1>3. convs[g] \in Conversation
    BY <1>1, <1>2
  <1>4. /\ convs[g].last \in Messages \cup {NoMessage} /\ convs[g].hits \in Nat
    BY <1>3 DEF Conversation
  <1>5. Ready(turn, g, m)
    BY <1>1 DEF PlayInv, LoopInv
  <1>6. PICK d \in Conversation \cup {Nothing}, a \in ReplyAnswer :
             /\ convs' = [convs EXCEPT ![g] = d]
             /\ Answer(r, a)
             /\ IF convs[g] = Nothing \/ convs[g].status = "ended"
                THEN d = convs[g] /\ a.action = "end"
                ELSE d # Nothing /\ Turned(r, convs[g], d, a)
    BY ReplyEffect
  <1>7. convs'[g] = d /\ optedOut \subseteq optedOut'
    BY <1>1, <1>2, <1>6, ReplyEffect
  <1>8. call' = [do |-> "answered", to |-> r, with |-> a]
    BY <1>6 DEF Answer, Respond
  <1>9. call' # Nothing /\ call'.do = "answered" /\ call'.with = a
    <2>1. IsResponse(call')
      BY <1>1, <1>8 DEF IsResponse, Returned
    <2> QED BY <1>8, <2>1, NothingApart
  <1>10. turn \in {2, 3, 4}
    BY <1>5 DEF Ready
  <1> DEFINE said == DecideReply(m, convs[g].last, convs[g].hits)
  <1>11. /\ said.action \in {"send", "wait", "end"}
         /\ said.action = "wait" => convs[g].hits = 0
         /\ m = convs[g].last => said.action # "send"
         /\ m = convs[g].last /\ convs[g].hits > 0 => said.action = "end"
         /\ m \in HostileMarked \ AutoMarked /\ m # convs[g].last =>
               said.action = "end" /\ said.kind = "hostile_optout"
    BY <1>1, <1>4, PolicyFacts
  <1>12. Turned(r, convs[g], d, a) =>
             /\ convs[g].sent \subseteq d.sent /\ d.last = m
             /\ a.action \in {said.action, "end"}
             /\ a.action = "end" => d.status = "ended"
             /\ a.action = "wait" => d.hits > 0
             /\ a.action = "send" => a.body \in d.sent \ convs[g].sent
             /\ said.action = "end" /\ said.kind = "hostile_optout" => MerchantOf[g] \in optedOut'
    BY DEF Turned
  <1> HIDE DEF said
  <1>13. m \in HostileMarked => turn = 2 /\ m \notin AutoMarked
    BY <1>1, <1>5, RehearsalAssumption DEF Ready
  <1>14. turn = 2 => convs[g].last = NoMessage /\ convs[g].status = "active"
    BY <1>5 DEF Ready, Fresh
  <1>15. NoMessage # m
    BY <1>1, MessageAssumption
  <1>16. m \in HostileMarked => MerchantOf[g] \in optedOut'
    BY <1>2, <1>6, <1>11, <1>12, <1>13, <1>14, <1>15
  <1>17. a.action # "end" =>
             m \notin HostileMarked /\ Turned(r, convs[g], d, a) /\ convs[g].status # "ended"
    BY <1>2, <1>6, <1>11, <1>12, <1>13, <1>14, <1>15
  <1>18. a.action # "end" => ReadyNext(turn + 1, g, m)
    <2>1. SUFFICES ASSUME a.action # "end"
                   PROVE  /\ turn + 1 \in {3, 4}
                          /\ d.last = m /\ (turn + 1 = 4 => d.hits > 0)
      BY <1>7 DEF ReadyNext
    <2>2. /\ Turned(r, convs[g], d, a) /\ convs[g].status # "ended" /\ a.action = said.action
          /\ d.last = m
      BY <1>12, <1>17, <2>1
    <2>3. turn = 2 => turn + 1 = 3
      OBVIOUS
    <2>4. turn = 3 => turn + 1 = 4 /\ d.hits > 0
      <3>1. turn = 3 => convs[g].last = m
        BY <1>5, <2>2 DEF Ready
      <3>2. turn = 3 => said.action = "wait"
        BY <1>11, <2>1, <2>2, <3>1
      <3> QED BY <1>12, <2>2, <3>2
    <2>5. turn # 4
      <3>1. turn = 4 => convs[g].last = m /\ convs[g].hits > 0
        BY <1>5, <2>2 DEF Ready
      <3> QED BY <1>11, <2>1, <2>2, <3>1
    <2> QED BY <1>10, <2>2, <2>3, <2>4, <2>5
  <1>19. a.action = "send" => a.body \in convs'[g].sent \ heard[g]
    <2>1. SUFFICES ASSUME a.action = "send" PROVE a.body \in d.sent \ heard[g]
      BY <1>7
    <2>2. a.body \in d.sent \ convs[g].sent
      BY <1>12, <1>17, <2>1
    <2>3. heard[g] \ {Opening} \subseteq convs[g].sent
      BY <1>1 DEF PlayInv, HeardInv
    <2>4. a.body \in ReplyKind
      BY <2>1 DEF ReplyAnswer
    <2>5. Opening \notin ReplyKind
      BY DEF Opening, ReplyKind
    <2> QED BY <2>2, <2>3, <2>4, <2>5
  <1>20. turn <= 4
    BY <1>10
  <1> QED BY <1>1, <1>9, <1>16, <1>17, <1>18, <1>19, <1>20

\* A claim that is being composed for is nobody else's, whatever is served.
LEMMA HoldServed ==
    ASSUME TypeInv, PlaceInv, PlayInv, NEW r \in InService, ServeOne(r), r.do # "teardown"
    PROVE  HoldInv'
  <1> DEFINE Composing(s) == AtStep(s, "compose")
             Of(s) == Head(s.rest)
  <1>1. ASSUME NEW s \in InService, Composing(s)
        PROVE  /\ Of(s) \in Triggers /\ convs[Of(s)] = Fresh /\ told[Of(s)] = <<>>
               /\ ~(s = call /\ s \in late)
               /\ \A t \in InService : Composing(t) /\ Of(t) = Of(s) => t = s
    <2>1. s.rest \in Seq(Triggers) /\ s.rest # <<>>
      BY <1>1, InServiceType, RequestFields DEF AtStep
    <2>2. Of(s) \in Triggers
      BY <2>1, HeadTailProperties
    <2> QED BY <1>1, <2>2 DEF PlayInv, HoldInv
  <1>2. ASSUME NEW s \in InService, Composing(s), s # r
        PROVE  convs'[Of(s)] = Fresh /\ told'[Of(s)] = <<>>
    <2>1. /\ Of(s) \in Triggers /\ convs[Of(s)] = Fresh /\ told[Of(s)] = <<>> /\ Fresh # Nothing
          /\ \A t \in InService : Composing(t) /\ Of(t) = Of(s) => t = s
      BY <1>1, <1>2, FreshType
    <2>2. ~(r.do = "reply" /\ Of(s) = r.conv)
      <3>1. r.do = "reply" => told[r.conv] # <<>>
        BY ReplyKnown DEF PlayInv, HeardInv
      <3> QED BY <2>1, <3>1
    <2>3. ~(r.do = "tick" /\ r.rest # <<>> /\ Of(s) = Head(r.rest) /\ r.step = "compose")
      BY <1>2, <2>1 DEF AtStep
    <2>4. convs'[Of(s)] = convs[Of(s)] /\ told'[Of(s)] = told[Of(s)]
      <3>1. convs'[Of(s)] # convs[Of(s)] \/ told'[Of(s)] # told[Of(s)] =>
                \/ r.do = "reply" /\ Of(s) = r.conv
                \/ /\ r.do = "tick" /\ r.rest # <<>> /\ Of(s) = Head(r.rest)
                   /\ r.step = "compose" \/ convs[Of(s)] = Nothing
        BY <2>1, EngineGrows
      <3> QED BY <2>1, <2>2, <2>3, <3>1
    <2> QED BY <2>1, <2>4
  <1>3. SUFFICES ASSUME NEW s \in InService', Composing(s)
                 PROVE  /\ convs'[Of(s)] = Fresh /\ told'[Of(s)] = <<>>
                        /\ ~(s = call' /\ s \in late')
                        /\ \A t \in InService' : Composing(t) /\ Of(t) = Of(s) => t = s
    BY DEF HoldInv, AtStep
  <1>4. CASE ~Moves(r)
    <2>1. /\ \A t \in InService' : t \in InService /\ (t = r => r = call /\ r \in late)
          /\ \A t : t \in late' => t \in late
          /\ call' = call \/ call' \notin InService'
      BY <1>4, StillInService
    <2>2. s \in InService /\ s # r
      BY <1>1, <1>3, <2>1
    <2>3. \A t \in InService' : Composing(t) /\ Of(t) = Of(s) => t = s
      <3> HIDE DEF Composing, Of
      <3> QED BY <1>1, <1>3, <2>1, <2>2
    <2> QED BY <1>1, <1>2, <1>3, <2>1, <2>2, <2>3
  <1>5. CASE Moves(r)
    <2>1. PICK q \in Request :
             /\ Moved(r, q) /\ q # r /\ q \in InService'
             /\ \A t \in InService' : t = q \/ t \in InService
             /\ \A t \in InService' : t = r => r = call /\ r \in late
             /\ \A t : t \in late' => t \in late \/ t = q
             /\ call' = call \/ (call' = q /\ late' = late)
      BY <1>5, StillInService
    <2>2. Composing(q) =>
              /\ Of(q) = Head(r.rest) /\ convs[Of(q)] = Nothing
              /\ convs'[Of(q)] = Fresh /\ told'[Of(q)] = <<>>
      <3>1. SUFFICES ASSUME Composing(q)
                     PROVE  /\ Of(q) = Head(r.rest) /\ convs[Of(q)] = Nothing
                            /\ convs'[Of(q)] = Fresh /\ told'[Of(q)] = <<>>
        OBVIOUS
      <3>2. /\ q.rest = r.rest /\ convs[Head(r.rest)] = Nothing /\ told' = told
            /\ convs' = [convs EXCEPT ![Head(r.rest)] = Fresh]
        BY <2>1, <3>1 DEF Moved, AtStep
      <3>3. Head(r.rest) \in Triggers
        BY <1>5, MoveEffect
      <3>4. told[Head(r.rest)] = <<>>
        BY <3>2, <3>3 DEF PlayInv, ToldInv
      <3>5. convs'[Head(r.rest)] = Fresh
        BY <3>2, <3>3 DEF TypeInv, EngineType
      <3> QED BY <3>2, <3>4, <3>5
    <2>3. Fresh # Nothing /\ q # Nothing /\ q.do \notin {"answered", "failed"}
      BY FreshType, NothingApart, RequestFields
    <2>4. \A t \in InService' : Composing(t) /\ t # q => t \in InService /\ t # r
      BY <1>1, <2>1
    <2>5. CASE s = q
      <3>1. q \notin InService
        BY <1>1, <1>3, <2>2, <2>3, <2>5
      <3>2. q \notin late /\ q # call
        BY <2>3, <3>1 DEF InService
      <3>3. \A t \in InService' : Composing(t) /\ Of(t) = Of(s) => t = s
        <4>1. SUFFICES ASSUME NEW t \in InService', Composing(t), Of(t) = Of(q), t # q PROVE FALSE
          BY <2>5
        <4>2. t \in InService
          BY <2>4, <4>1
        <4>3. convs[Of(t)] = Fresh
          BY <1>1, <4>1, <4>2
        <4> QED BY <1>3, <2>2, <2>3, <2>5, <4>1, <4>3
      <3> QED BY <1>3, <2>1, <2>2, <2>5, <3>2, <3>3
    <2>6. CASE s # q
      <3>1. s \in InService /\ s # r
        BY <1>3, <2>4, <2>6
      <3>2. ~(s = call' /\ s \in late')
        BY <1>1, <1>3, <2>1, <2>6, <3>1
      <3>3. \A t \in InService' : Composing(t) /\ Of(t) = Of(s) => t = s
        <4>1. SUFFICES ASSUME NEW t \in InService', Composing(t), Of(t) = Of(s) PROVE t = s
          OBVIOUS
        <4>2. CASE t = q
          BY <1>1, <1>3, <2>2, <2>3, <3>1, <4>1, <4>2
        <4>3. CASE t # q
          BY <1>1, <1>3, <2>4, <3>1, <4>1, <4>3
        <4> QED BY <4>2, <4>3
      <3> QED BY <1>2, <1>3, <3>1, <3>2, <3>3
    <2> QED BY <2>5, <2>6
  <1> QED BY <1>4, <1>5

\* What is given out in a conversation was not given out before.
LEMMA ToldServed ==
    ASSUME TypeInv, PlaceInv, PlayInv, NEW r \in InService, ServeOne(r), r.do # "teardown"
    PROVE  ToldInv'
  <1>1. /\ convs \in [Triggers -> Conversation \cup {Nothing}] /\ r \in Request
        /\ told \in [Triggers -> Seq(ReplyKind \cup {Opening})]
    BY InServiceType DEF TypeInv, EngineType
  <1>2. SUFFICES ASSUME NEW g \in Triggers, told'[g] # <<>>
                 PROVE  /\ convs'[g] # Nothing
                        /\ told'[g][1] = Opening
                        /\ Apart(told'[g])
                        /\ \A i \in DOMAIN told'[g] : i > 1 => told'[g][i] \in convs'[g].sent
    BY DEF ToldInv, Apart
  <1>3. CASE convs'[g] = convs[g] /\ told'[g] = told[g]
    BY <1>2, <1>3 DEF PlayInv, ToldInv
  <1>4. CASE ServeReply(r) /\ r.do = "reply" /\ g = r.conv
    <2>1. told[g] # <<>>
      BY <1>4, ReplyKnown DEF PlayInv, HeardInv
    <2>2. /\ convs[g] # Nothing /\ told[g][1] = Opening /\ Apart(told[g])
          /\ \A i \in DOMAIN told[g] : i > 1 => told[g][i] \in convs[g].sent
      BY <2>1 DEF PlayInv, ToldInv
    <2>3. convs'[g] # Nothing /\ convs[g].sent \subseteq convs'[g].sent
      BY <1>4, <2>1, EngineGrows
    <2>4. PICK d \in Conversation \cup {Nothing}, a \in ReplyAnswer :
             /\ convs' = [convs EXCEPT ![r.conv] = d]
             /\ Said(r, a)
             /\ LET c == convs[r.conv] IN
                IF c = Nothing \/ c.status = "ended"
                THEN d = c /\ a.action = "end"
                ELSE d # Nothing /\ Turned(r, c, d, a)
      BY <1>4, ReplyEffect
    <2>5. CASE a.action # "send"
      <3>1. told' = told
        BY <2>4, <2>5 DEF Said
      <3> QED BY <2>2, <2>3, <3>1
    <2>6. CASE a.action = "send"
      <3> DEFINE old == told[g]
                 new == told'[g]
                 n == Len(old)
      <3>1. new = Append(old, a.body)
        BY <1>1, <1>4, <2>4, <2>6 DEF Said
      <3>2. old \in Seq(ReplyKind \cup {Opening}) /\ a.body \in ReplyKind
        BY <1>1, <2>6 DEF ReplyAnswer
      <3>3. n \in Nat /\ DOMAIN old = 1 .. n /\ 1 \in 1 .. n
        BY <2>1, <3>2, LenProperties, EmptySeq
      <3>4. /\ DOMAIN new = 1 .. n + 1 /\ new[n + 1] = a.body
            /\ \A i \in 1 .. n : new[i] = old[i]
        BY <3>1, <3>2, AppendProperties, LenProperties
      <3>5. a.body \in convs'[g].sent /\ a.body \notin convs[g].sent
        <4>1. Turned(r, convs[g], d, a) /\ convs'[g] = d
          BY <1>1, <1>4, <2>4, <2>6
        <4> QED BY <2>6, <4>1 DEF Turned
      <3>6. \A i \in 1 .. n : old[i] # a.body
        <4>1. Opening \notin ReplyKind
          BY DEF Opening, ReplyKind
        <4> HIDE DEF old, n
        <4> QED BY <2>2, <3>2, <3>3, <3>5, <4>1 DEF old
      <3>7. new[1] = Opening
        BY <2>2, <3>3, <3>4
      <3>8. \A i \in DOMAIN new : i \in 1 .. n \/ i = n + 1
        BY <3>3, <3>4
      <3>9. Apart(new)
        <4>1. SUFFICES ASSUME NEW i \in DOMAIN new, NEW j \in DOMAIN new, new[i] = new[j]
                       PROVE  i = j
          BY DEF Apart
        <4>2. Apart(old) /\ DOMAIN old = 1 .. n
          BY <2>2, <3>3
        <4> HIDE DEF old, new, n
        <4>3. CASE i \in 1 .. n /\ j \in 1 .. n
          BY <3>4, <4>1, <4>2, <4>3 DEF Apart
        <4>4. CASE i = n + 1 \/ j = n + 1
          BY <3>4, <3>6, <3>8, <4>1, <4>4
        <4> QED BY <3>8, <4>3, <4>4
      <3>10. \A i \in DOMAIN new : i > 1 => new[i] \in convs'[g].sent
        <4>1. SUFFICES ASSUME NEW i \in DOMAIN new, i > 1 PROVE new[i] \in convs'[g].sent
          OBVIOUS
        <4>2. CASE i \in 1 .. n
          BY <2>2, <2>3, <3>3, <3>4, <4>1, <4>2
        <4>3. CASE i = n + 1
          BY <3>4, <3>5, <4>3
        <4> QED BY <3>8, <4>2, <4>3
      <3> QED BY <2>3, <3>7, <3>9, <3>10
    <2> QED BY <2>5, <2>6
  <1>5. CASE Moves(r) /\ g = Head(r.rest) /\ told[g] = <<>>
    <2>1. PICK q : Moved(r, q)
      BY <1>5, MoveEffect
    <2>2. /\ r.do = "tick" /\ r.rest # <<>> /\ r.step = "compose" /\ convs' = convs
          /\ told' = [told EXCEPT ![g] = Append(@, Opening)]
      BY <1>2, <1>5, <2>1 DEF Moved
    <2>3. told'[g] = <<Opening>>
      BY <1>1, <1>5, <2>2
    <2>4. convs[g] = Fresh
      BY <1>5, <2>2 DEF PlayInv, HoldInv, AtStep
    <2>5. Apart(told'[g]) /\ told'[g][1] = Opening
      BY <2>3 DEF Apart
    <2>6. \A i \in DOMAIN told'[g] : ~(i > 1)
      BY <2>3
    <2>7. convs'[g] # Nothing
      BY <2>2, <2>4, FreshType
    <2> QED BY <2>5, <2>6, <2>7
  <1> QED BY <1>3, <1>4, <1>5, EngineGrows

\* A merchant that had stopped when the tick was sent is not claimed for.
LEMMA StopServed ==
    ASSUME TypeInv, PlaceInv, PlayInv, NEW r \in InService, ServeOne(r), r.do # "teardown",
           stopped' = stopped
    PROVE  StopInv'
  <1>1. stopped' \subseteq optedOut'
    <2>1. optedOut \subseteq optedOut'
      BY EngineGrows
    <2> QED BY <2>1 DEF PlayInv, StopInv
  <1>2. \A s \in InService : s.do = "tick" => Minds(s)
    BY DEF PlayInv, StopInv
  <1>3. ASSUME NEW s \in InService', s.do = "tick"
        PROVE  Minds(s)
    <2>1. CASE s \in InService
      BY <1>2, <1>3, <2>1
    <2>2. CASE \E q \in Request : Moves(r) /\ Moved(r, q) /\ s = q
      <3>1. Moved(r, s) /\ s \in Request
        BY <2>2
      <3>2. /\ r.do = "tick" /\ r.rest # <<>> /\ s.stops = r.stops /\ r.stops \subseteq stopped
            /\ Minds(r)
        BY <1>2, <3>1 DEF Moved, Minds
      <3>3. AtStep(s, "claim") \/ AtStep(s, "compose") => MerchantOf[Head(s.rest)] \notin s.stops
        <4>1. SUFFICES ASSUME s.step \in {"claim", "compose"}
                       PROVE  MerchantOf[Head(s.rest)] \notin s.stops
          BY DEF AtStep
        <4>2. s.rest = r.rest
          BY <3>1, <4>1 DEF Moved
        <4>3. CASE Actable(Head(r.rest), r.now)
          <5>1. stopped \subseteq optedOut
            BY DEF PlayInv, StopInv
          <5> QED BY <3>2, <4>2, <4>3, <5>1 DEF Actable
        <4>4. CASE r.step = "claim"
          BY <3>2, <4>2, <4>4 DEF Minds, AtStep
        <4> QED BY <3>1, <4>1, <4>3, <4>4 DEF Moved
      <3>4. \A g \in Elements(s.actions) : MerchantOf[g] \notin s.stops
        <4>1. CASE s.actions = r.actions
          BY <3>2, <4>1 DEF Minds
        <4>2. CASE r.step = "compose" /\ s.actions = Append(r.actions, Head(r.rest))
          <5>1. /\ r.actions \in Seq(Triggers) /\ r.rest \in Seq(Triggers)
            BY <3>2, InServiceType, RequestFields
          <5>2. Elements(s.actions) \subseteq Elements(r.actions) \cup {Head(r.rest)}
            <6> DEFINE h == Head(r.rest)
                       n == Len(r.actions)
            <6>1. /\ n \in Nat /\ DOMAIN r.actions = 1 .. n
                  /\ DOMAIN s.actions = 1 .. n + 1 /\ s.actions[n + 1] = h
                  /\ \A i \in 1 .. n : s.actions[i] = r.actions[i]
              <7>1. h \in Triggers
                BY <3>2, <5>1, HeadTailProperties
              <7> QED BY <4>2, <5>1, <7>1, AppendProperties, LenProperties
            <6> HIDE DEF h, n
            <6>2. \A i \in 1 .. n + 1 : i \in 1 .. n \/ i = n + 1
              BY <6>1
            <6> QED BY <6>1, <6>2 DEF Elements, h
          <5> QED BY <3>2, <4>2, <5>2 DEF Minds, AtStep
        <4> QED BY <3>1, <4>1, <4>2 DEF Moved
      <3> QED BY <3>2, <3>3, <3>4 DEF Minds
    <2> QED BY <1>3, <2>1, <2>2, StillInService
  <1>4. \A s : Minds(s) => Minds(s)'
    BY DEF Minds, AtStep
  <1> QED BY <1>1, <1>3, <1>4 DEF StopInv

LEMMA PlayServed ==
    ASSUME TypeInv, PlaceInv, PlayInv, Unwiped, Serve
    PROVE  PlayInv'
  <1>1. PICK r \in InService : ServeOne(r)
    BY ServeIsOne
  <1>2. r.do # "teardown"
    BY NoTeardown
  <1>3. /\ at' = at /\ chats' = chats /\ logged' = logged /\ heard' = heard /\ stopped' = stopped
        /\ Playing' <=> Playing
    BY DEF Serve, clientVars, Playing
  <1>4. /\ call' = Nothing <=> call = Nothing
        /\ call # Nothing => Asked' = Asked \/ Moved(Asked, Asked')
        /\ call # Nothing /\ Done => call' = call
        /\ InLoop' <=> InLoop
        /\ \A q \in late' : q \in late \/ q.do = "tick"
    BY <1>1, ServeAsked
  <1>5. /\ optedOut \subseteq optedOut'
        /\ \A g \in Triggers :
              /\ told[g] # <<>> =>
                    /\ told'[g] # <<>> /\ convs[g] # Nothing /\ convs'[g] # Nothing
                    /\ convs[g].sent \subseteq convs'[g].sent
              /\ convs'[g] # convs[g] /\ told[g] # <<>> => r.do = "reply" /\ g = r.conv
    BY <1>1, <1>2, EngineGrows
  <1>6. logged \subseteq Triggers
    BY DEF TypeInv, ClientType
  <1> DEFINE StillUnheard(g) == g \notin logged /\ convs'[g] = Fresh /\ told'[g] # <<>>
  <1>7. \A g \in Triggers : Unheard(g) => StillUnheard(g)
    <2>1. SUFFICES ASSUME NEW g \in Triggers, g \notin logged, convs[g] = Fresh, told[g] # <<>>
                   PROVE  convs'[g] = Fresh /\ told'[g] # <<>>
      BY DEF Unheard
    <2>3. r.do = "reply" => r.conv # g
      BY <2>1, ReplyKnown
    <2> QED BY <1>5, <2>1, <2>3
  <1>8. ChatsInv'
    <2>1. \A i \in DOMAIN chats : chats[i].conv \in Triggers
      BY ChatsFacts
    <2>2. \A i \in DOMAIN chats : StillUnheard(chats[i].conv) => Unheard(chats[i].conv)'
      BY <1>3 DEF Unheard
    <2> QED BY <1>3, <1>7, <2>1, <2>2 DEF PlayInv, ChatsInv
  <1>9. TickInv'
    <2>1. SUFFICES ASSUME call' # Nothing, Asked'.do = "tick"
                   PROVE  /\ Apart(Asked'.actions)
                          /\ \A i \in DOMAIN Asked'.actions : StillUnheard(Asked'.actions[i])
      BY <1>3 DEF TickInv, Apart, Unheard
    <2>2. call # Nothing /\ Asked.do = "tick"
      BY <1>4, <2>1 DEF Moved
    <2>3. /\ Apart(Asked.actions) /\ \A i \in DOMAIN Asked.actions : Unheard(Asked.actions[i])
      BY <2>2 DEF PlayInv, TickInv
    <2>4. /\ Asked.actions \in Seq(Triggers) /\ Asked.rest \in Seq(Triggers)
      BY <2>2, AskedType, RequestFields
    <2>5. /\ DOMAIN Asked.actions = 1 .. Len(Asked.actions) /\ Len(Asked.actions) \in Nat
          /\ \A i \in DOMAIN Asked.actions : Asked.actions[i] \in Triggers
      BY <2>4, LenProperties, ElementOfSeq
    <2>6. CASE Asked'.actions = Asked.actions
      BY <1>7, <2>3, <2>5, <2>6
    <2>7. CASE Moved(Asked, Asked') /\ Asked'.actions # Asked.actions
      <3> DEFINE g == Head(Asked.rest)
                 old == Asked.actions
                 new == Asked'.actions
      <3>1. /\ Asked.do = "tick" /\ Asked.step = "compose" /\ Asked.rest # <<>>
            /\ new = Append(old, g) /\ convs' = convs
            /\ told' = [told EXCEPT ![g] = Append(@, Opening)]
        BY <2>7 DEF Moved
      <3>2. g \in Triggers
        BY <2>4, <3>1, HeadTailProperties
      <3>3. convs[g] = Fresh /\ told[g] = <<>>
        <4>1. ~Done
          BY <1>4, <2>2, <2>7 DEF Asked, Done
        <4>2. Asked \in InService
          BY <2>2, <4>1 DEF Asked, Done, InService
        <4> QED BY <3>1, <4>2 DEF PlayInv, HoldInv, AtStep
      <3>4. g \notin logged
        BY <3>3 DEF PlayInv, HeardInv
      <3>12. told'[g] # <<>>
        <4>1. told'[g] = <<Opening>>
          BY <3>1, <3>2, <3>3 DEF TypeInv, EngineType
        <4> QED BY <4>1
      <3>5. StillUnheard(g)
        BY <3>1, <3>3, <3>4, <3>12
      <3>6. /\ DOMAIN new = 1 .. Len(old) + 1
            /\ \A i \in 1 .. Len(old) : new[i] = old[i]
            /\ new[Len(old) + 1] = g
        BY <2>4, <3>1, <3>2, AppendProperties, LenProperties
      <3>7. \A i \in 1 .. Len(old) : old[i] # g
        BY <2>3, <2>5, <3>3 DEF Unheard
      <3>8. \A i \in 1 .. Len(old) : StillUnheard(new[i])
        BY <1>7, <2>3, <2>5, <3>6
      <3>9. \A i \in DOMAIN new : i \in 1 .. Len(old) \/ i = Len(old) + 1
        BY <2>5, <3>6
      <3>10. Apart(new)
        <4>1. SUFFICES ASSUME NEW i \in DOMAIN new, NEW j \in DOMAIN new, new[i] = new[j]
                       PROVE  i = j
          BY DEF Apart
        <4>2. Apart(old) /\ DOMAIN old = 1 .. Len(old)
          BY <2>3, <2>5
        <4> HIDE DEF old, new, g
        <4>3. CASE i \in 1 .. Len(old) /\ j \in 1 .. Len(old)
          BY <3>6, <4>1, <4>2, <4>3 DEF Apart
        <4>4. CASE i = Len(old) + 1 \/ j = Len(old) + 1
          BY <3>6, <3>7, <3>9, <4>1, <4>4
        <4> QED BY <3>9, <4>3, <4>4
      <3> QED BY <3>5, <3>6, <3>8, <3>9, <3>10
    <2> QED BY <1>4, <2>2, <2>6, <2>7
  <1>10. HeardInv'
    <2>1. \A g \in logged : told[g] # <<>> /\ heard[g] \ {Opening} \subseteq convs[g].sent
      BY DEF PlayInv, HeardInv
    <2>2. \A g \in logged : told'[g] # <<>> /\ heard[g] \ {Opening} \subseteq convs'[g].sent
      BY <1>5, <1>6, <2>1
    <2> QED BY <1>3, <2>2 DEF PlayInv, HeardInv
  <1>11. LateInv'
    BY <1>3, <1>4 DEF PlayInv, LateInv
  <1>12. LoopInv'
    <2>1. SUFFICES ASSUME Playing PROVE LoopInv'
      BY <1>3 DEF LoopInv
    <2> DEFINE c == Head(chats)
    <2>2. c.conv \in logged /\ c.conv \in Triggers /\ Head(chats') = c
      BY <1>3, <1>6, <2>1 DEF PlayInv, LoopInv
    <2>3. told[c.conv] # <<>>
      BY <2>2 DEF PlayInv, HeardInv
    <2>4. CASE r.do = "reply" /\ r.conv = c.conv
      <3>1. r = call /\ ServeReply(r) /\ r \notin late
        <4>1. r = call
          BY <2>1, <2>4, ReplyKnown
        <4>2. r \notin late
          BY <2>1, <2>4 DEF PlayInv, LateInv
        <4>3. ServeReply(r)
          BY <1>1, <2>4 DEF ServeOne, Moves, Raises, Test, TestRaises, Claim, Open, Unclaim, OpenRaises,
                              AtStep, ServePush, ServeTick, ServeTeardown, ServeHealth, HealthRaises,
                              ServeStateless
        <4> QED BY <4>1, <4>2, <4>3
      <3>2. /\ call' # Nothing /\ call'.do = "answered"
            /\ c.turn <= 4
            /\ call'.with.action # "end" =>
                  c.message \notin HostileMarked /\ ReadyNext(c.turn + 1, c.conv, c.message)
            /\ call'.with.action = "send" => call'.with.body \in convs'[c.conv].sent \ heard[c.conv]
            /\ c.message \in HostileMarked => MerchantOf[c.conv] \in optedOut'
        BY <3>1, TurnReady
      <3>3. ReadyNext(c.turn + 1, c.conv, c.message) /\ c.message \notin HostileMarked =>
                Ready(c.turn + 1, c.conv, c.message)'
        BY <1>3 DEF Ready, ReadyNext
      <3> QED BY <1>3, <2>2, <3>2, <3>3 DEF LoopInv
    <2>5. CASE ~(r.do = "reply" /\ r.conv = c.conv)
      <3>1. convs'[c.conv] = convs[c.conv]
        BY <1>5, <2>2, <2>3, <2>5
      <3>2. call' = call
        <4>1. r.do = "reply" => r # call
          BY <2>5, ReplyKnown
        <4>2. r.do # "reply" => r # call
          <5>1. SUFFICES ASSUME r.do # "reply", r = call PROVE FALSE
            OBVIOUS
          <5>2. call # Nothing /\ Asked = r
            BY <5>1, InServiceType
          <5>3. ~InLoop
            BY <5>1, <5>2 DEF InLoop
          <5> QED BY <2>1, <5>1, <5>2, <5>3, PlaceFacts
        <4> QED BY <1>1, <4>1, <4>2, OthersServed
      <3>3. \A turn : Ready(turn, c.conv, c.message) => Ready(turn, c.conv, c.message)'
        BY <1>3, <3>1 DEF Ready
      <3>4. LoopInv
        BY DEF PlayInv
      <3> QED BY <1>3, <1>5, <2>1, <2>2, <3>1, <3>2, <3>3, <3>4 DEF LoopInv
    <2> QED BY <2>4, <2>5
  <1>13. HoldInv' /\ ToldInv' /\ StopInv'
    BY <1>1, <1>2, <1>3, HoldServed, ToldServed, StopServed
  <1> QED BY <1>8, <1>9, <1>10, <1>11, <1>12, <1>13 DEF PlayInv

UnheardAfter(g) == g \notin logged' /\ convs'[g] = Fresh /\ told'[g] # <<>>

\* The conversations that wait their turn, after the first is left.
LEMMA PlayTail ==
    ASSUME TypeInv, PlayInv, chats # <<>>, chats' = Tail(chats), logged' = logged, convs' = convs,
           told' = told
    PROVE  ChatsInv' /\ ~Playing'
  <1>1. /\ DOMAIN chats' = 1 .. Len(chats') /\ Len(chats') = Len(chats) - 1 /\ ~Playing'
        /\ \A i \in 1 .. Len(chats') : chats'[i] = chats[i + 1] /\ i + 1 \in 2 .. Len(chats)
    BY ChatsTail
  <1>2. DOMAIN chats = 1 .. Len(chats) /\ Len(chats) \in Nat
    BY ChatsFacts
  <1>3. \A i \in 2 .. Len(chats) : i \in DOMAIN chats /\ i > 1
    BY <1>2
  <1>4. \A i, j \in DOMAIN chats' : chats'[i].conv = chats'[j].conv => i = j
    <2>1. SUFFICES ASSUME NEW i \in DOMAIN chats', NEW j \in DOMAIN chats',
                          chats'[i].conv = chats'[j].conv
                   PROVE  i = j
      OBVIOUS
    <2>2. /\ chats[i + 1].conv = chats[j + 1].conv
          /\ i + 1 \in DOMAIN chats /\ j + 1 \in DOMAIN chats
      BY <1>1, <1>3, <2>1
    <2>3. i + 1 = j + 1
      BY <2>2 DEF PlayInv, ChatsInv
    <2>4. i \in Nat /\ j \in Nat
      BY <1>1, <1>2
    <2> QED BY <2>3, <2>4
  <1>5. \A i \in DOMAIN chats' : Unheard(chats[i + 1].conv)
    BY <1>1, <1>3 DEF PlayInv, ChatsInv
  <1>6. \A i \in DOMAIN chats' : UnheardAfter(chats'[i].conv)
    BY <1>1, <1>5 DEF Unheard, UnheardAfter
  <1> QED BY <1>1, <1>4, <1>6 DEF ChatsInv, Unheard, UnheardAfter

\* A step of the client that leaves nothing open takes no claim and makes no tick forget.
LEMMA ServiceKeeps ==
    ASSUME TypeInv, PlayInv, call' = Nothing, UNCHANGED <<convs, optedOut, told>>,
           \A q \in late' : q \in InService, stopped \subseteq stopped', stopped' \subseteq optedOut
    PROVE  TickInv' /\ HoldInv' /\ ToldInv' /\ StopInv'
  <1>1. \A s \in InService' : s \in InService
    BY DEF InService
  <1>2. \A s \in InService : s # call'
    BY InServiceType
  <1>3. HoldInv'
    BY <1>1, <1>2 DEF PlayInv, HoldInv, AtStep
  <1>4. ToldInv'
    BY DEF PlayInv, ToldInv, Apart
  <1>5. StopInv'
    <2>1. \A s : Minds(s) => Minds(s)'
      BY DEF Minds, AtStep
    <2> QED BY <1>1, <2>1 DEF PlayInv, StopInv
  <1> QED BY <1>3, <1>4, <1>5 DEF TickInv

\* The steps of the client that leave what it has heard as it was.
LEMMA PlayIdle ==
    ASSUME TypeInv, PlayInv, call' = Nothing,
           UNCHANGED <<convs, optedOut, told, logged, heard, stopped>>,
           ChatsInv', ~Playing',
           \A q \in late' : q \in InService /\ (q.do = "reply" => q.conv \in logged)
    PROVE  PlayInv'
  <1>1. TickInv' /\ HoldInv' /\ ToldInv' /\ StopInv'
    BY ServiceKeeps DEF PlayInv, StopInv
  <1>2. HeardInv'
    BY DEF PlayInv, HeardInv
  <1>3. LateInv' /\ LoopInv'
    BY DEF LateInv, LoopInv
  <1> QED BY <1>1, <1>2, <1>3 DEF PlayInv

LEMMA PlayOpen ==
    ASSUME TypeInv, PlaceInv, PlayInv, OpenChat
    PROVE  PlayInv' /\ Head(chats).conv \notin logged
  <1> DEFINE g == Head(chats).conv
  <1>1. /\ chats # <<>> /\ ~Playing /\ call = Nothing /\ call' = Nothing
        /\ convs' = convs /\ optedOut' = optedOut /\ late' = late /\ stopped' = stopped
        /\ told' = told /\ logged' = logged \cup {g} /\ heard' = [heard EXCEPT ![g] = @ \cup {Opening}]
    BY DEF OpenChat, engineVars, served
  <1>2. /\ DOMAIN chats = 1 .. Len(chats) /\ Len(chats) >= 1 /\ Len(chats) \in Nat
        /\ g = chats[1].conv /\ g \in Triggers
    BY <1>1, ChatsFacts
  <1>3. Unheard(g)
    BY <1>1, <1>2 DEF PlayInv, ChatsInv
  <1>4. PICK y \in Chats :
            /\ y.conv = g /\ y.message \in Personas /\ y.turn = FirstTurn
            /\ chats' = [chats EXCEPT ![1] = y]
    BY OpenEffect
  <1>5. /\ DOMAIN chats' = 1 .. Len(chats)
        /\ \A i \in 1 .. Len(chats) : chats'[i] = IF i = 1 THEN y ELSE chats[i]
        /\ chats' # <<>> /\ Head(chats') = y
    BY <1>1, <1>4, ChatsPut
  <1>6. Playing'
    BY <1>4, <1>5 DEF Playing, FirstTurn
  <1>7. /\ \A i, j \in DOMAIN chats : chats[i].conv = chats[j].conv => i = j
        /\ \A i \in DOMAIN chats : Unheard(chats[i].conv)
    BY <1>1 DEF PlayInv, ChatsInv
  <1>8. \A i \in DOMAIN chats : chats'[i].conv = chats[i].conv
    BY <1>2, <1>4, <1>5
  <1>9. ChatsInv'
    <2>1. \A i, j \in DOMAIN chats' : chats'[i].conv = chats'[j].conv => i = j
      BY <1>2, <1>5, <1>7, <1>8
    <2>2. ASSUME NEW i \in DOMAIN chats', i > 1 PROVE UnheardAfter(chats'[i].conv)
      <3>1. chats[i].conv # g /\ Unheard(chats[i].conv)
        BY <1>2, <1>5, <1>7, <2>2
      <3>2. chats'[i].conv = chats[i].conv
        BY <1>2, <1>5, <1>8, <2>2
      <3> QED BY <1>1, <3>1, <3>2 DEF Unheard, UnheardAfter
    <2> QED BY <1>6, <2>1, <2>2 DEF ChatsInv, Unheard, UnheardAfter
  <1>10. heard \in [Triggers -> SUBSET (ReplyKind \cup {Opening})] /\ logged \subseteq Triggers
    BY DEF TypeInv, ClientType
  <1>11. HeardInv'
    <2>1. heard[g] = {} /\ told[g] # <<>>
      BY <1>2, <1>3 DEF PlayInv, HeardInv, Unheard
    <2>2. \A h \in Triggers : heard'[h] = IF h = g THEN {Opening} ELSE heard[h]
      BY <1>1, <1>2, <1>10, <2>1
    <2> QED BY <1>1, <1>2, <1>10, <2>1, <2>2 DEF PlayInv, HeardInv
  <1>12. LateInv'
    BY <1>1, <1>3, <1>4, <1>5 DEF PlayInv, LateInv, Unheard
  <1>13. LoopInv'
    <2>1. Ready(2, g, y.message)
      BY <1>3 DEF Ready, Unheard
    <2>2. \A turn, h, m : Ready(turn, h, m) => Ready(turn, h, m)'
      BY <1>1 DEF Ready
    <2> QED BY <1>1, <1>4, <1>5, <2>1, <2>2 DEF LoopInv, FirstTurn
  <1>14. TickInv' /\ HoldInv' /\ ToldInv' /\ StopInv'
    <2>1. \A q \in late' : q \in InService
      BY <1>1 DEF InService
    <2> QED BY <1>1, <2>1, ServiceKeeps DEF PlayInv, StopInv
  <1> QED BY <1>3, <1>9, <1>11, <1>12, <1>13, <1>14 DEF PlayInv, Unheard

LEMMA PlaySend ==
    ASSUME TypeInv, PlaceInv, PlayInv, Send
    PROVE  PlayInv'
  <1>1. /\ call = Nothing
        /\ UNCHANGED <<convs, optedOut, told, late, chats, logged, heard, stopped>>
    BY DEF Send, engineVars, served, clientVars
  <1>2. Playing' <=> Playing
    BY <1>1 DEF Playing
  <1>3. ChatsInv' /\ HeardInv' /\ LateInv' /\ ToldInv'
    <2>1. \A g : Unheard(g)' <=> Unheard(g)
      BY <1>1 DEF Unheard
    <2>2. ChatsInv' /\ HeardInv' /\ LateInv'
      BY <1>1, <1>2, <2>1 DEF PlayInv, ChatsInv, HeardInv, LateInv
    <2>3. ToldInv'
      BY <1>1 DEF PlayInv, ToldInv, Apart
    <2> QED BY <2>2, <2>3
  <1>6. /\ \A s \in InService' : s \in InService \/ s = call'
        /\ \A s \in late : s \in InService
        /\ \A s \in InService : s \in late
    BY <1>1 DEF InService
  <1>7. ASSUME ~AtStep(call', "compose"), call'.do = "tick" => Minds(call')
        PROVE  HoldInv' /\ StopInv'
    <2>1. HoldInv'
      <3>1. \A s \in InService' : AtStep(s, "compose") => s # call' /\ s \in InService
        BY <1>6, <1>7
      <3> QED BY <1>1, <3>1 DEF PlayInv, HoldInv, AtStep
    <2>2. StopInv'
      <3>1. \A s : Minds(s) => Minds(s)'
        BY <1>1 DEF Minds, AtStep
      <3> QED BY <1>1, <1>6, <1>7, <3>1 DEF PlayInv, StopInv
    <2> QED BY <2>1, <2>2
  <1>4. CASE Playing /\ call' = ReplyOf(Head(chats).conv, Head(chats).message)
    <2>1. call'.do = "reply" /\ Asked'.do = "reply"
      BY <1>4 DEF ReplyOf, Asked, Done
    <2>2. TickInv'
      BY <2>1 DEF TickInv
    <2>3. Head(chats).conv \in logged /\ Ready(Head(chats).turn, Head(chats).conv, Head(chats).message)
      BY <1>1, <1>4 DEF PlayInv, LoopInv
    <2>4. Ready(Head(chats).turn, Head(chats).conv, Head(chats).message)'
      BY <1>1, <2>3 DEF Ready
    <2>5. LoopInv'
      BY <1>1, <2>1, <2>3, <2>4 DEF LoopInv
    <2>6. HoldInv' /\ StopInv'
      BY <1>7, <2>1 DEF AtStep
    <2> QED BY <1>3, <2>2, <2>5, <2>6 DEF PlayInv
  <1>5. CASE chats = <<>> /\ ~Ended /\ call' = Scripted
    <2>1. at \in 1 .. Len(Script)
      BY <1>5, ScriptShape DEF Ended, TypeInv, ClientType
    <2>2. /\ call'.do \notin {"reply", "answered", "failed"}
          /\ call'.do = "tick" =>
                call'.actions = <<>> /\ call'.step = "test" /\ call'.stops = stopped
      BY <1>5, <2>1, ScriptedFacts
    <2>3. Asked' = call'
      BY <2>2 DEF Asked, Done
    <2>4. TickInv'
      <3>1. CASE Asked'.do # "tick"
        BY <3>1 DEF TickInv
      <3>2. CASE Asked'.do = "tick"
        <4>1. Asked'.actions = <<>>
          BY <2>2, <2>3, <3>2
        <4>2. DOMAIN Asked'.actions = {}
          BY <4>1
        <4> QED BY <4>2 DEF TickInv, Apart
      <3> QED BY <3>1, <3>2
    <2>5. LoopInv'
      BY <1>2, <1>5 DEF LoopInv, Playing
    <2>6. call'.do = "tick" => Minds(call')
      <3>1. SUFFICES ASSUME call'.do = "tick" PROVE Minds(call')
        OBVIOUS
      <3>2. Elements(call'.actions) = {}
        BY <2>2, <3>1 DEF Elements
      <3> QED BY <2>2, <3>1, <3>2 DEF Minds, AtStep
    <2>7. HoldInv' /\ StopInv'
      BY <1>7, <2>2, <2>6 DEF AtStep
    <2> QED BY <1>3, <2>4, <2>5, <2>7 DEF PlayInv
  <1> QED BY <1>4, <1>5 DEF Send

LEMMA PlayReceive ==
    ASSUME TypeInv, PlaceInv, PlayInv, Receive
    PROVE  PlayInv'
  <1>1. /\ call # Nothing /\ call.do = "answered" /\ call' = Nothing /\ late' = late
        /\ UNCHANGED <<convs, optedOut, told, logged, heard, stopped>>
        /\ \A q \in late' : q \in InService
    BY DEF Receive, Answered, engineVars, served, InService
  <1>2. IsResponse(call) /\ Asked = call.to
    BY <1>1, AskedType DEF Done
  <1>3. CASE call.to.do = "tick" /\ call.to.now # FarFuture
    <2> DEFINE list == call.with
    <2>1. list \in Seq(Triggers) /\ list = Asked.actions
      BY <1>1, <1>2, <1>3, ResponseFields DEF Returned, PlaceInv, Answered
    <2>2. Apart(list) /\ \A i \in DOMAIN list : Unheard(list[i])
      BY <1>1, <1>2, <1>3, <2>1 DEF PlayInv, TickInv
    <2>3. DOMAIN list = 1 .. Len(list) /\ Len(list) \in Nat
      BY <2>1, LenProperties
    <2>4. chats' = [i \in 1 .. Len(list) |-> Chat(list[i])]
      BY <1>3, <2>3 DEF Receive
    <2>5. DOMAIN chats' = 1 .. Len(list) /\ \A i \in 1 .. Len(list) :
              chats'[i].conv = list[i] /\ chats'[i].turn = 1
      BY <2>4 DEF Chat
    <2>6. ChatsInv'
      <3>1. \A i, j \in DOMAIN chats' : chats'[i].conv = chats'[j].conv => i = j
        BY <2>2, <2>3, <2>5 DEF Apart
      <3>2. \A i \in DOMAIN chats' : Unheard(list[i])
        BY <2>2, <2>3, <2>5
      <3>3. \A i \in DOMAIN chats' : UnheardAfter(chats'[i].conv)
        BY <1>1, <2>5, <3>2 DEF Unheard, UnheardAfter
      <3> QED BY <3>1, <3>3 DEF ChatsInv, Unheard, UnheardAfter
    <2>7. ~Playing'
      <3>1. SUFFICES ASSUME chats' # <<>> PROVE Head(chats').turn = 1
        BY DEF Playing, FirstTurn
      <3>2. chats' \in Seq(Chats)
        <4>1. TypeInv'
          BY TypeNext DEF Next
        <4> QED BY <4>1 DEF TypeInv, ClientType
      <3>3. Len(chats') \in Nat \ {0} /\ Head(chats') = chats'[1] /\ DOMAIN chats' = 1 .. Len(chats')
        BY <3>1, <3>2, EmptySeq, LenProperties
      <3>4. 1 \in DOMAIN chats'
        BY <3>3
      <3> QED BY <2>5, <3>3, <3>4
    <2> QED BY <1>1, <2>6, <2>7, PlayIdle DEF PlayInv, LateInv
  <1>4. CASE ~(call.to.do = "tick" /\ call.to.now # FarFuture)
    <2>1. chats' = <<>>
      BY <1>4 DEF Receive
    <2>2. DOMAIN chats' = {}
      BY <2>1
    <2>3. ChatsInv' /\ ~Playing'
      BY <2>1, <2>2 DEF ChatsInv, Playing
    <2> QED BY <1>1, <2>3, PlayIdle DEF PlayInv, LateInv
  <1> QED BY <1>3, <1>4

LEMMA PlayReply ==
    ASSUME TypeInv, PlaceInv, PlayInv, ReceiveReply
    PROVE  PlayInv'
  <1> DEFINE c == Head(chats)
             g == c.conv
  <1>1. /\ Answered("reply") /\ Playing /\ call # Nothing /\ call.do = "answered"
        /\ call.to.conv = g /\ call.to.message = c.message
    <2>1. Answered("reply")
      BY DEF ReceiveReply
    <2>2. InLoop /\ Playing /\ Asked = call.to
      BY <2>1, PlaceFacts DEF Answered, Asked, Done
    <2>3. Asked = ReplyOf(g, c.message)
      BY <2>2 DEF PlaceInv
    <2> QED BY <2>1, <2>2, <2>3 DEF Answered, ReplyOf
  <1>2. /\ call' = Nothing /\ late' = late /\ UNCHANGED <<convs, optedOut, told, logged>>
        /\ \A q \in late' : q \in InService
    BY DEF ReceiveReply, engineVars, served, InService
  <1>3. /\ g \in logged /\ c.turn <= 4
        /\ call.with.action # "end" => Ready(c.turn + 1, g, c.message)
        /\ call.with.action = "send" => call.with.body \in convs[g].sent \ heard[g]
        /\ c.message \in HostileMarked => MerchantOf[g] \in optedOut
    BY <1>1 DEF PlayInv, LoopInv
  <1>4. /\ heard \in [Triggers -> SUBSET (ReplyKind \cup {Opening})] /\ logged \subseteq Triggers
    BY DEF TypeInv, ClientType
  <1>5. HeardInv'
    <2>1. \A h \in Triggers : heard'[h] = IF h = g /\ call.with.action = "send"
                                          THEN heard[h] \cup {call.with.body} ELSE heard[h]
      BY <1>1, <1>3, <1>4 DEF ReceiveReply
    <2>2. /\ \A h \in logged : told[h] # <<>> /\ heard[h] \ {Opening} \subseteq convs[h].sent
          /\ \A h \in Triggers \ logged : heard[h] = {}
      BY DEF PlayInv, HeardInv
    <2>3. \A h \in logged : heard'[h] \ {Opening} \subseteq convs[h].sent
      <3>1. SUFFICES ASSUME NEW h \in logged PROVE heard'[h] \ {Opening} \subseteq convs[h].sent
        OBVIOUS
      <3>2. h \in Triggers /\ heard[h] \ {Opening} \subseteq convs[h].sent
        BY <1>4, <2>2, <3>1
      <3>3. CASE h = g /\ call.with.action = "send"
        <4>1. heard'[h] = heard[h] \cup {call.with.body}
          BY <2>1, <3>2, <3>3
        <4>2. call.with.body \in convs[h].sent
          BY <1>3, <3>3
        <4> QED BY <3>2, <4>1, <4>2
      <3>4. CASE ~(h = g /\ call.with.action = "send")
        BY <2>1, <3>2, <3>4
      <3> QED BY <3>3, <3>4
    <2>4. \A h \in Triggers \ logged : heard'[h] = {}
      BY <1>3, <2>1, <2>2
    <2> QED BY <1>2, <2>2, <2>3, <2>4 DEF HeardInv
  <1>6. stopped \subseteq stopped' /\ stopped' \subseteq optedOut
    BY <1>1, <1>2, <1>3 DEF ReceiveReply, PlayInv, StopInv
  <1>7. TickInv' /\ HoldInv' /\ ToldInv' /\ StopInv'
    BY <1>2, <1>6, ServiceKeeps
  <1>8. CASE chats' = Tail(chats)
    <2>1. ChatsInv' /\ ~Playing'
      BY <1>1, <1>2, <1>8, PlayTail DEF Playing
    <2>2. LateInv' /\ LoopInv'
      BY <1>2, <2>1 DEF PlayInv, LateInv, LoopInv
    <2> QED BY <1>5, <1>6, <1>7, <2>1, <2>2 DEF PlayInv
  <1>9. CASE chats' # Tail(chats)
    <2>1. call.with.action # "end" /\ chats' = NextTurn
      BY <1>9 DEF ReceiveReply
    <2>2. PICK y \in Chats :
             /\ y.conv = g /\ y.message = c.message /\ y.turn = c.turn + 1
             /\ chats' = [chats EXCEPT ![1] = y]
      BY <1>1, <1>9, <2>1, NextTurnEffect
    <2>3. /\ DOMAIN chats' = 1 .. Len(chats)
          /\ \A i \in 1 .. Len(chats) : chats'[i] = IF i = 1 THEN y ELSE chats[i]
          /\ chats' # <<>> /\ Head(chats') = y
      BY <1>1, <2>2, ChatsPut DEF Playing
    <2>4. DOMAIN chats = 1 .. Len(chats) /\ Len(chats) \in Nat /\ g = chats[1].conv
      BY <1>1, ChatsFacts DEF Playing
    <2>5. Ready(c.turn + 1, g, c.message)
      BY <1>3, <2>1
    <2>6. Playing'
      BY <2>2, <2>3, <2>5 DEF Playing, FirstTurn, Ready
    <2>7. \A i \in DOMAIN chats : chats'[i].conv = chats[i].conv
      BY <2>2, <2>3, <2>4
    <2>8. ChatsInv'
      <3>1. \A i, j \in DOMAIN chats' : chats'[i].conv = chats'[j].conv => i = j
        BY <2>3, <2>4, <2>7 DEF PlayInv, ChatsInv
      <3>2. \A i \in DOMAIN chats' : i > 1 => Unheard(chats[i].conv)
        BY <2>3, <2>4 DEF PlayInv, ChatsInv
      <3>3. \A i \in DOMAIN chats' : i > 1 => UnheardAfter(chats'[i].conv)
        BY <1>2, <2>3, <2>4, <2>7, <3>2 DEF Unheard, UnheardAfter
      <3> QED BY <2>6, <3>1, <3>3 DEF ChatsInv, Unheard, UnheardAfter
    <2>9. LateInv'
      BY <1>1, <1>2, <2>2, <2>3 DEF PlayInv, LateInv
    <2>10. LoopInv'
      <3>1. \A turn, h, m : Ready(turn, h, m) => Ready(turn, h, m)'
        BY <1>2 DEF Ready
      <3> QED BY <1>2, <1>3, <2>2, <2>3, <2>5, <3>1 DEF LoopInv
    <2> QED BY <1>5, <1>6, <1>7, <2>8, <2>9, <2>10 DEF PlayInv
  <1> QED BY <1>8, <1>9

LEMMA PlayFail ==
    ASSUME TypeInv, PlaceInv, PlayInv, Fail
    PROVE  PlayInv'
  <1>1. /\ call # Nothing /\ call' = Nothing
        /\ UNCHANGED <<convs, optedOut, told, logged, heard, stopped>>
        /\ \A q \in late' : q \in late \/ (q = call /\ ~Done)
    BY DEF Fail, engineVars, served, Done
  <1>2. ~Done => Asked = call
    BY DEF Asked
  <1>5. \A q \in late' : q \in InService
    BY <1>1 DEF InService, Done
  <1>3. CASE Playing
    <2>1. chats # <<>> /\ chats' = Tail(chats)
      BY <1>3 DEF Fail, Playing
    <2>2. ChatsInv' /\ ~Playing'
      BY <1>1, <2>1, PlayTail
    <2>3. InLoop
      BY <1>1, <1>3, PlaceFacts
    <2>4. \A q \in late' : q.do = "reply" => q.conv \in logged
      <3>1. ~Done => call.conv \in logged
        BY <1>2, <1>3, <2>3 DEF PlaceInv, ReplyOf, PlayInv, LoopInv
      <3> QED BY <1>1, <3>1 DEF PlayInv, LateInv
    <2> QED BY <1>1, <1>5, <2>2, <2>4, PlayIdle
  <1>4. CASE ~Playing
    <2>1. ~InLoop /\ chats' = chats
      BY <1>4, PlaceFacts DEF Fail
    <2>2. ~Playing'
      BY <1>4, <2>1 DEF Playing
    <2>3. ChatsInv'
      <3>1. chats = <<>>
        BY <1>1, <2>1 DEF PlaceInv
      <3>2. DOMAIN chats' = {}
        BY <2>1, <3>1
      <3> QED BY <3>2 DEF ChatsInv
    <2>4. \A q \in late' : q.do = "reply" => q.conv \in logged
      BY <1>1, <1>2, <2>1 DEF InLoop, PlayInv, LateInv
    <2> QED BY <1>1, <1>5, <2>2, <2>3, <2>4, PlayIdle
  <1> QED BY <1>3, <1>4

LEMMA PlayError ==
    ASSUME TypeInv, PlaceInv, PlayInv, ReceiveError
    PROVE  PlayInv'
  <1>1. /\ call # Nothing /\ call.do = "failed" /\ call' = Nothing /\ late' = late /\ chats' = chats
        /\ UNCHANGED <<convs, optedOut, told, logged, heard, stopped>>
        /\ \A q \in late' : q \in InService
    BY DEF ReceiveError, engineVars, served, InService
  <1>2. ~InLoop
    <2>1. IsResponse(call) /\ Asked = call.to
      BY <1>1, AskedType DEF Done
    <2> QED BY <1>1, <2>1, ResponseFields DEF InLoop
  <1>3. chats = <<>> /\ DOMAIN chats' = {}
    BY <1>1, <1>2 DEF PlaceInv
  <1>4. ChatsInv' /\ ~Playing'
    BY <1>1, <1>3 DEF ChatsInv, Playing
  <1> QED BY <1>1, <1>4, PlayIdle DEF PlayInv, LateInv

LEMMA PlayNext ==
    ASSUME TypeInv, PlaceInv, Unwiped => PlayInv, [Next]_vars
    PROVE  (Unwiped => PlayInv)'
  <1>1. SUFFICES ASSUME Unwiped', Unwiped, PlayInv PROVE PlayInv'
    BY PlaceNext
  <1>2. CASE UNCHANGED vars \/ Finished
    <2>1. /\ call' = call /\ late' = late /\ chats' = chats /\ logged' = logged
          /\ heard' = heard /\ stopped' = stopped /\ convs' = convs /\ optedOut' = optedOut
          /\ told' = told
      BY <1>2 DEF Finished, vars, clientVars, engineVars, served
    <2>2. /\ Playing' <=> Playing
          /\ Asked' = Asked
          /\ InService' = InService
          /\ \A g : Unheard(g)' <=> Unheard(g)
          /\ \A turn, g, m : Ready(turn, g, m)' <=> Ready(turn, g, m)
          /\ \A s : Minds(s) => Minds(s)'
      BY <2>1 DEF Asked, Done, InService, Playing, Unheard, Ready, Minds, AtStep
    <2>3. ChatsInv' /\ TickInv'
      BY <1>1, <2>1, <2>2 DEF PlayInv, ChatsInv, TickInv, Apart
    <2>4. HeardInv' /\ LateInv' /\ StopInv'
      BY <1>1, <2>1, <2>2 DEF PlayInv, HeardInv, LateInv, StopInv
    <2>5. LoopInv'
      BY <1>1, <2>1, <2>2 DEF PlayInv, LoopInv
    <2>6. HoldInv' /\ ToldInv'
      BY <1>1, <2>1, <2>2 DEF PlayInv, HoldInv, ToldInv, AtStep, Apart
    <2> QED BY <2>3, <2>4, <2>5, <2>6 DEF PlayInv
  <1>3. CASE Serve
    BY <1>1, <1>3, PlayServed
  <1>4. CASE OpenChat
    BY <1>1, <1>4, PlayOpen
  <1>5. CASE Send
    BY <1>1, <1>5, PlaySend
  <1>6. CASE Receive
    BY <1>1, <1>6, PlayReceive
  <1>7. CASE ReceiveReply
    BY <1>1, <1>7, PlayReply
  <1>8. CASE Fail
    BY <1>1, <1>8, PlayFail
  <1>9. CASE ReceiveError
    BY <1>1, <1>9, PlayError
  <1> QED BY <1>2, <1>3, <1>4, <1>5, <1>6, <1>7, <1>8, <1>9 DEF Next

LEMMA PlayInit == Init => PlayInv
  <1>1. SUFFICES ASSUME Init PROVE PlayInv
    OBVIOUS
  <1>2. DOMAIN chats = {} /\ ~Playing
    BY <1>1 DEF Init, Playing
  <1>3. ChatsInv /\ TickInv /\ HeardInv /\ LateInv /\ LoopInv
    BY <1>1, <1>2 DEF Init, ChatsInv, TickInv, HeardInv, LateInv, LoopInv
  <1>4. InService = {}
    BY <1>1 DEF Init, InService
  <1>5. HoldInv /\ ToldInv /\ StopInv
    BY <1>1, <1>4 DEF Init, HoldInv, ToldInv, StopInv
  <1> QED BY <1>3, <1>5 DEF PlayInv

\* Until the wipe, each conversation on the client's list is there once and has not been
\* begun, the one that is played is where the policy's last answer has left it, a claim has
\* one holder and nothing is told of it yet, and a request that was given up touches none of
\* them (run_simulation and the reply loop of hostile_evaluator_simulation.py, against
\* try_reserve, release and ConversationState).
THEOREM PlayInvariant == Spec => [](TypeInv /\ PlaceInv /\ (Unwiped => PlayInv))
  <1>1. Init => TypeInv /\ PlaceInv /\ (Unwiped => PlayInv)
    BY PlaceInit, PlayInit
  <1>2. TypeInv /\ PlaceInv /\ (Unwiped => PlayInv) /\ [Next]_vars
           => (TypeInv /\ PlaceInv /\ (Unwiped => PlayInv))'
    BY PlaceNext, PlayNext
  <1> QED BY <1>1, <1>2, PTL DEF Spec

\* ThreeTurns: no scripted conversation comes to its fifth turn, for any personas and marker
\* lists, and however many requests are given up (the repeat test and auto_reply_hits).
THEOREM LoopIsShort == Spec => []ThreeTurns
  <1>1. TypeInv /\ PlaceInv /\ (Unwiped => PlayInv) => ThreeTurns
    <2>1. SUFFICES ASSUME TypeInv, PlaceInv, Unwiped => PlayInv, chats # <<>>
                   PROVE  Head(chats).turn <= 4
      BY DEF ThreeTurns
    <2>2. PlayInv /\ (call = Nothing \/ InLoop)
      BY <2>1, PlaceFacts DEF PlaceInv
    <2>3. CASE ~Playing
      <3>1. Head(chats).turn \in Nat
        BY <2>1, ChatsFacts
      <3>2. ~(Head(chats).turn >= 2)
        BY <2>1, <2>3 DEF Playing, FirstTurn
      <3> QED BY <3>1, <3>2
    <2>4. CASE Playing
      <3>1. call = Nothing \/ call.do = "answered" \/ call.do = "reply"
        <4>1. CASE call # Nothing /\ InLoop /\ Done
          <5>1. IsResponse(call) /\ Asked = call.to
            BY <2>1, <4>1, AskedType
          <5>2. call.to.do = "reply"
            BY <4>1, <5>1 DEF InLoop
          <5> QED BY <5>1, <5>2, ResponseFields
        <4>2. CASE call # Nothing /\ InLoop /\ ~Done
          BY <4>2 DEF InLoop, Asked
        <4> QED BY <2>2, <4>1, <4>2
      <3>2. Head(chats).turn <= 4 \/ Ready(Head(chats).turn, Head(chats).conv, Head(chats).message)
        BY <2>2, <2>4, <3>1 DEF PlayInv, LoopInv
      <3> QED BY <3>2 DEF Ready
    <2> QED BY <2>3, <2>4
  <1> QED BY <1>1, PlayInvariant, PTL

\* NothingTwice: for any dataset, personas and number of requests that are given up and of
\* handlers that raise, no opening and no text of a conversation is given out again, be it
\* by a tick or a reply that is served while the client has gone on: a claim has one holder,
\* so a release never takes a conversation that has been opened (try_reserve, release,
\* sent_bodies).
THEOREM SaysNothingAgain == Spec => []NothingTwice
  <1>1. TypeInv /\ PlaceInv /\ (Unwiped => PlayInv) => NothingTwice
    <2>1. SUFFICES ASSUME TypeInv, Unwiped => PlayInv, ~TeardownSent, NEW g \in Triggers
                   PROVE  /\ told[g] # <<>> => told[g][1] = Opening
                          /\ \A i, j \in DOMAIN told[g] : told[g][i] = told[g][j] => i = j
      BY DEF NothingTwice
    <2>2. ToldInv
      BY <2>1, ScriptShape DEF TeardownSent, Unwiped, TypeInv, ClientType, PlayInv
    <2>3. CASE told[g] = <<>>
      BY <2>3
    <2>4. CASE told[g] # <<>>
      BY <2>1, <2>2, <2>4 DEF ToldInv, Apart
    <2> QED BY <2>3, <2>4
  <1> QED BY <1>1, PlayInvariant, PTL

\* StopBindsLaterTicks: for any merchants and triggers, a tick that is sent after a stop was
\* answered collects nothing of that merchant, however late it is served: suppress_merchant
\* comes before the answer to the stop, and the test of the tick after it is sent.
THEOREM StopsBind == Spec => []StopBindsLaterTicks
  <1>1. TypeInv /\ PlaceInv /\ (Unwiped => PlayInv) => StopBindsLaterTicks
    <2>1. SUFFICES ASSUME TypeInv, Unwiped => PlayInv, ~TeardownSent
                   PROVE  \A r \in InService : r.do = "tick" =>
                              \A g \in Elements(r.actions) : MerchantOf[g] \notin r.stops
      BY DEF StopBindsLaterTicks
    <2>2. StopInv
      BY <2>1, ScriptShape DEF TeardownSent, Unwiped, TypeInv, ClientType, PlayInv
    <2> QED BY <2>2 DEF StopInv, Minds
  <1> QED BY <1>1, PlayInvariant, PTL

\* Of what the client hears: no trigger is acted on a second time, no text of a conversation
\* repeated and no expired trigger acted on, whatever is given up.
LEMMA NoSlipEver == Spec => []NoSlip
  <1>1. Init => NoSlip
    BY DEF Init, NoSlip
  <1>2. TypeInv /\ PlaceInv /\ (Unwiped => PlayInv) /\ NoSlip /\ [Next]_vars => NoSlip'
    <2>1. SUFFICES ASSUME TypeInv, PlaceInv, Unwiped => PlayInv, NoSlip, [Next]_vars
                   PROVE  NoSlip'
      OBVIOUS
    <2>2. CASE faults' = faults
      BY <2>1, <2>2 DEF NoSlip
    <2>3. CASE OpenChat
      <3>1. Head(chats).conv \notin logged
        BY <2>1, <2>3, PlaceFacts, PlayOpen DEF OpenChat
      <3> QED BY <2>2, <2>3, <3>1 DEF OpenChat
    <2>4. CASE Receive
      <3>1. Complaints \cap {"duplicate", "repeat", "expired"} = {}
        <4>1. call # Nothing /\ call.do = "answered" /\ ~InLoop /\ Asked = call.to
          BY <2>4 DEF Receive, Answered, InLoop, Asked, Done
        <4>2. call.to.do = "tick" /\ call.to.now = FarFuture => call.with = <<>>
          BY <2>1, <4>1 DEF PlaceInv, FarTick, Answered
        <4> QED BY <4>2 DEF Complaints
      <3> QED BY <2>1, <2>4, <3>1 DEF NoSlip, Receive
    <2>5. CASE ReceiveReply
      <3>1. InLoop /\ Playing /\ Unwiped /\ call # Nothing /\ call.do = "answered" /\ Asked = call.to
        BY <2>1, <2>5, PlaceFacts DEF ReceiveReply, Answered, Asked, Done, Playing
      <3>2. call.to.conv = Head(chats).conv
        BY <2>1, <3>1 DEF PlaceInv, ReplyOf
      <3>3. call.with.action = "send" => call.with.body \notin heard[call.to.conv]
        BY <2>1, <3>1, <3>2 DEF PlayInv, LoopInv
      <3> QED BY <2>2, <2>5, <3>3 DEF ReceiveReply
    <2>6. CASE ReceiveError
      BY <2>1, <2>6 DEF ReceiveError, NoSlip
    <2>7. CASE Fail
      <3>1. Missed \cap {"duplicate", "repeat", "expired"} = {}
        BY DEF Missed
      <3> QED BY <2>1, <2>7, <3>1 DEF Fail, NoSlip
    <2>8. Serve \/ Send \/ Finished \/ UNCHANGED vars => faults' = faults
      BY DEF Serve, Send, Finished, vars, clientVars
    <2> QED BY <2>1, <2>2, <2>3, <2>4, <2>5, <2>6, <2>7, <2>8 DEF Next
  <1> QED BY <1>1, <1>2, PlayInvariant, PTL DEF Spec

-------------------------------------------------------------------------------
(***************************************************************************)
(* While every request is answered.                                        *)
(***************************************************************************)

LEMMA PushedFacts ==
    /\ \A n \in Int : n <= 0 => Pushed(n) = {}
    /\ \A n \in 1 .. Len(Base) : Pushed(n) = Pushed(n - 1) \cup {Base[n]}
    /\ Pushed(Warm - 3) = Elements(Base)
    /\ Merchants[1] \in Elements(Base)
  <1>1. Len(Base) \in Nat /\ Warm = Len(Base) + 3 /\ DOMAIN Base = 1 .. Len(Base)
    BY ScriptShape, SequencesOfBase
  <1>2. \A n \in Int : n <= 0 => Pushed(n) = {}
    BY DEF Pushed
  <1>3. ASSUME NEW n \in 1 .. Len(Base)
        PROVE  Pushed(n) = Pushed(n - 1) \cup {Base[n]}
    <2>1. \A j : j \in 1 .. n <=> j \in 1 .. n - 1 \/ j = n
      BY <1>1, <1>3
    <2> QED BY <2>1 DEF Pushed
  <1>4. Pushed(Warm - 3) = Elements(Base)
    <2>1. Warm - 3 = Len(Base)
      BY <1>1
    <2> QED BY <1>1, <2>1 DEF Pushed, Elements
  <1> QED BY <1>2, <1>3, <1>4, SequencesOfBase

\* The answer reaches the client, who waits for nothing else.
LEMMA OnlyCall ==
    ASSUME TypeInv, late = {}, NEW r \in InService, ServeOne(r)
    PROVE  /\ r = call /\ call # Nothing /\ ~Done /\ Asked = r /\ late' = {}
           /\ call' # Nothing
           /\ Moves(r) => call'.do = "tick"
           /\ ~Moves(r) =>
                 /\ IsResponse(call') /\ call'.to = r
                 /\ call'.do = "failed" => Raises(r)
           /\ \A answer : Answer(r, answer) => call' = [do |-> "answered", to |-> r, with |-> answer]
  <1>1. r = call /\ call # Nothing /\ ~Done /\ Asked = r /\ r \in Request
    BY InServiceType
  <1>2. CASE Moves(r)
    <2>1. PICK q \in Request : Becomes(r, q) /\ Moved(r, q)
      BY <1>2, MoveEffect
    <2>2. call' = q /\ late' = {} /\ q.do = "tick"
      BY <1>1, <2>1 DEF Becomes, Moved
    <2>3. \A answer : Answer(r, answer) => call' = [do |-> "answered", to |-> r, with |-> answer]
      BY <1>1 DEF Answer, Respond
    <2> QED BY <1>1, <1>2, <2>1, <2>2, <2>3, NothingApart
  <1>3. CASE ~Moves(r)
    <2>1. PICK response :
             /\ Respond(r, response) /\ IsResponse(response) /\ response.to = r
             /\ response.do = "failed" => Raises(r)
      BY <1>3, ServeAnswers
    <2>2. call' = response /\ late' = {}
      BY <1>1, <2>1 DEF Respond
    <2>3. \A answer : Answer(r, answer) => call' = [do |-> "answered", to |-> r, with |-> answer]
      BY <1>1 DEF Answer, Respond
    <2> QED BY <1>1, <1>3, <2>1, <2>2, <2>3, NothingApart
  <1> QED BY <1>2, <1>3

LEMMA PushEffect ==
    ASSUME TypeInv, NEW r \in InService, ServePush(r)
    PROVE  /\ r.do = "push" /\ r.id \in Ids /\ r.version \in Nat
           /\ Loaded' = Loaded \cup {r.id}
           /\ \A id \in Loaded : contexts'[id] >= contexts[id] /\ contexts[id] \in Nat
           /\ r.id \notin Loaded => contexts'[r.id] = r.version
           /\ r.id \in Loaded /\ contexts[r.id] > r.version => Answer(r, "stale")
  <1>1. /\ r.do = "push" /\ r.id \in Ids /\ r.version \in Nat
        /\ contexts \in [Ids -> Nat \cup {Nothing}]
    BY InServiceType, RequestFields DEF ServePush, TypeInv, EngineType
  <1>2. Nothing \notin Nat
    BY NothingApart
  <1> DEFINE newer == Stored(r.id) => contexts[r.id] < r.version
  <1>3. /\ contexts' = IF newer THEN [contexts EXCEPT ![r.id] = r.version] ELSE contexts
        /\ Answer(r, IF Stored(r.id) /\ contexts[r.id] > r.version THEN "stale" ELSE "accepted")
    BY DEF ServePush
  <1>4. \A id \in Ids : contexts'[id] = IF id = r.id /\ newer THEN r.version ELSE contexts[id]
    BY <1>1, <1>3
  <1>5. \A id \in Ids : id \in Loaded <=> contexts[id] # Nothing
    BY DEF Loaded, Stored
  <1>6. Loaded' = {id \in Ids : contexts'[id] # Nothing}
    BY DEF Loaded, Stored
  <1>7. \A id \in Loaded : contexts[id] \in Nat /\ id \in Ids
    BY <1>1 DEF Loaded, Stored
  <1>8. Loaded' = Loaded \cup {r.id}
    <2>1. \A id \in Ids : contexts'[id] # Nothing <=> id \in Loaded \/ id = r.id
      BY <1>1, <1>2, <1>4, <1>5 DEF Stored
    <2>2. Loaded \subseteq Ids
      BY DEF Loaded
    <2> QED BY <1>1, <1>6, <2>1, <2>2
  <1>9. \A id \in Loaded : contexts'[id] >= contexts[id]
    BY <1>1, <1>4, <1>5, <1>7 DEF Stored
  <1>10. r.id \notin Loaded => contexts'[r.id] = r.version
    BY <1>1, <1>4, <1>5 DEF Stored
  <1>11. r.id \in Loaded /\ contexts[r.id] > r.version => Answer(r, "stale")
    BY <1>1, <1>3, <1>5 DEF Stored
  <1> QED BY <1>1, <1>7, <1>8, <1>9, <1>10, <1>11

LEMMA LoadServed ==
    ASSUME TypeInv, PlaceInv, late = {}, LoadInv, Serve
    PROVE  late' = {} /\ LoadInv'
  <1>1. PICK r \in InService : ServeOne(r)
    BY ServeIsOne
  <1>2. /\ r = call /\ call # Nothing /\ ~Done /\ Asked = r /\ late' = {}
        /\ call' # Nothing
        /\ Moves(r) => call'.do = "tick"
        /\ ~Moves(r) =>
              /\ IsResponse(call') /\ call'.to = r
              /\ call'.do = "failed" => Raises(r)
        /\ \A answer : Answer(r, answer) => call' = [do |-> "answered", to |-> r, with |-> answer]
    BY <1>1, OnlyCall
  <1>3. at' = at /\ Len(Script) \in Nat /\ Warm \in Nat /\ at \in 1 .. Len(Script) + 1
        /\ Warm <= Len(Script) - 2
    BY ScriptShape DEF Serve, clientVars, TypeInv, ClientType
  <1>4. \A kind : Answered(kind)' => ~Moves(r) /\ r.do = kind /\ call'.to = r
    BY <1>2 DEF Answered
  <1>5. \A kind : ~Answered(kind)
    BY <1>2 DEF Answered, Done
  <1>9. call' # Nothing /\ call'.do = "failed" => call'.to.do = "tick"
    <2>1. CASE Raises(r)
      <3>1. ~HealthRaises(r)
        <4>1. \A p \in InService : p = r
          BY <1>2, InServiceType
        <4> QED BY <4>1 DEF HealthRaises
      <3>2. r.do = "tick"
        BY <2>1, <3>1 DEF Raises, TestRaises, OpenRaises, AtStep
      <3>3. ~Moves(r) => call'.to.do = "tick"
        BY <1>2, <3>2
      <3> QED BY <1>2, <3>3
    <2>2. CASE ~Raises(r)
      BY <1>2, <2>2
    <2> QED BY <2>1, <2>2
  <1>6. /\ at <= Warm => Loaded = Pushed(at - 3) /\ \A id \in Loaded : contexts[id] > 0
        /\ at > Warm /\ at < Len(Script) - 1 =>
              Stored(Merchants[1]) /\ contexts[Merchants[1]] > 0
        /\ at >= Len(Script) => Loaded = {}
    BY <1>5 DEF LoadInv
  <1>7. CASE InLoop
    <2>1. at > Warm /\ at < Len(Script) /\ r.do = "reply"
      BY <1>2, <1>7, PlaceFacts DEF InLoop, PlaceInv, Playing
    <2>2. ServeReply(r)
      BY <1>1, <2>1 DEF ServeOne, Moves, Raises, Test, TestRaises, Claim, Open, Unclaim, OpenRaises,
                        AtStep, ServePush, ServeTick, ServeTeardown, ServeHealth, HealthRaises,
                        ServeStateless
    <2>3. contexts' = contexts
      BY <2>2, ReplyEffect
    <2>4. ~Answered("push")' /\ ~Answered("health")' /\ ~Answered("teardown")'
      BY <1>4, <2>1
    <2> QED BY <1>2, <1>3, <1>6, <1>9, <2>1, <2>3, <2>4 DEF LoadInv, Loaded, Stored
  <1>8. CASE ~InLoop
    <2>1. at \in 1 .. Len(Script) /\ From(r, Script[at])
      BY <1>2, <1>8, PlaceFacts DEF PlaceInv
    <2>2. CASE ServePush(r)
      <3>1. /\ r.do = "push" /\ r.id \in Ids /\ r.version \in Nat
            /\ Loaded' = Loaded \cup {r.id}
            /\ \A id \in Loaded : contexts'[id] >= contexts[id] /\ contexts[id] \in Nat
            /\ r.id \notin Loaded => contexts'[r.id] = r.version
            /\ r.id \in Loaded /\ contexts[r.id] > r.version => Answer(r, "stale")
        BY <2>2, PushEffect
      <3>2. r = Script[at]
        BY <2>1, <3>1 DEF From
      <3>3. at # Warm /\ at # Len(Script) - 1 /\ at # Len(Script)
        BY <2>1, <3>1, <3>2, ScriptRequests, ScriptShape
      <3>4. ~Answered("health")' /\ ~Answered("teardown")'
        BY <1>4, <3>1
      <3>6. Answered("push")' /\ call'.to = r
        <4>1. \E answer : Answer(r, answer)
          BY <2>2 DEF ServePush
        <4>2. call'.do = "answered" /\ call'.to = r
          BY <1>2, <4>1
        <4> QED BY <1>2, <3>1, <4>2 DEF Answered
      <3>7. CASE at <= Warm
        <4>1. at \in 3 .. Warm - 1
          BY <1>3, <2>1, <3>1, <3>2, <3>7, ScriptRequests
        <4>2. r = PushOf(Base[at - 2], 1) /\ at - 2 \in 1 .. Len(Base)
          BY <3>2, <4>1, ScriptShape
        <4>3. r.id = Base[at - 2] /\ r.version = 1
          BY <4>2 DEF PushOf
        <4>4. Loaded = Pushed(at - 3) /\ \A id \in Loaded : contexts[id] > 0
          BY <1>6, <3>7
        <4>5. Loaded' = Pushed(at - 2)
          <5>1. at - 2 - 1 = at - 3
            BY <4>1
          <5>2. Pushed(at - 2) = Pushed(at - 2 - 1) \cup {Base[at - 2]}
            BY <4>2, PushedFacts
          <5> QED BY <3>1, <4>3, <4>4, <5>1, <5>2
        <4>6. ASSUME NEW id \in Loaded' PROVE contexts'[id] > 0
          <5>1. CASE id \in Loaded
            <6>1. contexts'[id] \in Nat
              <7>1. TypeInv'
                BY TypeNext DEF Next
              <7>2. id \in Ids /\ contexts'[id] # Nothing
                BY <4>6 DEF Loaded, Stored
              <7> QED BY <7>1, <7>2 DEF TypeInv, EngineType
            <6>2. contexts'[id] >= contexts[id] /\ contexts[id] \in Nat /\ contexts[id] > 0
              BY <3>1, <4>4, <5>1
            <6> QED BY <6>1, <6>2
          <5>2. CASE id \notin Loaded
            BY <3>1, <4>3, <4>6, <5>2
          <5> QED BY <5>1, <5>2
        <4> QED BY <1>2, <1>3, <1>9, <3>3, <3>4, <3>6, <3>7, <4>1, <4>3, <4>5, <4>6 DEF LoadInv
      <3>8. CASE at > Warm
        <4>1. at < Len(Script) - 1
          BY <1>3, <2>1, <3>3
        <4>2. Stored(Merchants[1]) /\ contexts[Merchants[1]] > 0
          BY <1>6, <3>8, <4>1
        <4>3. Merchants[1] \in Loaded
          BY <4>2, SequencesOfBase DEF Loaded
        <4>4. Stored(Merchants[1])' /\ contexts'[Merchants[1]] > 0
          <5>1. Merchants[1] \in Loaded'
            BY <3>1, <4>3
          <5>2. contexts'[Merchants[1]] \in Nat
            <6>1. TypeInv'
              BY TypeNext DEF Next
            <6>2. Merchants[1] \in Ids /\ contexts'[Merchants[1]] # Nothing
              BY <5>1 DEF Loaded, Stored
            <6> QED BY <6>1, <6>2 DEF TypeInv, EngineType
          <5>3. contexts'[Merchants[1]] >= contexts[Merchants[1]] /\ contexts[Merchants[1]] \in Nat
            BY <3>1, <4>3
          <5>4. Stored(Merchants[1])'
            BY <5>1 DEF Loaded
          <5> QED BY <4>2, <5>2, <5>3, <5>4
        <4>5. r.version = 0 => call'.with = "stale"
          <5>1. SUFFICES ASSUME r.version = 0 PROVE call'.with = "stale"
            OBVIOUS
          <5>2. r.id = Merchants[1]
            BY <2>1, <3>1, <3>2, <5>1, ScriptRequests
          <5>3. Answer(r, "stale")
            BY <3>1, <4>2, <4>3, <5>1, <5>2
          <5>4. call' = [do |-> "answered", to |-> r, with |-> "stale"]
            BY <1>2, <5>3
          <5> QED BY <5>4
        <4> QED BY <1>2, <1>3, <1>9, <3>4, <3>6, <3>8, <4>1, <4>4, <4>5 DEF LoadInv
      <3> QED BY <1>3, <3>7, <3>8
    <2>3. CASE Moves(r) \/ TestRaises(r) \/ OpenRaises(r) \/ ServeTick(r)
      <3>1. r.do = "tick" /\ Script[at].do = "tick"
        BY <2>1, <2>3 DEF Moves, Test, Claim, Open, Unclaim, TestRaises, OpenRaises, AtStep, ServeTick, From
      <3>2. at \in Warm + 1 .. Len(Script) - 2
        BY <2>1, <3>1, ScriptRequests
      <3>3. contexts' = contexts
        BY <2>3, MoveEffect DEF TestRaises, OpenRaises, ServeTick, engineVars
      <3>4. ~Answered("push")' /\ ~Answered("health")' /\ ~Answered("teardown")'
        BY <1>4, <3>1
      <3> QED BY <1>2, <1>3, <1>6, <1>9, <3>2, <3>3, <3>4 DEF LoadInv, Loaded, Stored
    <2>4. CASE ServeReply(r)
      BY <1>2, <1>8, <2>4 DEF ServeReply, InLoop
    <2>5. CASE ServeTeardown(r)
      <3>1. r.do = "teardown" /\ contexts' = [id \in Ids |-> Nothing]
        BY <2>5 DEF ServeTeardown
      <3>2. at = Len(Script) - 1
        BY <2>1, <3>1, ScriptRequests DEF From
      <3>3. Loaded' = {}
        BY <3>1 DEF Loaded, Stored
      <3>4. ~Answered("push")' /\ ~Answered("health")'
        BY <1>4, <3>1
      <3> QED BY <1>2, <1>3, <1>9, <3>2, <3>3, <3>4 DEF LoadInv
    <2>6. CASE ServeHealth(r)
      <3>1. r.do = "health" /\ contexts' = contexts /\ r = Script[at] /\ Answer(r, Loaded)
        BY <2>1, <2>6 DEF ServeHealth, engineVars, From
      <3>2. Loaded' = Loaded
        BY <3>1 DEF Loaded, Stored
      <3>3. ~Answered("push")' /\ ~Answered("teardown")'
        BY <1>4, <3>1
      <3>5. call'.with = Loaded
        BY <1>2, <3>1
      <3>6. at = Warm => Loaded = Elements(Base)
        BY <1>3, <1>6, PushedFacts
      <3>7. at # Len(Script) - 1
        BY <2>1, <3>1, ScriptRequests
      <3> QED BY <1>2, <1>3, <1>6, <1>9, <3>1, <3>2, <3>3, <3>5, <3>6, <3>7 DEF LoadInv, Stored
    <2>7. CASE ServeStateless(r)
      <3>1. r.do = "stateless" /\ contexts' = contexts
        BY <2>7 DEF ServeStateless, engineVars
      <3>2. Loaded' = Loaded
        BY <3>1 DEF Loaded, Stored
      <3>3. ~Answered("push")' /\ ~Answered("teardown")' /\ ~Answered("health")'
        BY <1>4, <3>1
      <3>4. r = Script[at]
        BY <2>1, <3>1 DEF From
      <3>5. at # Len(Script) - 1
        BY <2>1, <3>1, <3>4, ScriptRequests
      <3> QED BY <1>2, <1>3, <1>6, <1>9, <3>1, <3>2, <3>3, <3>5 DEF LoadInv, Stored
    <2>8. ~HealthRaises(r)
      <3>1. \A p \in InService : p = r
        BY <1>2, InServiceType
      <3> QED BY <3>1 DEF HealthRaises
    <2> QED BY <1>1, <2>2, <2>3, <2>4, <2>5, <2>6, <2>7, <2>8 DEF ServeOne, Raises
  <1> QED BY <1>7, <1>8

\* The client learns what the engine has.
LEMMA LoadReceived ==
    ASSUME TypeInv, PlaceInv, LoadInv, Receive
    PROVE  LoadInv' /\ Complaints = {}
  <1>1. /\ call # Nothing /\ call.do = "answered" /\ ~InLoop /\ Asked = call.to
        /\ call' = Nothing /\ at' = at + 1 /\ contexts' = contexts
        /\ call.to.do \in {"push", "tick", "teardown", "health", "stateless"}
        /\ Answered(call.to.do)
    BY DEF Receive, Answered, InLoop, Asked, Done, engineVars
  <1>2. /\ Len(Script) \in Nat /\ Warm \in Nat /\ Warm >= 1 /\ Warm <= Len(Script) - 2
        /\ at \in 1 .. Len(Script) /\ From(call.to, Script[at])
    BY <1>1, ScriptShape, PlaceFacts DEF PlaceInv
  <1>3. \A kind : ~Answered(kind)'
    BY <1>1 DEF Answered
  <1>4. Loaded' = Loaded
    BY <1>1 DEF Loaded, Stored
  <1>5. at < Warm => Loaded = Pushed(at - 2)
    <2>1. SUFFICES ASSUME at < Warm PROVE Loaded = Pushed(at - 2)
      OBVIOUS
    <2>2. CASE at \in 3 .. Warm - 1
      <3>1. Script[at] = PushOf(Base[at - 2], 1)
        BY <2>2, ScriptShape
      <3>2. Answered("push")
        BY <1>1, <1>2, <3>1 DEF From, PushOf
      <3> QED BY <1>2, <2>1, <3>2 DEF LoadInv
    <2>3. CASE at \in {1, 2}
      <3>1. Script[at].do # "push"
        BY <2>3, ScriptShape DEF Health, Stateless
      <3>2. ~Answered("push")
        BY <1>2, <3>1 DEF Answered, From
      <3>3. Loaded = Pushed(at - 3)
        BY <1>2, <2>1, <3>2 DEF LoadInv
      <3>4. Pushed(at - 3) = {} /\ Pushed(at - 2) = {}
        BY <1>2, <2>3, PushedFacts
      <3> QED BY <3>3, <3>4
    <2> QED BY <1>2, <2>1, <2>2, <2>3
  <1>6. at <= Warm => \A id \in Loaded : contexts[id] > 0
    BY DEF LoadInv
  <1>7. at = Warm => Stored(Merchants[1]) /\ contexts[Merchants[1]] > 0
    <2>1. SUFFICES ASSUME at = Warm PROVE Stored(Merchants[1]) /\ contexts[Merchants[1]] > 0
      OBVIOUS
    <2>2. call.to.do = "health"
      BY <1>2, <2>1, ScriptShape DEF From, Health
    <2>3. Loaded = Pushed(Warm - 3)
      BY <1>2, <2>1, <2>2 DEF LoadInv, Answered
    <2>4. Merchants[1] \in Loaded
      BY <2>3, PushedFacts
    <2> QED BY <1>2, <1>6, <2>1, <2>4 DEF Loaded
  <1>8. at > Warm /\ at < Len(Script) - 1 => Stored(Merchants[1]) /\ contexts[Merchants[1]] > 0
    BY DEF LoadInv
  <1>9. at >= Len(Script) - 1 => Loaded = {}
    <2>1. CASE at = Len(Script) - 1
      <3>1. call.to.do = "teardown"
        BY <1>2, <2>1, ScriptShape DEF From, Wipe
      <3> QED BY <1>1, <3>1 DEF LoadInv
    <2>2. CASE at # Len(Script) - 1
      BY <1>2, <2>2 DEF LoadInv
    <2> QED BY <2>1, <2>2
  <1>10. LoadInv'
    <2>1. at' <= Warm => /\ Loaded' = Pushed(at' - 3)
                         /\ \A id \in Loaded' : contexts'[id] > 0
      <3>1. SUFFICES ASSUME at' <= Warm
                     PROVE  Loaded' = Pushed(at' - 3) /\ \A id \in Loaded' : contexts'[id] > 0
        OBVIOUS
      <3>2. at < Warm /\ at' - 3 = at - 2
        BY <1>1, <1>2, <3>1
      <3>3. at < Warm /\ at <= Warm
        BY <1>2, <3>2
      <3>4. Loaded' = Pushed(at' - 3)
        BY <1>4, <1>5, <3>2, <3>3
      <3>5. \A id \in Loaded' : contexts'[id] > 0
        BY <1>1, <1>4, <1>6, <3>3
      <3> QED BY <3>4, <3>5
    <2>2. at + 1 > Warm /\ at + 1 < Len(Script) - 1 =>
             Stored(Merchants[1]) /\ contexts[Merchants[1]] > 0
      BY <1>2, <1>7, <1>8
    <2>3. at' > Warm /\ at' < Len(Script) - 1 =>
             Stored(Merchants[1])' /\ contexts'[Merchants[1]] > 0
      BY <1>1, <2>2 DEF Stored
    <2>4. at' >= Len(Script) => Loaded' = {}
      BY <1>1, <1>2, <1>4, <1>9
    <2> QED BY <1>1, <1>3, <2>1, <2>3, <2>4 DEF LoadInv
  <1>11. Complaints = {}
    <2>1. call.to.do = "push" /\ call.to.version = 0 => call.with = "stale"
      BY <1>1 DEF LoadInv
    <2>2. call.to.do = "tick" /\ call.to.now = FarFuture => call.with = <<>>
      BY <1>1 DEF PlaceInv, FarTick, Answered
    <2>3. call.to.do = "health" /\ at = Len(Warmup) =>
             call.with = Elements(Base)
      BY <1>1 DEF LoadInv, Warm
    <2>4. call.to.do = "health" /\ at = Len(Script) => call.with = {}
      BY <1>1 DEF LoadInv
    <2> QED BY <2>1, <2>2, <2>3, <2>4 DEF Complaints
  <1> QED BY <1>10, <1>11


\* A 500 is the answer to a tick, which is neither of the warm-up nor of the wipe.
LEMMA LoadError ==
    ASSUME TypeInv, PlaceInv, LoadInv, ReceiveError
    PROVE  LoadInv' /\ faults' = faults \cup {"fivexx"}
  <1>1. /\ call # Nothing /\ call.do = "failed" /\ call.to.do = "tick" /\ Asked = call.to /\ ~InLoop
        /\ call' = Nothing /\ at' = at + 1 /\ contexts' = contexts
    BY DEF ReceiveError, LoadInv, InLoop, Asked, Done, engineVars
  <1>2. at \in 1 .. Len(Script) /\ Script[at].do = "tick"
    BY <1>1, PlaceFacts DEF PlaceInv, From
  <1>3. at \in Warm + 1 .. Len(Script) - 2 /\ Warm \in Nat /\ Len(Script) \in Nat
    BY <1>2, ScriptRequests, ScriptShape
  <1>4. Stored(Merchants[1]) /\ contexts[Merchants[1]] > 0
    BY <1>3 DEF LoadInv
  <1>5. LoadInv'
    <2>1. \A kind : ~Answered(kind)'
      BY <1>1 DEF Answered
    <2>2. Stored(Merchants[1])' /\ contexts'[Merchants[1]] > 0
      BY <1>1, <1>4 DEF Stored
    <2>3. ~(at' <= Warm) /\ ~(at' >= Len(Script))
      BY <1>1, <1>3
    <2> QED BY <1>1, <2>1, <2>2, <2>3 DEF LoadInv
  <1>6. faults' = faults \cup {"fivexx"}
    BY <1>3 DEF ReceiveError, Warm
  <1> QED BY <1>5, <1>6

LEMMA LoadKept ==
    ASSUME LoadInv, UNCHANGED <<at, contexts>>,
           \A kind \in {"push", "health", "teardown"} : ~Answered(kind) /\ ~Answered(kind)',
           ~(call' # Nothing /\ call'.do = "failed")
    PROVE  LoadInv'
  <1>1. Loaded' = Loaded
    BY DEF Loaded, Stored
  <1> QED BY <1>1 DEF LoadInv, Stored

LEMMA SoundNext ==
    ASSUME TypeInv, PlaceInv, NoSlip', SoundInv, [Next]_vars
    PROVE  SoundInv'
  <1>1. SUFFICES ASSUME failures' = 0 PROVE late' = {} /\ faults' \subseteq {"fivexx"} /\ LoadInv'
    BY DEF SoundInv
  <1>2. ~Fail /\ failures' = failures
    <2>1. ~Fail
      BY <1>1 DEF Fail, TypeInv, ClientType
    <2> QED BY <2>1 DEF Next, Serve, OpenChat, Send, Receive, ReceiveReply, ReceiveError, Finished,
                       vars, clientVars
  <1>3. late = {} /\ faults \subseteq {"fivexx"} /\ LoadInv
    BY <1>1, <1>2 DEF SoundInv
  <1>4. "duplicate" \notin faults' /\ "repeat" \notin faults' /\ "expired" \notin faults'
    BY DEF NoSlip
  <1>5. CASE Serve
    BY <1>3, <1>5, LoadServed DEF Serve, clientVars
  <1>6. CASE OpenChat
    <2>1. faults' \subseteq {"fivexx"}
      BY <1>3, <1>4, <1>6 DEF OpenChat
    <2>2. /\ \A kind : ~Answered(kind) /\ ~Answered(kind)'
          /\ call' = Nothing
      BY <1>6 DEF OpenChat, Answered
    <2> QED BY <1>3, <1>6, <2>1, <2>2, LoadKept DEF OpenChat, engineVars
  <1>7. CASE Send
    <2>1. call = Nothing /\ UNCHANGED <<at, contexts, late, faults>>
      BY <1>7 DEF Send, engineVars, clientVars
    <2>2. call'.do \notin {"answered", "failed"}
      <3>1. ASSUME chats = <<>>, ~Ended, call' = Scripted
            PROVE  call'.do \notin {"answered", "failed"}
        <4>1. at \in 1 .. Len(Script)
          BY <3>1, ScriptShape DEF Ended, TypeInv, ClientType
        <4> QED BY <3>1, <4>1, ScriptedFacts
      <3> QED BY <1>7, <3>1 DEF Send, ReplyOf
    <2>3. \A kind : ~Answered(kind) /\ ~Answered(kind)'
      BY <2>1, <2>2 DEF Answered
    <2> QED BY <1>3, <2>1, <2>2, <2>3, LoadKept
  <1>8. CASE Receive
    <2>1. LoadInv' /\ Complaints = {}
      BY <1>3, <1>8, LoadReceived
    <2> QED BY <1>3, <1>8, <2>1 DEF Receive
  <1>9. CASE ReceiveReply
    <2>1. faults' \subseteq {"fivexx"}
      BY <1>3, <1>4, <1>9 DEF ReceiveReply
    <2>2. /\ \A kind \in {"push", "health", "teardown"} : ~Answered(kind) /\ ~Answered(kind)'
          /\ call' = Nothing
      BY <1>9 DEF ReceiveReply, Answered
    <2> QED BY <1>3, <1>9, <2>1, <2>2, LoadKept DEF ReceiveReply, engineVars
  <1>10. CASE Finished \/ UNCHANGED vars
    <2>1. UNCHANGED <<at, contexts, late, faults, call>>
      BY <1>10 DEF Finished, vars, engineVars, clientVars
    <2>2. Loaded' = Loaded /\ \A kind : Answered(kind)' = Answered(kind)
      BY <2>1 DEF Loaded, Stored, Answered
    <2>3. LoadInv'
      BY <1>3, <2>1, <2>2 DEF LoadInv, Stored
    <2> QED BY <1>3, <2>1, <2>3
  <1>11. CASE ReceiveError
    <2>1. LoadInv' /\ faults' = faults \cup {"fivexx"}
      BY <1>3, <1>11, LoadError
    <2> QED BY <1>3, <1>11, <2>1 DEF ReceiveError
  <1> QED BY <1>2, <1>5, <1>6, <1>7, <1>8, <1>9, <1>10, <1>11 DEF Next

LEMMA SoundInit == Init => SoundInv
  <1>1. SUFFICES ASSUME Init PROVE LoadInv
    BY DEF Init, SoundInv
  <1>2. /\ Warm \in Nat /\ Warm >= 1 /\ Len(Script) \in Nat /\ Warm <= Len(Script) - 2
    BY ScriptShape, LenProperties
  <1>3. Loaded = {}
    BY <1>1 DEF Init, Loaded, Stored
  <1>4. /\ \A kind : ~Answered(kind)
        /\ call = Nothing
    BY <1>1 DEF Init, Answered
  <1>5. at = 1
    BY <1>1 DEF Init
  <1>6. Pushed(at - 3) = {}
    BY <1>5, PushedFacts
  <1> QED BY <1>2, <1>3, <1>4, <1>5, <1>6 DEF LoadInv

\* While every request is answered, whatever raises: what is loaded is what the script says,
\* and the answers that are not a 500 are those the client looks for (push_context, healthz,
\* teardown).
THEOREM SoundInvariant == Spec => []SoundInv
  <1>1. TypeInv /\ PlaceInv /\ NoSlip' /\ SoundInv /\ [Next]_vars => SoundInv'
    BY SoundNext
  <1> QED BY <1>1, SoundInit, PlaceInvariant, NoSlipEver, PTL DEF Spec

\* FailsOnlyByErrors: when every request is answered, no 500 and nothing that a 500 leaves
\* behind makes a later check of the client's fail, for any dataset, personas, number of
\* ticks and of handlers that raise (the tick that raises keeps its claims, app.py).
THEOREM OnlyErrors == Spec => []FailsOnlyByErrors
  <1>1. SoundInv => FailsOnlyByErrors
    BY DEF SoundInv, FailsOnlyByErrors
  <1> QED BY <1>1, SoundInvariant, PTL

\* What the client knows of a conversation, or is about to, or lost with a 500.
Known(g) ==
    \/ g \in logged
    \/ g \in lost
    \/ \E i \in DOMAIN chats : chats[i].conv = g
    \/ /\ call # Nothing /\ call.do = "tick"
       /\ g \in Elements(call.actions) \/ (AtStep(call, "compose") /\ g = Head(call.rest))
    \/ call # Nothing /\ call.do = "answered" /\ call.to.do = "tick"
          /\ g \in Elements(call.with)

LEMMA AppendElements ==
    ASSUME NEW s \in Seq(Triggers), NEW x \in Triggers
    PROVE  Elements(s) \subseteq Elements(Append(s, x)) /\ x \in Elements(Append(s, x))
  <1>1. /\ Len(s) \in Nat /\ DOMAIN s = 1 .. Len(s)
        /\ DOMAIN Append(s, x) = 1 .. Len(s) + 1
        /\ \A i \in 1 .. Len(s) : Append(s, x)[i] = s[i]
        /\ Append(s, x)[Len(s) + 1] = x
    BY LenProperties, AppendProperties
  <1>2. \A i \in DOMAIN s : i \in DOMAIN Append(s, x) /\ s[i] = Append(s, x)[i]
    BY <1>1
  <1>3. Len(s) + 1 \in DOMAIN Append(s, x)
    BY <1>1
  <1> QED BY <1>1, <1>2, <1>3 DEF Elements

LEMMA KnownServed ==
    ASSUME TypeInv, late = {}, Serve, NEW g \in Triggers, convs'[g] # Nothing,
           convs[g] # Nothing => Known(g)
    PROVE  Known(g)'
  <1>1. PICK r \in InService : ServeOne(r)
    BY ServeIsOne
  <1>2. /\ r = call /\ call # Nothing /\ ~Done /\ r \in Request /\ call' # Nothing
        /\ logged' = logged /\ chats' = chats
        /\ convs \in [Triggers -> Conversation \cup {Nothing}]
    BY <1>1, OnlyCall, InServiceType DEF Serve, clientVars, TypeInv, EngineType
  <1>3. convs[g] # Nothing =>
           \/ g \in logged \/ g \in lost
           \/ \E i \in DOMAIN chats : chats[i].conv = g
           \/ r.do = "tick" /\ g \in Elements(r.actions)
           \/ AtStep(r, "compose") /\ g = Head(r.rest)
    BY <1>2 DEF Known, Done
  <1>4. CASE Moves(r)
    <2>1. PICK q \in Request : Becomes(r, q) /\ Moved(r, q)
      BY <1>4, MoveEffect
    <2>2. call' = q /\ q.do = "tick" /\ r.do = "tick" /\ r.rest # <<>>
      BY <1>1, <1>2, <2>1, OnlyCall DEF Becomes, Moved
    <2>3. lost' = lost
      BY <1>4 DEF Moves, Test, Claim, Open, Unclaim, served
    <2>4. Head(r.rest) \in Triggers /\ r.actions \in Seq(Triggers)
      BY <1>2, <1>4, <2>2, MoveEffect, RequestFields
    <2>5. \/ g \in Elements(q.actions) \/ (AtStep(q, "compose") /\ g = Head(q.rest))
          \/ g \in logged \/ g \in lost
          \/ \E i \in DOMAIN chats : chats[i].conv = g
      <3>1. CASE r.step \in {"test", "claim"} /\ convs' = convs /\ q.actions = r.actions
        BY <1>3, <3>1 DEF AtStep
      <3>2. CASE /\ r.step = "claim" /\ q.rest = r.rest /\ q.step = "compose"
                 /\ q.actions = r.actions /\ convs' = [convs EXCEPT ![Head(r.rest)] = Fresh]
        <4>1. CASE g = Head(r.rest)
          BY <2>2, <3>2, <4>1 DEF AtStep
        <4>2. CASE g # Head(r.rest)
          BY <1>2, <1>3, <2>4, <3>2, <4>2 DEF AtStep
        <4> QED BY <4>1, <4>2
      <3>3. CASE q.actions = Append(r.actions, Head(r.rest)) /\ convs' = convs
        <4>1. Elements(r.actions) \subseteq Elements(q.actions) /\ Head(r.rest) \in Elements(q.actions)
          BY <2>4, <3>3, AppendElements
        <4> QED BY <1>3, <3>3, <4>1
      <3>4. CASE q.actions = r.actions /\ convs' = [convs EXCEPT ![Head(r.rest)] = Nothing]
        <4>1. g # Head(r.rest) /\ convs'[g] = convs[g]
          BY <1>2, <2>4, <3>4
        <4> QED BY <1>3, <3>4, <4>1
      <3> QED BY <2>1, <3>1, <3>2, <3>3, <3>4 DEF Moved
    <2> QED BY <1>2, <2>2, <2>3, <2>5 DEF Known
  <1>5. CASE ~Moves(r)
    <2>1. ASSUME convs[g] # Nothing, r.do # "tick", lost \subseteq lost'
          PROVE  Known(g)'
      BY <1>2, <1>3, <2>1 DEF Known, AtStep
    <2>2. CASE ServeReply(r)
      <3>1. r.do = "reply" /\ lost' = lost
        BY <2>2 DEF ServeReply
      <3>2. r.conv \in Triggers
        BY <1>2, <3>1, RequestFields
      <3>3. convs[g] # Nothing
        <4>1. PICK d : /\ convs' = [convs EXCEPT ![r.conv] = d]
                       /\ convs[r.conv] = Nothing => d = Nothing
          BY <2>2, ReplyEffect
        <4> QED BY <1>2, <3>2, <4>1
      <3> QED BY <2>1, <3>1, <3>3
    <2>3. ~ServeTeardown(r)
      BY DEF ServeTeardown
    <2>4. CASE ServeTick(r)
      <3>1. r.rest = <<>> /\ convs' = convs /\ lost' = lost /\ Answer(r, r.actions) /\ r.do = "tick"
        BY <2>4 DEF ServeTick, engineVars, served
      <3>2. call' = [do |-> "answered", to |-> r, with |-> r.actions]
        BY <1>1, <3>1, OnlyCall
      <3> QED BY <1>2, <1>3, <3>1, <3>2 DEF Known, AtStep
    <2>5. CASE TestRaises(r)
      <3>1. /\ convs' = convs /\ lost' = lost \cup Elements(r.actions)
            /\ ~AtStep(r, "compose")
        BY <2>5 DEF TestRaises, engineVars, AtStep
      <3> QED BY <1>2, <1>3, <3>1 DEF Known
    <2>6. CASE OpenRaises(r)
      <3>1. convs' = convs /\ lost' = lost \cup Elements(r.actions) \cup {Head(r.rest)}
        BY <2>6 DEF OpenRaises, engineVars
      <3> QED BY <1>2, <1>3, <3>1 DEF Known
    <2>7. CASE ServePush(r) \/ ServeHealth(r) \/ HealthRaises(r) \/ ServeStateless(r)
      <3>1. r.do # "tick" /\ convs' = convs /\ lost' = lost
        BY <2>7 DEF ServePush, ServeHealth, HealthRaises, ServeStateless, engineVars, served
      <3> QED BY <2>1, <3>1
    <2> QED BY <1>1, <1>5, <2>2, <2>3, <2>4, <2>5, <2>6, <2>7 DEF ServeOne, Raises
  <1> QED BY <1>4, <1>5

\* A conversation leaves what is to be played only when it has been opened.
LEMMA KnownTail ==
    ASSUME TypeInv, NEW g, chats # <<>>, Head(chats).conv \in logged,
           logged' = logged, lost' = lost, chats' = Tail(chats),
           g \in logged \cup lost \/ \E i \in DOMAIN chats : chats[i].conv = g
    PROVE  Known(g)'
  <1>1. CASE g \in logged \cup lost
    BY <1>1 DEF Known
  <1>2. ASSUME NEW i \in DOMAIN chats, chats[i].conv = g, g \notin logged
        PROVE  Known(g)'
    <2>1. i \in 1 .. Len(chats) /\ Len(chats) \in Nat /\ Head(chats) = chats[1]
      BY <1>2, ChatsFacts
    <2>2. i # 1
      BY <1>2, <2>1
    <2>3. i - 1 \in 1 .. Len(chats')
      BY <2>1, <2>2, ChatsTail
    <2>4. chats'[i - 1] = chats[i - 1 + 1] /\ i - 1 \in DOMAIN chats' /\ i - 1 + 1 = i
      BY <2>1, <2>3, ChatsTail
    <2> QED BY <1>2, <2>4 DEF Known
  <1> QED BY <1>1, <1>2

LEMMA KnownPut ==
    ASSUME TypeInv, NEW g, NEW y \in Chats, chats # <<>>, y.conv = Head(chats).conv,
           logged \subseteq logged', lost' = lost, chats' = [chats EXCEPT ![1] = y],
           g \in logged \cup lost \/ \E i \in DOMAIN chats : chats[i].conv = g
    PROVE  Known(g)'
  <1>1. CASE g \in logged \cup lost
    BY <1>1 DEF Known
  <1>2. ASSUME NEW i \in DOMAIN chats, chats[i].conv = g
        PROVE  Known(g)'
    <2>1. Head(chats) = chats[1] /\ DOMAIN chats' = DOMAIN chats
      BY ChatsFacts
    <2>2. chats'[i].conv = g
      BY <1>2, <2>1
    <2> QED BY <2>1, <2>2 DEF Known
  <1> QED BY <1>1, <1>2

LEMMA KnownNext ==
    ASSUME TypeInv, PlaceInv, Unwiped => PlayInv, SoundInv, EverySendIsHeard, [Next]_vars
    PROVE  EverySendIsHeard'
  <1>1. SUFFICES ASSUME failures' = 0, NEW g \in Triggers, convs'[g] # Nothing
                 PROVE  Known(g)'
    BY DEF EverySendIsHeard, Known
  <1>2. ~Fail /\ failures = 0
    <2>1. ~Fail
      BY <1>1 DEF Fail, TypeInv, ClientType
    <2> QED BY <1>1, <2>1 DEF Next, Serve, OpenChat, Send, Receive, ReceiveReply, ReceiveError, Finished,
                              vars, clientVars
  <1>3. convs[g] # Nothing => Known(g)
    BY <1>2 DEF EverySendIsHeard, Known
  <1>4. CASE Serve
    BY <1>1, <1>2, <1>3, <1>4, KnownServed DEF SoundInv
  <1>5. CASE OpenChat
    <2>1. convs' = convs /\ lost' = lost /\ call = Nothing /\ logged \subseteq logged'
      BY <1>5 DEF OpenChat, engineVars, served
    <2>2. g \in logged \cup lost \/ \E i \in DOMAIN chats : chats[i].conv = g
      BY <1>1, <1>3, <2>1 DEF Known
    <2> QED BY <1>5, <2>1, <2>2, OpenEffect, KnownPut
  <1>6. CASE Send
    <2>1. convs' = convs /\ lost' = lost /\ call = Nothing /\ logged' = logged /\ chats' = chats
      BY <1>6 DEF Send, engineVars, served, clientVars
    <2> QED BY <1>1, <1>3, <2>1 DEF Known
  <1>7. CASE Receive
    <2>1. /\ call # Nothing /\ call.do = "answered" /\ ~InLoop /\ Asked = call.to
          /\ lost' = lost /\ convs' = convs /\ logged' = logged
          /\ chats' = IF call.to.do = "tick" /\ call.to.now # FarFuture
                      THEN [i \in DOMAIN call.with |-> Chat(call.with[i])] ELSE <<>>
      BY <1>7 DEF Receive, Answered, InLoop, Asked, Done, engineVars, served
    <2>2. chats = <<>>
      BY <2>1 DEF PlaceInv
    <2>3. g \in logged \cup lost \/ (call.to.do = "tick" /\ g \in Elements(call.with))
      BY <1>1, <1>3, <2>1, <2>2 DEF Known
    <2>4. ASSUME call.to.do = "tick", g \in Elements(call.with)
          PROVE  Known(g)'
      <3>1. PICK i \in DOMAIN call.with : g = call.with[i]
        BY <2>4 DEF Elements
      <3>2. call.to.now # FarFuture
        BY <2>1, <2>4, <3>1 DEF PlaceInv, FarTick, Answered
      <3>3. i \in DOMAIN chats' /\ chats'[i].conv = g
        BY <2>1, <2>4, <3>1, <3>2 DEF Chat
      <3> QED BY <3>3 DEF Known
    <2> QED BY <2>1, <2>3, <2>4 DEF Known
  <1>8. CASE ReceiveReply
    <2>1. /\ Playing /\ chats # <<>> /\ PlayInv
          /\ call # Nothing /\ call.do = "answered" /\ call.to.do = "reply"
          /\ lost' = lost /\ convs' = convs /\ logged' = logged
          /\ chats' \in {Tail(chats), NextTurn}
      BY <1>8, PlaceFacts DEF ReceiveReply, Answered, Playing, engineVars, served
    <2>2. Head(chats).conv \in logged
      BY <2>1 DEF PlayInv, LoopInv
    <2>3. g \in logged \cup lost \/ \E i \in DOMAIN chats : chats[i].conv = g
      BY <1>1, <1>3, <2>1 DEF Known
    <2>4. CASE chats' = Tail(chats)
      BY <2>1, <2>2, <2>3, <2>4, KnownTail
    <2>5. CASE chats' = NextTurn /\ NextTurn # Tail(chats)
      <3>1. PICK y \in Chats : y.conv = Head(chats).conv /\ NextTurn = [chats EXCEPT ![1] = y]
        BY <2>1, <2>5, NextTurnEffect
      <3> QED BY <2>1, <2>3, <2>5, <3>1, KnownPut
    <2> QED BY <2>1, <2>4, <2>5
  <1>9. CASE Finished \/ UNCHANGED vars
    <2>1. UNCHANGED <<convs, lost, call, logged, chats>>
      BY <1>9 DEF Finished, vars, engineVars, served, clientVars
    <2> QED BY <1>1, <1>3, <2>1 DEF Known
  <1>10. CASE ReceiveError
    <2>1. call.do = "failed" /\ UNCHANGED <<convs, lost, logged, chats>>
      BY <1>10 DEF ReceiveError, engineVars, served
    <2>2. call.do \notin {"tick", "answered"}
      BY <2>1
    <2> QED BY <1>1, <1>3, <2>1, <2>2 DEF Known
  <1> QED BY <1>2, <1>4, <1>5, <1>6, <1>7, <1>8, <1>9, <1>10 DEF Next

\* EverySendIsHeard: while every request is answered, a conversation the engine has open is
\* one the client has heard of or is about to, or one that a tick had claimed or collected
\* when it raised, for any dataset, personas, number of ticks and of handlers that raise
\* (try_reserve, release).
THEOREM AllIsHeard == Spec => []EverySendIsHeard
  <1>1. Init => EverySendIsHeard
    BY DEF Init, EverySendIsHeard
  <1>2. TypeInv /\ PlaceInv /\ (Unwiped => PlayInv) /\ SoundInv /\ EverySendIsHeard /\ [Next]_vars
           => EverySendIsHeard'
    BY KnownNext
  <1> QED BY <1>1, <1>2, PlayInvariant, SoundInvariant, PTL DEF Spec
===============================================================================
