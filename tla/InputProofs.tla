---------------------------- MODULE InputProofs ----------------------------
(***************************************************************************)
(* Proofs about InputBuffer and GameInput for every set of keys, every     *)
(* capacity and time limit and every length of a session.                  *)
(*                                                                         *)
(* For the buffer the argument is the inductive invariant InputIInv: an    *)
(* armed buffer holds the changes the game has yet to see, in order, the   *)
(* newest of them being the live state.  GameIInv adds what each page of   *)
(* the loop knows about the keys that were down before it looked, and that *)
(* a buffer armed while the game runs has seen every key a page took go    *)
(* up.                                                                     *)
(***************************************************************************)
EXTENDS GameInput, TLAPS

Entry == [keys : SUBSET Buttons, at : Nat, n : Nat]

(* The invariant holds when the program starts.                            *)
LEMMA InputInitIInv == InputInit => InputIInv
<1> SUFFICES ASSUME InputInit PROVE InputIInv
  OBVIOUS
<1> USE InputBufferAssumption
<1>1. InputTypeOK
  <2>1. sample \in Samples
    BY DEF InputInit, Samples
  <2>2. played \in [connected : BOOLEAN, keys : SUBSET Buttons]
    BY DEF InputInit, Played, Gone
  <2>3. events \in Seq(Entry) /\ Len(events) <= Capacity
    BY DEF InputInit
  <2>4. releasedAt \in [Buttons -> Nat]
    BY DEF InputInit
  <2> QED BY <2>1, <2>2, <2>3, <2>4 DEF InputInit, InputTypeOK, Entry
<1>2. Armed /\ OnlyWhenArmed /\ LastIsLive /\ Consecutive /\ Counted /\ Waiting
  BY DEF InputInit, Armed, OnlyWhenArmed, LastIsLive, Consecutive, Counted, Waiting
<1> QED BY <1>1, <1>2 DEF InputIInv

(* The fields of a sample: without a controller no key is down.            *)
LEMMA SampleFields ==
  ASSUME NEW p \in Samples
  PROVE  /\ p.connected \in BOOLEAN /\ p.keys \in SUBSET Buttons
         /\ ~p.connected => p.keys = {}
<1>1. CASE p \in [connected : {TRUE}, keys : SUBSET Buttons, other : BOOLEAN]
  BY <1>1
<1>2. CASE p = Gone
  <2>1. p.connected = FALSE /\ p.keys = {}
    BY <1>2 DEF Gone
  <2> QED BY <2>1
<1> QED BY <1>1, <1>2 DEF Samples

(* A waiting state is one.                                                 *)
LEMMA EntryFields ==
  ASSUME InputTypeOK, NEW i \in 1 .. Len(events)
  PROVE  /\ events[i] \in Entry
         /\ events[i].keys \in SUBSET Buttons
         /\ events[i].at \in Nat /\ events[i].n \in Nat
<1>1. events \in Seq(Entry)
  BY DEF InputTypeOK, Entry
<1>2. events[i] \in Entry
  BY <1>1
<1> QED BY <1>2 DEF Entry

(* Emptying the ring, whatever else happens, leaves a well-formed ring.    *)
LEMMA EmptyRing ==
  ASSUME events' = <<>>
  PROVE  /\ events' \in Seq(Entry) /\ Len(events') = 0 /\ Len(events') <= Capacity
         /\ OnlyWhenArmed' /\ LastIsLive' /\ Waiting'
BY InputBufferAssumption DEF OnlyWhenArmed, LastIsLive, Waiting

(* What a report leaves of the controller's own state and of the history.  *)
LEMMA ReportTypes ==
  ASSUME InputTypeOK, NEW p \in Samples, Report(p)
  PROVE  /\ now' \in Nat /\ sample' \in Samples /\ enabled' \in BOOLEAN
         /\ reported' \in Nat
         /\ played' \in [connected : BOOLEAN, keys : SUBSET Buttons]
         /\ changes' \in Nat /\ changes' \in {changes, changes + 1}
         /\ wentDown' \in SUBSET Buttons
         /\ releasedAt' \in [Buttons -> Nat]
<1>1. /\ p.keys \in SUBSET Buttons /\ sample.keys \in SUBSET Buttons
      /\ now \in Nat /\ changes \in Nat /\ releasedAt \in [Buttons -> Nat]
  BY SampleFields DEF InputTypeOK
<1>2. sample' = p /\ now' = now /\ enabled' = enabled /\ reported' = reported /\ played' = played
  BY DEF Report
<1>3. changes' \in Nat /\ changes' \in {changes, changes + 1}
  BY <1>1 DEF Report
<1>4. wentDown' \in SUBSET Buttons
  BY <1>1 DEF Report, InputTypeOK
<1>5. releasedAt' \in [Buttons -> Nat]
  BY <1>1 DEF Report
<1> QED BY <1>2, <1>3, <1>4, <1>5 DEF InputTypeOK

(* When a report leaves the ring alone, the waiting states stay accounted  *)
(* for: a key that goes up now goes up after each of them.                 *)
LEMMA WaitingKept ==
  ASSUME InputTypeOK, Waiting, NEW p \in Samples, Report(p), p.connected,
         NEW i \in 1 .. Len(events)
  PROVE  /\ events[i].at <= now'
         /\ events[i].keys \subseteq wentDown'
         /\ \A k \in events[i].keys \ sample'.keys : events[i].at <= releasedAt'[k]
<1>1. /\ now' = now /\ wentDown \subseteq wentDown' /\ sample' = p
      /\ releasedAt' = [k \in Buttons |->
                         IF k \in sample.keys \ p.keys THEN now ELSE releasedAt[k]]
  BY DEF Report
<1>2. events[i].keys \subseteq Buttons
  BY EntryFields
<1>3. /\ events[i].at <= now /\ events[i].keys \subseteq wentDown
      /\ \A k \in events[i].keys \ sample.keys : events[i].at <= releasedAt[k]
  BY DEF Waiting
<1>4. ASSUME NEW k \in events[i].keys \ sample'.keys
      PROVE  events[i].at <= releasedAt'[k]
  <2>1. k \in Buttons /\ k \notin p.keys
    BY <1>1, <1>2
  <2>2. CASE k \in sample.keys
    BY <1>1, <1>3, <2>1, <2>2
  <2>3. CASE k \notin sample.keys
    BY <1>1, <1>3, <2>1, <2>3
  <2> QED BY <2>2, <2>3
<1> QED BY <1>1, <1>3, <1>4

(* A report that empties the ring or finds the buffer unarmed keeps the    *)
(* invariant.                                                              *)
LEMMA ClearedIInv ==
  ASSUME InputIInv, NEW p \in Samples, Report(p), PushCleared(p)
  PROVE  InputIInv'
<1>1. events' = <<>> /\ armed' = FALSE /\ seen' = changes' /\ dropped' = dropped
  BY DEF PushCleared
<1>2. /\ events' \in Seq(Entry) /\ Len(events') <= Capacity
      /\ OnlyWhenArmed' /\ LastIsLive' /\ Waiting'
  BY <1>1, EmptyRing
<1>3. InputTypeOK'
  BY <1>1, <1>2, ReportTypes DEF InputTypeOK, InputIInv, Entry
<1>4. Armed' /\ Consecutive' /\ Counted'
  BY <1>1, <1>3 DEF Armed, Consecutive, Counted, InputTypeOK, InputIInv, Report
<1> QED BY <1>2, <1>3, <1>4 DEF InputIInv

LEMMA UnarmedIInv ==
  ASSUME InputIInv, NEW p \in Samples, Report(p), PushUnarmed(p)
  PROVE  InputIInv'
<1>1. /\ armed' = released(p) /\ seen' = changes' /\ dropped' = dropped
      /\ events' = events /\ ~armed /\ enabled /\ p.connected
  BY DEF PushUnarmed
<1>2. events' = <<>>
  BY <1>1 DEF InputIInv, OnlyWhenArmed
<1>3. /\ events' \in Seq(Entry) /\ Len(events') = 0 /\ Len(events') <= Capacity
      /\ OnlyWhenArmed' /\ LastIsLive' /\ Waiting'
  BY <1>2, EmptyRing
<1>4. armed' \in BOOLEAN
  BY <1>1 DEF released
<1>5. InputTypeOK'
  BY <1>1, <1>3, <1>4, ReportTypes DEF InputTypeOK, InputIInv, Entry
<1>6. Armed'
  BY <1>1 DEF Armed, released, Report
<1>7. Consecutive' /\ Counted'
  BY <1>1, <1>2, <1>3, <1>5 DEF Consecutive, Counted, InputTypeOK, InputIInv, Report
<1> QED BY <1>3, <1>5, <1>6, <1>7 DEF InputIInv

(* A report with the keys unchanged, or one the ring takes, keeps the      *)
(* invariant: the newest waiting state is the live one.                    *)
LEMMA SameIInv ==
  ASSUME InputIInv, NEW p \in Samples, Report(p), PushSame(p)
  PROVE  InputIInv'
<1>1. /\ p.connected /\ enabled /\ armed /\ p.keys = sample.keys
      /\ events' = events /\ armed' = armed /\ dropped' = dropped /\ seen' = seen
      /\ sample' = p /\ enabled' = enabled /\ reported' = reported
  BY DEF PushSame, Report
<1>2. sample.connected
  BY <1>1 DEF InputIInv, Armed
<1>3. changes' = changes
  BY <1>1, <1>2, SampleFields DEF Report, Played, InputIInv, InputTypeOK
<1>4. InputTypeOK'
  BY <1>1, ReportTypes DEF InputTypeOK, InputIInv, Entry
<1>5. wentDown \subseteq wentDown'
  BY <1>1 DEF Report
<1>6. Armed' /\ OnlyWhenArmed' /\ LastIsLive' /\ Consecutive' /\ Counted'
  BY <1>1, <1>3, <1>5
     DEF InputIInv, Armed, OnlyWhenArmed, LastIsLive, Consecutive, Counted
<1>7. Waiting'
  BY <1>1, WaitingKept DEF InputIInv, Waiting
<1> QED BY <1>4, <1>6, <1>7 DEF InputIInv

(* The ring after a change of keys: a new last entry, the newest of the    *)
(* changes, after the entries that were there or none.                     *)
LEMMA QueuedRing ==
  ASSUME InputIInv, NEW p \in Samples, Report(p), PushQueued(p)
  PROVE  /\ events' \in Seq(Entry) /\ Len(events') \in 1 .. Capacity
         /\ events'[Len(events')] = Event(p)
         /\ \A i \in 1 .. Len(events') - 1 : i \in 1 .. Len(events) /\ events'[i] = events[i]
         /\ \/ Len(events') = Len(events) + 1 /\ dropped' = dropped
            \/ Len(events') = 1 /\ dropped' = dropped + Len(events) /\ Len(events) > 0
<1>1. /\ events \in Seq(Entry) /\ Len(events) \in Nat /\ Len(events) <= Capacity
      /\ Capacity \in Nat \ {0}
  BY InputBufferAssumption DEF InputIInv, InputTypeOK, Entry
<1>2. Event(p) \in Entry
  BY SampleFields DEF Event, Entry, InputIInv, InputTypeOK
<1>3. CASE Len(events) = Capacity
  <2>1. events' = <<Event(p)>> /\ dropped' = dropped + Len(events)
    BY <1>3 DEF PushQueued
  <2>2. /\ events' \in Seq(Entry) /\ Len(events') = 1 /\ events'[1] = Event(p)
    BY <1>2, <2>1
  <2> QED BY <1>1, <1>3, <2>1, <2>2
<1>4. CASE Len(events) # Capacity
  <2>1. events' = Append(events, Event(p)) /\ dropped' = dropped
    BY <1>4 DEF PushQueued
  <2>2. /\ events' \in Seq(Entry) /\ Len(events') = Len(events) + 1
        /\ events'[Len(events) + 1] = Event(p)
        /\ \A i \in 1 .. Len(events) : events'[i] = events[i]
    BY <1>1, <1>2, <2>1
  <2> QED BY <1>1, <1>4, <2>1, <2>2
<1> QED BY <1>3, <1>4

(* A change the ring takes keeps the invariant.                            *)
LEMMA QueuedIInv ==
  ASSUME InputIInv, NEW p \in Samples, Report(p), PushQueued(p)
  PROVE  InputIInv'
<1>1. /\ p.connected /\ enabled /\ armed /\ p.keys # sample.keys
      /\ armed' = armed /\ seen' = seen
      /\ sample' = p /\ enabled' = enabled /\ reported' = reported /\ now' = now
      /\ wentDown' = wentDown \union (p.keys \ sample.keys)
  BY DEF PushQueued, Report
<1>2. changes' = changes + 1
  BY <1>1 DEF Report, Played
<1>3. /\ events' \in Seq(Entry) /\ Len(events') \in 1 .. Capacity
      /\ events'[Len(events')] = Event(p)
      /\ \A i \in 1 .. Len(events') - 1 : i \in 1 .. Len(events) /\ events'[i] = events[i]
      /\ \/ Len(events') = Len(events) + 1 /\ dropped' = dropped
         \/ Len(events') = 1 /\ dropped' = dropped + Len(events) /\ Len(events) > 0
  BY QueuedRing
<1>4. Len(events) \in Nat /\ Capacity \in Nat
  BY InputBufferAssumption DEF InputIInv, InputTypeOK
<1>5. InputTypeOK'
  <2>1. dropped' \in Nat
    BY <1>3, <1>4 DEF InputIInv, InputTypeOK
  <2> QED BY <1>1, <1>3, <1>4, <2>1, ReportTypes DEF InputTypeOK, InputIInv, Entry
<1>6. p.keys \subseteq wentDown'
  BY <1>1 DEF InputIInv, Armed
<1>7. Armed' /\ OnlyWhenArmed' /\ LastIsLive'
  BY <1>1, <1>3, <1>6 DEF Armed, OnlyWhenArmed, LastIsLive, Event
<1>8. Consecutive'
  <2>1. /\ changes \in Nat /\ seen \in Nat /\ dropped \in Nat /\ reported \in Nat
        /\ reported <= dropped /\ seen <= changes
    BY DEF InputIInv, InputTypeOK, Counted
  <2>2. /\ \A i \in 1 .. Len(events) : events[i].n = changes - Len(events) + i
        /\ seen <= changes - Len(events)
        /\ seen = changes - Len(events) \/ reported < dropped
    BY <1>1 DEF InputIInv, Consecutive
  <2>3. events'[Len(events')].n = changes'
    BY <1>2, <1>3 DEF Event
  <2>4. ASSUME NEW i \in 1 .. Len(events')
        PROVE  events'[i].n = changes' - Len(events') + i
    <3>1. CASE i = Len(events')
      BY <1>2, <2>1, <2>3, <3>1
    <3>2. CASE i # Len(events')
      <4>1. i \in 1 .. Len(events') - 1 /\ Len(events') # 1
        BY <1>3, <3>2
      <4>2. Len(events') = Len(events) + 1 /\ events'[i] = events[i] /\ i \in 1 .. Len(events)
        BY <1>3, <4>1
      <4> QED BY <1>2, <1>4, <2>1, <2>2, <4>2
    <3> QED BY <3>1, <3>2
  <2>5. /\ seen' <= changes' - Len(events')
        /\ seen' = changes' - Len(events') \/ reported' < dropped'
    <3>1. CASE Len(events') = Len(events) + 1 /\ dropped' = dropped
      <4>1. seen' = seen /\ reported' = reported
        BY <1>1
      <4> QED BY <1>2, <1>4, <2>1, <2>2, <3>1, <4>1
    <3>2. CASE Len(events') = 1 /\ dropped' = dropped + Len(events) /\ Len(events) > 0
      <4>1. seen' = seen /\ reported' = reported
        BY <1>1
      <4>2. seen' <= changes' - Len(events')
        BY <1>2, <1>4, <2>1, <2>2, <3>2, <4>1
      <4>3. reported' < dropped'
        BY <1>4, <2>1, <3>2, <4>1
      <4> QED BY <4>2, <4>3
    <3> QED BY <1>3, <3>1, <3>2
  <2> QED BY <2>4, <2>5 DEF Consecutive
<1>9. Counted'
  BY <1>1, <1>2, <1>3, <1>4 DEF InputIInv, InputTypeOK, Counted
<1>10. Waiting'
  <2>1. ASSUME NEW i \in 1 .. Len(events')
        PROVE  /\ events'[i].at <= now'
               /\ events'[i].keys \subseteq wentDown'
               /\ \A k \in events'[i].keys \ sample'.keys : events'[i].at <= releasedAt'[k]
    <3>1. CASE i = Len(events')
      <4>1. events'[i].at = now /\ events'[i].keys = p.keys /\ now \in Nat
        BY <1>3, <3>1 DEF Event, InputIInv, InputTypeOK
      <4> QED BY <1>1, <1>6, <4>1
    <3>2. CASE i # Len(events')
      <4>1. i \in 1 .. Len(events) /\ events'[i] = events[i]
        BY <1>3, <3>2
      <4> QED BY <1>1, <4>1, WaitingKept DEF InputIInv
    <3> QED BY <3>1, <3>2
  <2> QED BY <2>1 DEF Waiting
<1> QED BY <1>5, <1>7, <1>8, <1>9, <1>10 DEF InputIInv

(* Switching gameplay empties the ring and waits for a release.            *)
LEMMA SwitchIInv ==
  ASSUME InputIInv, NEW on \in BOOLEAN, SetGameplay(on)
  PROVE  InputIInv'
<1>1. /\ events' = <<>> /\ enabled' = on /\ armed' = (on /\ released(sample))
      /\ seen' = changes /\ wentDown' = {}
      /\ UNCHANGED <<now, sample, dropped, reported, played, changes, releasedAt>>
  BY DEF SetGameplay
<1>2. /\ events' \in Seq(Entry) /\ Len(events') = 0 /\ Len(events') <= Capacity
      /\ OnlyWhenArmed' /\ LastIsLive' /\ Waiting'
  BY <1>1, EmptyRing
<1>3. armed' \in BOOLEAN
  BY <1>1 DEF released
<1>4. InputTypeOK'
  BY <1>1, <1>2, <1>3 DEF InputTypeOK, InputIInv, Entry
<1>5. Armed'
  BY <1>1 DEF Armed, released
<1>6. Consecutive' /\ Counted'
  BY <1>1, <1>2 DEF Consecutive, Counted, InputTypeOK, InputIInv
<1> QED BY <1>2, <1>4, <1>5, <1>6 DEF InputIInv

(* What the head of the ring is, and what is left behind it.               *)
LEMMA OldestRing ==
  ASSUME InputIInv, events # <<>>
  PROVE  /\ armed /\ Len(events) \in Nat \ {0} /\ 1 \in 1 .. Len(events)
         /\ Head(events) = events[1] /\ Head(events) \in Entry
         /\ Tail(events) \in Seq(Entry) /\ Len(Tail(events)) = Len(events) - 1
         /\ \A i \in 1 .. Len(events) - 1 :
              i + 1 \in 1 .. Len(events) /\ Tail(events)[i] = events[i + 1]
<1>1. events \in Seq(Entry) /\ Len(events) \in Nat /\ armed
  BY DEF InputIInv, InputTypeOK, Entry, OnlyWhenArmed
<1>2. Len(events) \in Nat \ {0} /\ 1 \in 1 .. Len(events)
  BY <1>1
<1>3. Head(events) = events[1] /\ Head(events) \in Entry
  BY <1>1, <1>2, EntryFields DEF InputIInv
<1>4. Tail(events) \in Seq(Entry) /\ Len(Tail(events)) = Len(events) - 1
  BY <1>1
<1>5. \A i \in 1 .. Len(events) - 1 :
        i + 1 \in 1 .. Len(events) /\ Tail(events)[i] = events[i + 1]
  BY <1>1
<1> QED BY <1>1, <1>2, <1>3, <1>4, <1>5

(* A frame that empties the ring, or finds nothing in it, keeps the        *)
(* invariant.                                                              *)
LEMMA EmptyTakeIInv ==
  ASSUME InputIInv, Take, TakeNothing \/ TakeStale \/ TakeLatest
  PROVE  InputIInv'
<1>1. UNCHANGED <<now, sample, enabled, armed, changes, wentDown, releasedAt>> /\ reported' = dropped'
  BY DEF Take
<1>2. events' = <<>>
  BY DEF TakeNothing, TakeStale, TakeLatest, InputIInv, Armed, OnlyWhenArmed
<1>3. /\ events' \in Seq(Entry) /\ Len(events') = 0 /\ Len(events') <= Capacity
      /\ OnlyWhenArmed' /\ LastIsLive' /\ Waiting'
  BY <1>2, EmptyRing
<1>4. dropped' \in Nat /\ (dropped' = dropped \/ dropped' = dropped + Len(events))
  <2>1. Len(events) \in Nat /\ dropped \in Nat
    BY DEF InputIInv, InputTypeOK
  <2> QED BY <2>1 DEF TakeNothing, TakeStale, TakeLatest
<1>5. played' \in [connected : BOOLEAN, keys : SUBSET Buttons]
  <2>1. sample \in Samples
    BY DEF InputIInv, InputTypeOK
  <2>2. sample.connected \in BOOLEAN /\ sample.keys \in SUBSET Buttons
    BY <2>1, SampleFields
  <2>3. played' = Silent \/ played' = Played(sample)
    BY DEF TakeNothing, TakeStale, TakeLatest
  <2> QED BY <2>2, <2>3 DEF Silent, Played
<1>6. seen' \in Nat /\ (armed => seen' = changes) /\ (~armed => seen' = seen)
  BY DEF TakeNothing, TakeStale, TakeLatest, InputIInv, InputTypeOK, Armed
<1>7. InputTypeOK'
  BY <1>1, <1>3, <1>4, <1>5, <1>6 DEF InputTypeOK, InputIInv, Entry
<1>8. Armed'
  BY <1>1 DEF Armed, InputIInv
<1>9. changes \in Nat /\ dropped' \in Nat /\ seen' \in Nat /\ seen <= changes
  BY <1>4, <1>6 DEF InputIInv, InputTypeOK, Counted
<1>10. Consecutive' /\ Counted'
  BY <1>1, <1>3, <1>6, <1>9 DEF Consecutive, Counted
<1> QED BY <1>3, <1>7, <1>8, <1>10 DEF InputIInv

(* A frame that plays the oldest change keeps the invariant.               *)
LEMMA OldestIInv ==
  ASSUME InputIInv, Take, TakeOldest
  PROVE  InputIInv'
<1>1. /\ UNCHANGED <<now, sample, enabled, armed, changes, wentDown, releasedAt>>
      /\ reported' = dropped' /\ dropped' = dropped
      /\ events # <<>> /\ armed /\ events' = Tail(events) /\ seen' = Head(events).n
      /\ played' = [connected |-> TRUE, keys |-> Head(events).keys]
  BY DEF Take, TakeOldest
<1>2. /\ Len(events) \in Nat \ {0} /\ 1 \in 1 .. Len(events)
      /\ Head(events) = events[1] /\ Head(events) \in Entry
      /\ events' \in Seq(Entry) /\ Len(events') = Len(events) - 1
      /\ \A i \in 1 .. Len(events) - 1 :
           i + 1 \in 1 .. Len(events) /\ events'[i] = events[i + 1]
  BY <1>1, OldestRing
<1>3. seen' \in Nat /\ played' \in [connected : BOOLEAN, keys : SUBSET Buttons]
  BY <1>1, <1>2, EntryFields DEF InputIInv
<1>4. InputTypeOK'
  <2>1. Len(events') <= Capacity
    BY <1>2, InputBufferAssumption DEF InputIInv, InputTypeOK
  <2> QED BY <1>1, <1>2, <1>3, <2>1 DEF InputTypeOK, InputIInv, Entry
<1>5. Armed' /\ OnlyWhenArmed'
  BY <1>1 DEF Armed, OnlyWhenArmed, InputIInv
<1>6. LastIsLive'
  <2>1. ASSUME events' # <<>>
        PROVE  events'[Len(events')].keys = sample'.keys
    <3>1. Len(events') # 0
      BY <1>2, <2>1
    <3>2. Len(events') \in 1 .. Len(events) - 1
      BY <1>2, <3>1
    <3>3. events'[Len(events')] = events[Len(events)]
      BY <1>2, <3>2
    <3> QED BY <1>1, <3>3 DEF InputIInv, LastIsLive
  <2> QED BY <2>1 DEF LastIsLive
<1>7. /\ changes \in Nat /\ dropped \in Nat /\ reported <= dropped
      /\ \A i \in 1 .. Len(events) : events[i].n = changes - Len(events) + i
  BY <1>1 DEF InputIInv, InputTypeOK, Counted, Consecutive
<1>8. seen' = changes - Len(events) + 1
  BY <1>1, <1>2, <1>7
<1>9. Consecutive'
  <2>1. ASSUME NEW i \in 1 .. Len(events')
        PROVE  events'[i].n = changes - Len(events') + i
    <3>1. i \in 1 .. Len(events) - 1
      BY <1>2
    <3>2. events'[i] = events[i + 1] /\ i + 1 \in 1 .. Len(events)
      BY <1>2, <3>1
    <3>3. events[i + 1].n = changes - Len(events) + (i + 1)
      BY <1>7, <3>2
    <3> QED BY <1>2, <1>7, <3>1, <3>2, <3>3
  <2>2. seen' = changes - Len(events')
    BY <1>2, <1>7, <1>8
  <2> QED BY <1>1, <1>2, <1>7, <2>1, <2>2 DEF Consecutive
<1>10. Counted'
  BY <1>1, <1>2, <1>7, <1>8 DEF Counted
<1>11. Waiting'
  <2>1. ASSUME NEW i \in 1 .. Len(events')
        PROVE  /\ events'[i].at <= now'
               /\ events'[i].keys \subseteq wentDown'
               /\ \A k \in events'[i].keys \ sample'.keys : events'[i].at <= releasedAt'[k]
    <3>1. events'[i] = events[i + 1] /\ i + 1 \in 1 .. Len(events)
      BY <1>2
    <3> QED BY <1>1, <3>1 DEF InputIInv, Waiting
  <2> QED BY <2>1 DEF Waiting
<1> QED BY <1>4, <1>5, <1>6, <1>9, <1>10, <1>11 DEF InputIInv

(* Time passing keeps the invariant.                                       *)
LEMMA TickIInv == ASSUME InputIInv, Tick PROVE InputIInv'
<1>1. /\ now' = now + 1 /\ now \in Nat
      /\ UNCHANGED <<sample, events, enabled, armed, dropped, reported, played>>
      /\ UNCHANGED <<changes, seen, wentDown, releasedAt>>
  BY DEF Tick, buffer, history, InputIInv, InputTypeOK
<1>2. InputTypeOK'
  BY <1>1 DEF InputTypeOK, InputIInv
<1>3. Armed' /\ OnlyWhenArmed' /\ LastIsLive' /\ Consecutive' /\ Counted'
  BY <1>1 DEF InputIInv, Armed, OnlyWhenArmed, LastIsLive, Consecutive, Counted
<1>4. Waiting'
  <2>1. ASSUME NEW i \in 1 .. Len(events)
        PROVE  /\ events[i].at <= now'
               /\ events[i].keys \subseteq wentDown
               /\ \A k \in events[i].keys \ sample.keys : events[i].at <= releasedAt[k]
    <3>1. events[i].at \in Nat
      BY EntryFields DEF InputIInv
    <3> QED BY <1>1, <3>1 DEF InputIInv, Waiting
  <2> QED BY <1>1, <2>1 DEF Waiting
<1> QED BY <1>2, <1>3, <1>4 DEF InputIInv

(* Every step keeps the invariant.                                         *)
LEMMA InputNextIInv == InputIInv /\ [InputNext]_inputVars => InputIInv'
<1> SUFFICES ASSUME InputIInv, [InputNext]_inputVars PROVE InputIInv'
  OBVIOUS
<1>1. CASE Change
  <2>1. PICK p \in Samples : Report(p)
    BY <1>1 DEF Change
  <2>2. PushCleared(p) \/ PushUnarmed(p) \/ PushSame(p) \/ PushQueued(p)
    BY <2>1 DEF Report
  <2> QED BY <2>1, <2>2, ClearedIInv, UnarmedIInv, SameIInv, QueuedIInv
<1>2. CASE \E on \in BOOLEAN : SetGameplay(on)
  BY <1>2, SwitchIInv
<1>3. CASE Take
  <2>1. TakeNothing \/ TakeStale \/ TakeLatest \/ TakeOldest
    BY <1>3 DEF Take
  <2> QED BY <1>3, <2>1, EmptyTakeIInv, OldestIInv
<1>4. CASE Tick
  BY <1>4, TickIInv
<1>5. CASE UNCHANGED inputVars
  BY <1>5 DEF inputVars, buffer, history, InputIInv, InputTypeOK, Armed, OnlyWhenArmed,
              LastIsLive, Consecutive, Counted, Waiting
<1> QED BY <1>1, <1>2, <1>3, <1>4, <1>5 DEF InputNext

(* The inductive invariant holds throughout.                               *)
THEOREM InputInvariant == InputSpec => []InputIInv
BY InputInitIInv, InputNextIInv, PTL DEF InputSpec

(* The state has its type, and the newest waiting state is always the live *)
(* one: once the emulation catches up, no key is stuck.                    *)
THEOREM NoStuckKey == InputSpec => [](InputTypeOK /\ LastIsLive)
<1>1. InputIInv => InputTypeOK /\ LastIsLive
  BY DEF InputIInv
<1> QED BY <1>1, InputInvariant, PTL

(* What the reports show as held when the game is entered or resumed does  *)
(* not reach a frame before they show it going down again.                 *)
THEOREM HeldKeysStayOut == InputSpec => OnlyNewKeysInPlay
<1>1. ASSUME InputIInv, Take PROVE played'.keys \subseteq wentDown
  <2>1. CASE TakeNothing
    BY <2>1 DEF TakeNothing, Silent
  <2>2. CASE TakeStale \/ TakeLatest
    <3>1. armed /\ played'.keys = sample.keys
      BY <2>2 DEF TakeStale, TakeLatest, Played
    <3> QED BY <1>1, <3>1 DEF InputIInv, Armed
  <2>3. CASE TakeOldest
    <3>1. Head(events) = events[1] /\ 1 \in 1 .. Len(events)
      BY <1>1, <2>3, OldestRing DEF TakeOldest
    <3>2. events[1].keys \subseteq wentDown
      BY <1>1, <3>1 DEF InputIInv, Waiting
    <3>3. played'.keys = Head(events).keys
      BY <2>3 DEF TakeOldest
    <3> QED BY <3>1, <3>2, <3>3
  <2> QED BY <1>1, <2>1, <2>2, <2>3 DEF Take
<1>2. InputIInv => [Take => played'.keys \subseteq wentDown]_inputVars
  BY <1>1
<1> QED BY <1>2, InputInvariant, PTL DEF OnlyNewKeysInPlay

(* Frames play the changes in order, and one that no frame plays is in the *)
(* count the log reports.                                                  *)
THEOREM ChangesInOrder == InputSpec => NoSilentSkip
<1>1. ASSUME InputIInv, Take
      PROVE  seen <= seen' /\ (seen' <= seen + 1 \/ reported' # reported)
  <2>1. /\ seen \in Nat /\ changes \in Nat /\ dropped \in Nat /\ reported \in Nat
        /\ Len(events) \in Nat /\ seen <= changes /\ reported <= dropped
        /\ reported' = dropped'
    BY <1>1 DEF InputIInv, InputTypeOK, Counted, Take
  <2>2. CASE TakeNothing
    BY <2>1, <2>2 DEF TakeNothing
  <2>3. CASE TakeStale
    <3>1. Len(events) \in Nat \ {0}
      BY <1>1, <2>3, OldestRing DEF TakeStale, Stale
    <3>2. dropped' = dropped + Len(events) /\ seen' = changes
      BY <2>3 DEF TakeStale
    <3> QED BY <2>1, <3>1, <3>2
  <2>4. armed => (seen = changes - Len(events) \/ reported < dropped)
    BY <1>1 DEF InputIInv, Consecutive
  <2>5. CASE TakeLatest
    <3>1. Len(events) = 0 /\ armed /\ seen' = changes /\ dropped' = dropped
      BY <2>5 DEF TakeLatest
    <3> QED BY <2>1, <2>4, <3>1
  <2>6. CASE TakeOldest
    <3>1. Head(events) = events[1] /\ 1 \in 1 .. Len(events) /\ armed
      BY <1>1, <2>6, OldestRing DEF TakeOldest
    <3>2. seen' = events[1].n /\ dropped' = dropped
      BY <2>6, <3>1 DEF TakeOldest
    <3>3. events[1].n = changes - Len(events) + 1 /\ seen <= changes - Len(events)
      BY <1>1, <3>1 DEF InputIInv, Consecutive
    <3> QED BY <2>1, <2>4, <3>1, <3>2, <3>3
  <2> QED BY <1>1, <2>2, <2>3, <2>5, <2>6 DEF Take
<1>2. InputIInv =>
        [Take => seen <= seen' /\ (seen' <= seen + 1 \/ reported' # reported)]_inputVars
  BY <1>1
<1> QED BY <1>2, InputInvariant, PTL DEF NoSilentSkip

(* However long the emulation stalls, a frame plays a key that is up again *)
(* only within MaxAge of its release.                                      *)
THEOREM GhostsExpire == InputSpec => NoGhostKeys
<1>1. ASSUME InputIInv, Take, NEW k \in played'.keys \ sample.keys
      PROVE  now - releasedAt[k] <= MaxAge
  <2>1. CASE TakeNothing
    BY <1>1, <2>1 DEF TakeNothing, Silent
  <2>2. CASE TakeStale \/ TakeLatest
    BY <1>1, <2>2 DEF TakeStale, TakeLatest, Played
  <2>3. CASE TakeOldest
    <3>1. Head(events) = events[1] /\ 1 \in 1 .. Len(events)
      BY <1>1, <2>3, OldestRing DEF TakeOldest
    <3>2. k \in events[1].keys \ sample.keys /\ ~(now - events[1].at > MaxAge)
      BY <1>1, <2>3, <3>1 DEF TakeOldest, Stale
    <3>3. events[1].at <= releasedAt[k] /\ events[1].at \in Nat /\ events[1].keys \subseteq Buttons
      BY <1>1, <3>1, <3>2, EntryFields DEF InputIInv, Waiting
    <3>4. now \in Nat /\ releasedAt[k] \in Nat /\ MaxAge \in Nat
      BY <1>1, <3>2, <3>3, InputBufferAssumption DEF InputIInv, InputTypeOK
    <3> QED BY <3>2, <3>3, <3>4
  <2> QED BY <1>1, <2>1, <2>2, <2>3 DEF Take
<1>2. InputIInv =>
        [Take => \A k \in played'.keys \ sample.keys : now - releasedAt[k] <= MaxAge]_inputVars
  BY <1>1
<1> QED BY <1>2, InputInvariant, PTL DEF NoGhostKeys

---------------------------------------------------------------------------
(***************************************************************************)
(* Each step of the game loop is one of the buffer's, or leaves it alone   *)
(***************************************************************************)

(* Each step of the loop makes at most one call on the buffer.             *)
LEMMA GameStepIsInputStep == [GameNext]_gameVars => [InputNext]_inputVars
<1> SUFFICES ASSUME [GameNext]_gameVars PROVE InputNext \/ UNCHANGED inputVars
  OBVIOUS
<1>1. CASE Start \/ Disarm \/ Exit
  <2>1. PICK on \in BOOLEAN : SetGameplay(on)
    BY <1>1 DEF Start, Disarm, Exit
  <2> QED BY <2>1 DEF InputNext
<1>2. CASE FrameSnapshot
  BY <1>2 DEF FrameSnapshot, InputNext
<1>3. CASE \/ StartFails \/ Rearm \/ PollGame \/ StepFrame \/ OpenPause \/ InitMenu
           \/ ReceiveButton \/ ActOnMenu \/ Reinit \/ PollSleep \/ WakeUp \/ Woken
           \/ LaunchGame
  BY <1>3 DEF StartFails, Rearm, PollGame, StepFrame, OpenPause, InitMenu, ReceiveButton,
              ActOnMenu, Reinit, PollSleep, WakeUp, Woken, LaunchGame, LooksOnly
<1>4. CASE Controller
  BY <1>4 DEF Controller, InputNext
<1>5. CASE Clock
  BY <1>5 DEF Clock, InputNext
<1>6. CASE UNCHANGED gameVars
  BY <1>6 DEF gameVars
<1> QED BY <1>1, <1>2, <1>3, <1>4, <1>5, <1>6 DEF GameNext, MenuTask

---------------------------------------------------------------------------
(***************************************************************************)
(* A press counts once                                                     *)
(***************************************************************************)

(* The inductive invariant.  A key that a page has dealt with, or that was *)
(* down when it opened, is still down; the gesture is armed only while     *)
(* Select is not such a key, the menu counts it as already down, and the   *)
(* sleep waits for a press, or ends, only when there is none.              *)
UsedIsDown == used \subseteq sample.keys

HoldPages == Playing \union {"disarm", "menuInit", "menu", "menuAct"}
HoldIsFresh == task \in HoldPages /\ hold.armed => "view" \notin used

EdgesAreFresh == task \in {"menu", "menuAct"} => used \intersect MenuKeys \subseteq menu.down

WakeIsFresh == task = "sleep" /\ sleep.phase \in {1, 3} => used = {}

Fresh == UsedIsDown /\ HoldIsFresh /\ EdgesAreFresh /\ WakeIsFresh

(* A key a page has taken is still down.  The buffer is armed in a game    *)
(* only when there is no such key, and until then its frames are silent.   *)
InGame == Playing \union {"rearm"}

UnreleasedIsDown == unreleased \subseteq sample.keys
ArmedByRelease == task \in InGame /\ armed => unreleased = {}
SnapshotIsFree == task = "poll" => played.keys \intersect unreleased = {}

KeptOut == UnreleasedIsDown /\ ArmedByRelease /\ SnapshotIsFree /\ MenuKeysStayOut

GameIInv == GameTypeOK /\ InputIInv /\ Fresh /\ KeptOut

(* What a step owes: the invariant, and no action on a key already used.   *)
Owed == PageTypeOK' /\ Fresh' /\ acted' \intersect used = {}

HoldState == [connected : BOOLEAN, armed : BOOLEAN, holding : BOOLEAN, started : Nat]
SleepState == [phase : 0 .. 3, released : BOOLEAN, since : Nat, lit : BOOLEAN]
MenuState == [connected : BOOLEAN, down : SUBSET MenuKeys]

(* A gesture that starts over is armed only when Select is up.             *)
LEMMA HoldInitFresh ==
  ASSUME NEW p \in Samples
  PROVE  /\ HoldInit(p) \in HoldState
         /\ HoldInit(p).armed => "view" \notin p.keys
BY SampleFields DEF HoldInit, HoldState

(* One look at the gesture: it fires only on a Select that went down since *)
(* the page opened and has not fired yet, and it is not armed afterwards.  *)
LEMMA HoldStepFresh ==
  ASSUME NEW p \in Samples, NEW h \in HoldState, now \in Nat
  PROVE  /\ HoldStep(h, p) \in HoldState
         /\ HoldFires(h, p) => /\ h.armed /\ "view" \in p.keys /\ "view" \in Buttons
                               /\ ~HoldStep(h, p).armed
         /\ HoldStep(h, p).armed => h.armed \/ "view" \notin p.keys
<1>1. HoldStarted(h) \in Nat
  BY DEF HoldStarted, HoldState
<1>2. HoldFires(h, p) \in BOOLEAN
  BY DEF HoldFires
<1>3. p.keys \in SUBSET Buttons
  BY SampleFields
<1>4. HoldFires(h, p) => h.armed /\ "view" \in p.keys /\ p.connected /\ h.connected
  BY DEF HoldFires
<1>5. CASE ~p.connected \/ ~h.connected
  BY <1>3, <1>4, <1>5, HoldInitFresh DEF HoldStep
<1>6. CASE p.connected /\ h.connected /\ "view" \notin p.keys
  <2>1. HoldStep(h, p) = [h EXCEPT !.armed = TRUE, !.holding = FALSE]
    BY <1>6 DEF HoldStep
  <2> QED BY <1>4, <1>6, <2>1 DEF HoldState
<1>7. CASE p.connected /\ h.connected /\ "view" \in p.keys /\ ~h.armed
  BY <1>4, <1>7 DEF HoldStep
<1>8. CASE p.connected /\ h.connected /\ "view" \in p.keys /\ h.armed
  <2>1. HoldStep(h, p) = [h EXCEPT !.holding = TRUE, !.started = HoldStarted(h),
                                   !.armed = ~HoldFires(h, p)]
    BY <1>8 DEF HoldStep
  <2>2. HoldStep(h, p) \in HoldState
    BY <1>1, <1>2, <2>1 DEF HoldState
  <2>3. HoldFires(h, p) => ~HoldStep(h, p).armed
    BY <1>2, <2>1 DEF HoldState
  <2> QED BY <1>3, <1>8, <2>2, <2>3
<1> QED BY <1>2, <1>5, <1>6, <1>7, <1>8 DEF HoldState

(* What the menu notes at a poll.                                          *)
LEMMA MenuInitNotes ==
  ASSUME NEW p \in Samples
  PROVE  MenuInit(p) \in MenuState /\ MenuInit(p).down = p.keys \intersect MenuKeys
<1>1. p.connected \in BOOLEAN
  BY SampleFields
<1> QED BY <1>1 DEF MenuInit, MenuState

(* The press a menu obeys is one that its last poll did not see.           *)
LEMMA MenuPressIsFresh ==
  ASSUME NEW p, NEW m, MenuPress(m, p) # "none"
  PROVE  MenuPress(m, p) \in (p.keys \intersect MenuKeys) \ m.down
<1> DEFINE fresh == {k \in (p.keys \intersect MenuKeys) \ m.down :
                       /\ k = "up" => "down" \notin p.keys
                       /\ k = "down" => "up" \notin p.keys}
           First(k) == \A other \in fresh : Rank[k] <= Rank[other]
<1>1. MenuPress(m, p) = CHOOSE k \in fresh : First(k)
  BY DEF MenuPress
<1>2. fresh # {}
  BY DEF MenuPress
<1>3. fresh \subseteq {"up", "down", "a", "b"}
  BY DEF MenuKeys
<1>4. Rank["up"] = 1 /\ Rank["down"] = 2 /\ Rank["a"] = 3 /\ Rank["b"] = 4
  BY DEF Rank
<1> HIDE DEF fresh
<1>5. \E k \in fresh : First(k)
  <2>1. CASE "up" \in fresh
    BY <1>3, <1>4, <2>1
  <2>2. CASE "up" \notin fresh /\ "down" \in fresh
    BY <1>3, <1>4, <2>2
  <2>3. CASE "up" \notin fresh /\ "down" \notin fresh /\ "a" \in fresh
    BY <1>3, <1>4, <2>3
  <2>4. CASE "up" \notin fresh /\ "down" \notin fresh /\ "a" \notin fresh
    <3>1. \A k \in fresh : k = "b"
      BY <1>3, <2>4
    <3> QED BY <1>2, <1>4, <3>1
  <2> QED BY <2>1, <2>2, <2>3, <2>4
<1> HIDE DEF First
<1>6. (CHOOSE k \in fresh : First(k)) \in fresh
  BY <1>5, Zenon
<1>7. MenuPress(m, p) \in fresh
  BY <1>1, <1>6, Zenon
<1> QED BY <1>7 DEF fresh

(* One poll of the sleeping screen: it starts to wait for a press, or      *)
(* ends, only with everything up.                                          *)
LEMMA SleepStepFresh ==
  ASSUME NEW s \in SleepState, NEW down \in BOOLEAN, now \in Nat
  PROVE  /\ SleepStep(s, down) \in SleepState
         /\ SleepStep(s, down).phase \in {1, 3} =>
              ~down \/ (SleepStep(s, down).phase = s.phase /\ s.phase # 1)
<1>1. /\ s.phase \in 0 .. 3 /\ s.released \in BOOLEAN /\ s.since \in Nat
      /\ s.lit \in BOOLEAN
  BY DEF SleepState
<1> DEFINE t == SleepPress(s, down)
<1>2. t \in SleepState /\ (t.phase \in {1, 3} => t.phase = s.phase /\ ~(s.phase = 1 /\ down))
  <2>1. CASE s.phase = 1 /\ down
    <3>1. t = [s EXCEPT !.phase = 2, !.released = FALSE]
      BY <2>1 DEF SleepPress
    <3> DEFINE u == [phase |-> 2, released |-> FALSE, since |-> s.since, lit |-> s.lit]
    <3>2. t = u
      BY <3>1 DEF SleepState
    <3>3. u \in SleepState /\ u.phase = 2
      BY <1>1 DEF SleepState
    <3> QED BY <3>2, <3>3
  <2>2. CASE ~(s.phase = 1 /\ down)
    BY <2>2 DEF SleepPress
  <2> QED BY <2>1, <2>2
<1> HIDE DEF t
<1> DEFINE r == SleepRelease(t, down)
<1>3. t.phase \in 0 .. 3
  BY <1>2 DEF SleepState
<1>4. r \in SleepState /\ (r.phase = t.phase \/ ~down)
  <2>1. CASE t.phase \notin {0, 2}
    BY <1>2, <2>1 DEF SleepRelease
  <2>2. CASE t.phase \in {0, 2} /\ down
    <3>1. r = [t EXCEPT !.released = FALSE]
      BY <2>2 DEF SleepRelease
    <3> QED BY <1>2, <3>1 DEF SleepState
  <2>3. CASE t.phase \in {0, 2} /\ ~down
    <3>1. \/ r = [t EXCEPT !.released = TRUE, !.since = now]
          \/ r = [t EXCEPT !.phase = t.phase + 1, !.released = FALSE]
          \/ r = t
      BY <2>3 DEF SleepRelease
    <3>2. t.phase + 1 \in 0 .. 3
      BY <2>3
    <3>3. [t EXCEPT !.released = TRUE, !.since = now] \in SleepState
      BY <1>2 DEF SleepState
    <3>4. [t EXCEPT !.phase = t.phase + 1, !.released = FALSE] \in SleepState
      BY <1>2, <3>2 DEF SleepState
    <3> QED BY <1>2, <2>3, <3>1, <3>3, <3>4
  <2> QED BY <1>3, <2>1, <2>2, <2>3
<1> HIDE DEF r
<1>5. SleepStep(s, down) = r
  BY DEF SleepStep, r, t
<1> QED BY <1>1, <1>2, <1>4, <1>5

(* The controller state a page looks at.                                   *)
LEMMA Looked ==
  ASSUME GameIInv
  PROVE  /\ sample \in Samples /\ sample.keys \in SUBSET Buttons /\ now \in Nat
         /\ ~sample.connected => sample.keys = {}
         /\ played.keys \in SUBSET Buttons
         /\ used \subseteq sample.keys
<1>1. sample \in Samples /\ now \in Nat /\ played \in [connected : BOOLEAN, keys : SUBSET Buttons]
  BY DEF GameIInv, InputIInv, InputTypeOK
<1>2. played.keys \in SUBSET Buttons
  BY <1>1
<1> QED BY <1>1, <1>2, SampleFields DEF GameIInv, Fresh, UsedIsDown

(* The pages are closed when the program starts.                           *)
LEMMA GameInitIInv == GameInit => GameIInv
<1> SUFFICES ASSUME GameInit PROVE GameIInv
  OBVIOUS
<1>1. InputIInv /\ sample = Gone
  BY InputInitIInv DEF GameInit, InputInit
<1>2. GameTypeOK
  <2>1. Gone \in Samples /\ Gone.keys = {} /\ Gone.connected = FALSE
    BY DEF Samples, Gone
  <2>2. hold \in HoldState
    BY <2>1, HoldInitFresh DEF GameInit
  <2>3. menu \in MenuState
    BY <2>1 DEF GameInit, MenuInit, MenuState
  <2>4. sleep \in SleepState
    BY DEF GameInit, Asleep, SleepState
  <2> QED BY <2>2, <2>3, <2>4
          DEF GameInit, GameTypeOK, PageTypeOK, Tasks, MenuActions, HoldState, MenuState, SleepState
<1>3. Fresh
  BY DEF GameInit, Fresh, UsedIsDown, HoldIsFresh, HoldPages, Playing, EdgesAreFresh,
         WakeIsFresh
<1>4. KeptOut
  BY DEF GameInit, KeptOut, UnreleasedIsDown, ArmedByRelease, SnapshotIsFree, MenuKeysStayOut,
         InGame, Playing
<1> QED BY <1>1, <1>2, <1>3, <1>4 DEF GameIInv

(* A step that looks at no key keeps what the page knows, as long as it    *)
(* does not enter a page that has to look first.                           *)
LEMMA QuietFresh ==
  ASSUME GameIInv, UNCHANGED <<sample, page, used>>, acted' = {}, task' \in Tasks,
         task' \in HoldPages => task \in HoldPages,
         task' \in {"menu", "menuAct", "sleep"} => task = task'
  PROVE  Owed
<1>1. UNCHANGED <<hold, menu, board, sleep, given, used, sample>> /\ acted' = {}
  BY DEF page
<1>2. PageTypeOK'
  BY <1>1 DEF GameIInv, GameTypeOK, PageTypeOK
<1>3. UsedIsDown' /\ HoldIsFresh'
  BY <1>1 DEF GameIInv, Fresh, UsedIsDown, HoldIsFresh
<1>4. EdgesAreFresh' /\ WakeIsFresh'
  BY <1>1 DEF GameIInv, Fresh, EdgesAreFresh, WakeIsFresh
<1> QED BY <1>1, <1>2, <1>3, <1>4 DEF Owed, Fresh

(* A page that opens takes every key that is down for used.                *)
LEMMA OpenFresh ==
  ASSUME GameIInv, UNCHANGED <<sample, menu, board, sleep, given>>, OpenPage,
         task' \in {"frame", "disarm", "menuInit"}
  PROVE  Owed
<1>1. hold' = HoldInit(sample) /\ used' = sample.keys /\ acted' = {}
  BY DEF OpenPage
<1>2. hold' \in HoldState /\ (hold'.armed => "view" \notin used')
  BY <1>1, Looked, HoldInitFresh
<1>3. PageTypeOK'
  BY <1>1, <1>2, Looked DEF GameIInv, GameTypeOK, PageTypeOK, HoldState, Tasks, Playing
<1>4. Fresh'
  BY <1>1, <1>2 DEF Fresh, UsedIsDown, HoldIsFresh, EdgesAreFresh, WakeIsFresh
<1> QED BY <1>1, <1>3, <1>4 DEF Owed

(* A look at the gesture: what has been used with it stays true.           *)
LEMMA GestureFresh ==
  ASSUME GameIInv, task \in HoldPages, hold' = HoldStep(hold, sample),
         UNCHANGED sample,
         IF HoldFires(hold, sample) THEN Acts({"view"}) ELSE NoAction
  PROVE  /\ hold' \in HoldState
         /\ acted' \in SUBSET {"view"} /\ acted' \in SUBSET Buttons
         /\ acted' \intersect used = {}
         /\ used' = used \union acted' /\ used' \subseteq sample'.keys
         /\ hold'.armed => "view" \notin used'
<1>1. /\ sample \in Samples /\ now \in Nat /\ used \subseteq sample.keys
      /\ hold \in HoldState /\ (hold.armed => "view" \notin used)
  BY Looked DEF GameIInv, GameTypeOK, PageTypeOK, HoldState, Fresh, HoldIsFresh
<1>2. /\ hold' \in HoldState
      /\ HoldFires(hold, sample) => /\ hold.armed /\ "view" \in sample.keys
                                    /\ "view" \in Buttons /\ ~hold'.armed
      /\ hold'.armed => hold.armed \/ "view" \notin sample.keys
  BY <1>1, HoldStepFresh
<1>3. CASE HoldFires(hold, sample)
  BY <1>1, <1>2, <1>3 DEF Acts
<1>4. CASE ~HoldFires(hold, sample)
  BY <1>1, <1>2, <1>4 DEF NoAction
<1> QED BY <1>3, <1>4

(* run_game polls the controller once a frame.                             *)
LEMMA PollGameFresh == ASSUME GameIInv, PollGame PROVE Owed
<1>1. /\ task = "poll" /\ hold' = HoldStep(hold, sample)
      /\ UNCHANGED <<sample, menu, board, sleep>>
      /\ IF HoldFires(hold, sample) THEN Acts({"view"}) ELSE NoAction
  BY DEF PollGame, LooksOnly, inputVars, buffer
<1>2. /\ hold' \in HoldState
      /\ acted' \in SUBSET Buttons /\ acted' \intersect used = {}
      /\ used' = used \union acted' /\ used' \subseteq sample'.keys
      /\ hold'.armed => "view" \notin used'
  BY <1>1, GestureFresh DEF HoldPages, Playing
<1>3. /\ task' \in {"pause", "exit", "step"}
      /\ given' = {} \/ given' = GameKeys(played.keys)
  BY DEF PollGame, Goto
<1>4. given' \in SUBSET Buttons
  BY <1>3, Looked DEF GameKeys
<1>5. used' \in SUBSET Buttons
  BY <1>1, <1>2, Looked
<1>6. PageTypeOK'
  BY <1>1, <1>2, <1>3, <1>4, <1>5 DEF GameIInv, GameTypeOK, PageTypeOK, HoldState, Tasks, Playing
<1>7. Fresh'
  BY <1>2, <1>3 DEF Fresh, UsedIsDown, HoldIsFresh, EdgesAreFresh, WakeIsFresh
<1> QED BY <1>2, <1>6, <1>7 DEF Owed

(* pause_game notes the keys that are down before it looks for edges.      *)
LEMMA InitMenuFresh == ASSUME GameIInv, InitMenu PROVE Owed
<1>1. /\ task = "menuInit" /\ task' = "menu" /\ menu' = MenuInit(sample)
      /\ UNCHANGED <<sample, hold, board, sleep, given, used>> /\ acted' = {}
  BY DEF InitMenu, Goto, NoAction, LooksOnly, inputVars, buffer
<1>2. menu' \in MenuState /\ menu'.down = sample.keys \intersect MenuKeys
  BY <1>1, Looked, MenuInitNotes
<1>3. PageTypeOK'
  BY <1>1, <1>2 DEF GameIInv, GameTypeOK, PageTypeOK, MenuState, Tasks
<1>4. UsedIsDown' /\ HoldIsFresh' /\ WakeIsFresh'
  BY <1>1 DEF GameIInv, Fresh, UsedIsDown, HoldIsFresh, HoldPages, WakeIsFresh
<1>5. EdgesAreFresh'
  BY <1>1, <1>2, Looked DEF EdgesAreFresh
<1> QED BY <1>1, <1>3, <1>4, <1>5 DEF Owed, Fresh

(* The gesture in the pause menu.                                          *)
LEMMA ReceiveButtonFresh == ASSUME GameIInv, ReceiveButton PROVE Owed
<1>1. /\ task = "menu" /\ task' = "menuAct" /\ hold' = HoldStep(hold, sample)
      /\ UNCHANGED <<sample, menu, sleep, given>>
      /\ IF HoldFires(hold, sample) THEN Acts({"view"}) ELSE NoAction
  BY DEF ReceiveButton, Goto, LooksOnly, inputVars, buffer
<1>2. /\ hold' \in HoldState
      /\ acted' \in SUBSET {"view"}
      /\ acted' \in SUBSET Buttons /\ acted' \intersect used = {}
      /\ used' = used \union acted' /\ used' \subseteq sample'.keys
      /\ hold'.armed => "view" \notin used'
  BY <1>1, GestureFresh DEF HoldPages
<1>3. board' \in MenuActions \union {"long"}
  BY DEF ReceiveButton
<1>4. used' \in SUBSET Buttons
  BY <1>1, <1>2, Looked
<1>5. PageTypeOK'
  BY <1>1, <1>2, <1>3, <1>4 DEF GameIInv, GameTypeOK, PageTypeOK, HoldState, Tasks
<1>6. EdgesAreFresh'
  BY <1>1, <1>2 DEF GameIInv, Fresh, EdgesAreFresh, MenuKeys
<1>7. Fresh'
  BY <1>1, <1>2, <1>6 DEF Fresh, UsedIsDown, HoldIsFresh, WakeIsFresh
<1> QED BY <1>2, <1>5, <1>7 DEF Owed

(* Where an iteration of the pause menu may lead.                          *)
LEMMA PerformLeads ==
  ASSUME NEW action \in MenuActions, NEW p, Perform(action, p)
  PROVE  \/ task' \in {"start", "menu", "reinit", "exit"} /\ UNCHANGED sleep
         \/ task' = "sleep" /\ sleep' = Asleep
<1>1. CASE action \in {"none", "up", "down"}
  BY <1>1 DEF Perform, Goto
<1>2. CASE action = "back"
  BY <1>2 DEF Perform, Resume, Goto
<1>3. CASE action = "confirm"
  BY <1>3 DEF Perform, Confirmed, Resume, FallAsleep, SaveAndLeave, Goto
<1> QED BY <1>1, <1>2, <1>3 DEF MenuActions

LEMMA ActOnMenuLeads ==
  ASSUME GameIInv, ActOnMenu
  PROVE  \/ task' \in {"start", "menu", "reinit", "exit"} /\ UNCHANGED sleep
         \/ task' = "sleep" /\ sleep' = Asleep
<1> DEFINE press == MenuPress(menu, sample)
           obeyed == board = "none" /\ press # "none"
<1>1. CASE board = "long"
  BY <1>1 DEF ActOnMenu, SaveAndLeave, Goto
<1>2. CASE board # "long"
  <2>1. Perform(IF obeyed THEN MenuAction(press) ELSE board, sample)
    BY <1>2 DEF ActOnMenu
  <2>2. board \in MenuActions
    BY <1>2 DEF GameIInv, GameTypeOK, PageTypeOK
  <2>3. obeyed => MenuAction(press) \in MenuActions
    <3>1. obeyed => press \in {"up", "down", "a", "b"}
      BY MenuPressIsFresh DEF MenuKeys
    <3> HIDE DEF press
    <3> QED BY <3>1 DEF MenuAction, MenuActions
  <2> HIDE DEF obeyed, press
  <2>4. (IF obeyed THEN MenuAction(press) ELSE board) \in MenuActions
    BY <2>2, <2>3
  <2> QED BY <2>1, <2>4, PerformLeads
<1> QED BY <1>1, <1>2

(* The rest of an iteration of the pause menu.                             *)
LEMMA ActOnMenuFresh == ASSUME GameIInv, ActOnMenu PROVE Owed
<1> DEFINE press == MenuPress(menu, sample)
           obeyed == board = "none" /\ press # "none"
<1>1. /\ task = "menuAct" /\ menu' = MenuInit(sample) /\ board' = "none"
      /\ UNCHANGED <<sample, hold, given>>
      /\ IF obeyed THEN Acts({press}) ELSE NoAction
  BY DEF ActOnMenu, LooksOnly, inputVars, buffer
<1>2. \/ task' \in {"start", "menu", "reinit", "exit"} /\ UNCHANGED sleep
      \/ task' = "sleep" /\ sleep' = Asleep
  BY ActOnMenuLeads
<1>3. menu' \in MenuState /\ menu'.down = sample.keys \intersect MenuKeys
  BY <1>1, Looked, MenuInitNotes
<1>4. obeyed => /\ press \in sample.keys /\ press \in Buttons /\ press # "view"
                /\ press \notin used
  <2>1. obeyed => press \in (sample.keys \intersect MenuKeys) \ menu.down
    BY MenuPressIsFresh
  <2>2. used \intersect MenuKeys \subseteq menu.down
    BY <1>1 DEF GameIInv, Fresh, EdgesAreFresh
  <2> HIDE DEF obeyed, press
  <2> QED BY <2>1, <2>2, Looked DEF MenuKeys
<1> HIDE DEF obeyed, press
<1>5. /\ acted' \in SUBSET Buttons /\ acted' \intersect used = {}
      /\ used' \subseteq sample.keys
      /\ "view" \in used' => "view" \in used
  BY <1>1, <1>4, Looked DEF Acts, NoAction
<1>6. used' \in SUBSET Buttons
  BY <1>5, Looked
<1>7. sleep' \in SleepState /\ task' \in Tasks /\ (task' = "sleep" => sleep'.phase = 0)
  <2>1. sleep \in SleepState
    BY DEF GameIInv, GameTypeOK, PageTypeOK, SleepState
  <2>2. Asleep \in SleepState /\ Asleep.phase = 0
    BY DEF Asleep, SleepState
  <2>3. sleep' \in SleepState /\ (task' = "sleep" => sleep' = Asleep)
    BY <1>2, <2>1, <2>2
  <2>4. task' \in Tasks
    BY <1>2 DEF Tasks
  <2> QED BY <2>2, <2>3, <2>4
<1>8. PageTypeOK'
  BY <1>1, <1>3, <1>5, <1>6, <1>7
     DEF GameIInv, GameTypeOK, PageTypeOK, MenuState, SleepState, MenuActions
<1>9. UsedIsDown' /\ EdgesAreFresh' /\ WakeIsFresh'
  BY <1>1, <1>3, <1>5, <1>7 DEF UsedIsDown, EdgesAreFresh, WakeIsFresh
<1>10. HoldIsFresh'
  BY <1>1, <1>5 DEF GameIInv, Fresh, HoldIsFresh, HoldPages
<1> QED BY <1>5, <1>8, <1>9, <1>10 DEF Owed, Fresh

(* One poll of the sleeping screen.                                        *)
LEMMA PollSleepFresh == ASSUME GameIInv, PollSleep PROVE Owed
<1>1. PICK pressing \in BOOLEAN :
        LET keyDown == sample.connected /\ (sample.keys # {} \/ sample.other)
            woke == sleep.phase = 1 /\ (pressing \/ keyDown)
        IN  /\ Poll(pressing \/ keyDown)
            /\ IF woke THEN Acts(sample.keys) ELSE NoAction
  BY DEF PollSleep
<1> DEFINE down == pressing \/ (sample.connected /\ (sample.keys # {} \/ sample.other))
           t == SleepStep(sleep, down)
<1>2. /\ sleep' = [t EXCEPT !.lit = sleep.lit \/ t.phase >= 2]
      /\ IF sleep.phase = 1 /\ down THEN Acts(sample.keys) ELSE NoAction
  BY <1>1 DEF Poll
<1>3. /\ task = "sleep" /\ task' \in {"sleep", "reinit"}
      /\ UNCHANGED <<sample, hold, menu, board, given>>
  BY DEF PollSleep, Goto, LooksOnly, inputVars, buffer
<1>4. down \in BOOLEAN /\ (~down => sample.keys = {})
  BY Looked
<1>5. sleep \in SleepState /\ now \in Nat
  BY Looked DEF GameIInv, GameTypeOK, PageTypeOK, SleepState
<1> HIDE DEF down
<1>6. /\ t \in SleepState
      /\ t.phase \in {1, 3} => ~down \/ (t.phase = sleep.phase /\ sleep.phase # 1)
  BY <1>4, <1>5, SleepStepFresh
<1> HIDE DEF t
<1>7. sleep' \in SleepState /\ sleep'.phase = t.phase
  <2>1. (sleep.lit \/ t.phase >= 2) \in BOOLEAN
    OBVIOUS
  <2> DEFINE u == [phase |-> t.phase, released |-> t.released, since |-> t.since,
                   lit |-> (sleep.lit \/ t.phase >= 2)]
  <2>2. sleep' = u
    BY <1>2, <1>6 DEF SleepState
  <2>3. u \in SleepState /\ u.phase = t.phase
    BY <1>6, <2>1 DEF SleepState
  <2> QED BY <2>2, <2>3
<1>8. /\ acted' \in SUBSET Buttons /\ acted' \intersect used = {}
      /\ used' \subseteq sample.keys
  <2>1. CASE sleep.phase = 1 /\ down
    <3>1. used = {}
      BY <1>3, <2>1 DEF GameIInv, Fresh, WakeIsFresh
    <3> QED BY <1>2, <2>1, <3>1, Looked DEF Acts
  <2>2. CASE ~(sleep.phase = 1 /\ down)
    BY <1>2, <2>2, Looked DEF NoAction
  <2> QED BY <2>1, <2>2
<1>9. PageTypeOK'
  BY <1>3, <1>7, <1>8, Looked DEF GameIInv, GameTypeOK, PageTypeOK, SleepState, Tasks
<1>10. UsedIsDown' /\ HoldIsFresh' /\ EdgesAreFresh'
  BY <1>3, <1>8 DEF UsedIsDown, HoldIsFresh, HoldPages, Playing, EdgesAreFresh
<1>11. WakeIsFresh'
  <2>1. SUFFICES ASSUME sleep'.phase \in {1, 3} PROVE used' = {}
    BY DEF WakeIsFresh
  <2>2. CASE ~down
    BY <1>4, <1>8, <2>2
  <2>3. CASE down
    <3>1. sleep.phase = 3
      BY <1>6, <1>7, <2>1, <2>3
    <3>2. used = {} /\ used' = used
      BY <1>2, <1>3, <3>1 DEF GameIInv, Fresh, WakeIsFresh, NoAction
    <3> QED BY <3>2
  <2> QED BY <1>4, <2>2, <2>3
<1> QED BY <1>8, <1>9, <1>10, <1>11 DEF Owed, Fresh

(* A report of the controller: a key that goes up is no longer used.       *)
LEMMA ControllerFresh == ASSUME GameIInv, Controller PROVE Owed
<1>1. PICK p \in Samples : Report(p)
  BY DEF Controller, Change
<1>2. /\ sample' = p /\ acted' = {} /\ used' = used \intersect p.keys
      /\ UNCHANGED <<task, hold, menu, board, sleep, given>>
  BY <1>1 DEF Controller, ControllerHistory, Report, page
<1>3. PageTypeOK'
  BY <1>2 DEF GameIInv, GameTypeOK, PageTypeOK
<1>4. Fresh'
  BY <1>2 DEF GameIInv, Fresh, UsedIsDown, HoldIsFresh, EdgesAreFresh, WakeIsFresh
<1> QED BY <1>2, <1>3, <1>4 DEF Owed

(* Every step of the menu task, the Bluetooth task and the clock.          *)
LEMMA GameStepOwes ==
  ASSUME GameIInv, GameNext
  PROVE  Owed
<1>1. CASE LaunchGame \/ Start \/ StartFails \/ StepFrame \/ Exit \/ Disarm \/ WakeUp \/ Woken
  <2>1. UNCHANGED <<sample, page, used>> /\ acted' = {}
    BY <1>1 DEF LaunchGame, Start, StartFails, StepFrame, Exit, Disarm, WakeUp, Woken,
                SetGameplay, LooksOnly, NoAction, EntersGame, inputVars, buffer
  <2>2. \/ task' \in {"start", "rearm", "exit", "pause", "games", "woken", "reinit"}
        \/ task \in HoldPages /\ task' \in {"frame", "menuInit"}
    BY <1>1 DEF LaunchGame, Start, StartFails, StepFrame, Exit, Disarm, WakeUp, Woken, Goto,
                HoldPages, Playing
  <2> QED BY <2>1, <2>2, QuietFresh DEF Tasks, HoldPages, Playing
<1>2. CASE FrameSnapshot \/ Clock
  <2>1. UNCHANGED <<sample, page, used>> /\ acted' = {}
    BY <1>2 DEF FrameSnapshot, Clock, NoAction, Take, Tick, buffer
  <2>2. task' = task \/ (task = "frame" /\ task' = "poll")
    BY <1>2 DEF FrameSnapshot, Clock, Goto
  <2>3. task' \in Tasks
    BY <2>2 DEF GameIInv, GameTypeOK, PageTypeOK, Tasks, Playing
  <2> QED BY <2>1, <2>2, <2>3, QuietFresh DEF HoldPages, Playing
<1>3. CASE Rearm \/ OpenPause \/ Reinit
  BY <1>3, OpenFresh DEF Rearm, OpenPause, Reinit, Goto, LooksOnly, inputVars, buffer
<1> QED BY <1>1, <1>2, <1>3, PollGameFresh, InitMenuFresh, ReceiveButtonFresh, ActOnMenuFresh,
           PollSleepFresh, ControllerFresh DEF GameNext, MenuTask

(* A key a page takes is down in the step that takes it, and one that goes *)
(* up is free.                                                             *)
LEMMA TakenKeysAreDown ==
  ASSUME GameIInv, GameNext
  PROVE  /\ UnreleasedIsDown'
         /\ unreleased' \in SUBSET Buttons /\ carried' \in SUBSET Buttons
<1>1. /\ sample.keys \in SUBSET Buttons /\ used' \subseteq sample'.keys
      /\ unreleased \subseteq sample.keys /\ carried \in SUBSET Buttons
  BY Looked, GameStepOwes DEF Owed, Fresh, UsedIsDown, GameIInv, KeptOut, UnreleasedIsDown,
     GameTypeOK
<1>2. CASE Controller
  <2>1. PICK p \in Samples : sample' = p
    BY <1>2 DEF Controller, Change, Report
  <2>2. unreleased' = unreleased \intersect p.keys /\ p.keys \in SUBSET Buttons
    BY <1>2, <2>1, SampleFields DEF Controller, ControllerHistory
  <2>3. carried' \in SUBSET Buttons
    BY <1>1, <1>2 DEF Controller, ControllerHistory
  <2> QED BY <2>1, <2>2, <2>3 DEF UnreleasedIsDown
<1>3. CASE ~Controller
  <2>1. /\ UNCHANGED <<sample, carried>>
        /\ \/ UNCHANGED unreleased
           \/ unreleased' = unreleased \union sample.keys
           \/ unreleased' = unreleased \union acted' /\ used' = used \union acted'
    <3>1. CASE \/ LaunchGame \/ StartFails \/ StepFrame \/ Exit \/ Disarm \/ WakeUp \/ Woken
               \/ FrameSnapshot \/ Clock \/ InitMenu
      BY <3>1 DEF LaunchGame, StartFails, StepFrame, Exit, Disarm, WakeUp, Woken, FrameSnapshot,
                  Clock, InitMenu, NoAction, SetGameplay, Take, Tick, LooksOnly, inputVars, buffer
    <3>2. CASE Start \/ Rearm \/ OpenPause \/ Reinit
      BY <3>2 DEF Start, Rearm, OpenPause, Reinit, EntersGame, OpenPage, SetGameplay, LooksOnly,
                  inputVars, buffer
    <3>3. CASE PollGame \/ ReceiveButton
      BY <3>3 DEF PollGame, ReceiveButton, Acts, NoAction, LooksOnly, inputVars, buffer
    <3>4. CASE ActOnMenu \/ PollSleep
      BY <3>4 DEF ActOnMenu, PollSleep, Acts, NoAction, LooksOnly, inputVars, buffer
    <3> QED BY <1>3, <3>1, <3>2, <3>3, <3>4 DEF GameNext, MenuTask
  <2> QED BY <1>1, <2>1 DEF UnreleasedIsDown
<1> QED BY <1>2, <1>3

(* A report arms the buffer only when every key is up.                     *)
LEMMA ReportKeepsOut == ASSUME GameIInv, Controller PROVE KeptOut'
<1>1. PICK p \in Samples : Report(p)
  BY DEF Controller, Change
<1>2. /\ sample' = p /\ unreleased' = unreleased \intersect p.keys
      /\ UNCHANGED <<task, given, played>>
  BY <1>1 DEF Controller, ControllerHistory, Report, page
<1>3. /\ task \in InGame /\ armed => unreleased = {}
      /\ task = "poll" => played.keys \intersect unreleased = {}
      /\ task = "step" => given \intersect unreleased = {}
  BY DEF GameIInv, KeptOut, ArmedByRelease, SnapshotIsFree, MenuKeysStayOut
<1>4. armed' => armed \/ p.keys = {}
  BY <1>1 DEF Report, PushCleared, PushUnarmed, PushSame, PushQueued, released
<1> QED BY <1>2, <1>3, <1>4
        DEF KeptOut, UnreleasedIsDown, ArmedByRelease, SnapshotIsFree, MenuKeysStayOut

(* Entering or resuming a game empties the buffer and arms it only when    *)
(* every key is up.                                                        *)
LEMMA StartKeepsOut == ASSUME GameIInv, Start PROVE KeptOut'
<1>1. /\ task' = "rearm" /\ armed' = (TRUE /\ released(sample)) /\ UNCHANGED sample
      /\ unreleased' = unreleased \union sample.keys
  BY DEF Start, Goto, SetGameplay, EntersGame
<1>2. unreleased \subseteq sample.keys
  BY DEF GameIInv, KeptOut, UnreleasedIsDown
<1> QED BY <1>1, <1>2
        DEF KeptOut, UnreleasedIsDown, ArmedByRelease, SnapshotIsFree, MenuKeysStayOut, released

(* A snapshot of an unarmed buffer is silent.                              *)
LEMMA SnapshotKeepsOut == ASSUME GameIInv, FrameSnapshot PROVE KeptOut'
<1>1. /\ task = "frame" /\ task' = "poll" /\ UNCHANGED <<sample, armed, unreleased>>
      /\ TakeNothing \/ TakeStale \/ TakeLatest \/ TakeOldest
  BY DEF FrameSnapshot, Goto, NoAction, Take
<1>2. /\ unreleased \subseteq sample.keys /\ (armed => unreleased = {})
      /\ armed => enabled
  BY <1>1 DEF GameIInv, KeptOut, UnreleasedIsDown, ArmedByRelease, InGame, Playing, InputIInv,
              Armed
<1>3. played'.keys \intersect unreleased = {}
  <2>1. CASE armed
    BY <1>2, <2>1
  <2>2. CASE ~armed
    BY <1>1, <2>2 DEF TakeNothing, TakeStale, TakeLatest, TakeOldest, Silent
  <2> QED BY <2>1, <2>2
<1> QED BY <1>1, <1>2, <1>3
        DEF KeptOut, UnreleasedIsDown, ArmedByRelease, SnapshotIsFree, MenuKeysStayOut

(* A frame that is stepped follows a poll no page acted in.                *)
LEMMA PollKeepsOut == ASSUME GameIInv, PollGame PROVE KeptOut'
<1>1. UnreleasedIsDown'
  BY TakenKeysAreDown DEF GameNext, MenuTask
<1>2. \/ task' \in {"pause", "exit"}
      \/ /\ task = "poll" /\ task' = "step" /\ given' = GameKeys(played.keys)
         /\ ~HoldFires(hold, sample)
  BY DEF PollGame, Goto
<1>3. UNCHANGED armed /\ (~HoldFires(hold, sample) => UNCHANGED unreleased)
  BY DEF PollGame, LooksOnly, inputVars, buffer, NoAction
<1>4. CASE task' \in {"pause", "exit"}
  BY <1>1, <1>4
     DEF KeptOut, ArmedByRelease, SnapshotIsFree, MenuKeysStayOut, InGame, Playing
<1>5. CASE /\ task = "poll" /\ task' = "step" /\ given' = GameKeys(played.keys)
           /\ ~HoldFires(hold, sample)
  <2>1. given' \subseteq played.keys
    BY <1>5 DEF GameKeys
  <2>2. /\ played.keys \intersect unreleased = {} /\ (armed => unreleased = {})
    BY <1>5 DEF GameIInv, KeptOut, SnapshotIsFree, ArmedByRelease, InGame, Playing
  <2> QED BY <1>1, <1>3, <1>5, <2>1, <2>2
          DEF KeptOut, ArmedByRelease, SnapshotIsFree, MenuKeysStayOut
<1> QED BY <1>2, <1>4, <1>5

(* The other steps lead to no frame, or from one to the next.              *)
LEMMA OthersKeepOut ==
  ASSUME GameIInv, GameNext, ~Controller, ~Start, ~FrameSnapshot, ~PollGame
  PROVE  KeptOut'
<1>1. UnreleasedIsDown'
  BY TakenKeysAreDown
<1>2. \/ task' \notin InGame
      \/ /\ UNCHANGED <<armed, unreleased, played, given>>
         /\ task \in InGame /\ task' \in InGame
         /\ task' \in {"poll", "step"} => task = task'
  <2>1. CASE \/ LaunchGame \/ StartFails \/ Exit \/ OpenPause \/ Disarm \/ InitMenu
             \/ ReceiveButton \/ Reinit \/ PollSleep \/ WakeUp \/ Woken
    BY <2>1 DEF LaunchGame, StartFails, Exit, OpenPause, Disarm, InitMenu, ReceiveButton, Reinit,
                PollSleep, WakeUp, Woken, Goto, InGame, Playing
  <2>2. CASE StepFrame \/ Rearm
    BY <2>2 DEF StepFrame, Rearm, OpenPage, Goto, InGame, Playing, NoAction, LooksOnly, inputVars,
                buffer, page
  <2>3. CASE Clock
    BY <2>3 DEF Clock, Tick, NoAction, buffer, page
  <2>4. CASE ActOnMenu
    BY <2>4, ActOnMenuLeads DEF InGame, Playing
  <2> QED BY <2>1, <2>2, <2>3, <2>4 DEF GameNext, MenuTask
<1>3. /\ task \in InGame /\ armed => unreleased = {}
      /\ task = "poll" => played.keys \intersect unreleased = {}
      /\ task = "step" => given \intersect unreleased = {}
  BY DEF GameIInv, KeptOut, ArmedByRelease, SnapshotIsFree, MenuKeysStayOut
<1> QED BY <1>1, <1>2, <1>3
        DEF KeptOut, ArmedByRelease, SnapshotIsFree, MenuKeysStayOut, InGame, Playing

(* Every step keeps the invariant.                                         *)
LEMMA GameStepIInv == GameIInv /\ [GameNext]_gameVars => GameIInv'
<1> SUFFICES ASSUME GameIInv, [GameNext]_gameVars PROVE GameIInv'
  OBVIOUS
<1>1. InputIInv'
  BY GameStepIsInputStep, InputNextIInv DEF GameIInv
<1>2. CASE GameNext
  <2>1. GameTypeOK' /\ Fresh'
    BY <1>2, GameStepOwes, TakenKeysAreDown DEF Owed, GameTypeOK
  <2>2. KeptOut'
    BY <1>2, ReportKeepsOut, StartKeepsOut, SnapshotKeepsOut, PollKeepsOut, OthersKeepOut
  <2> QED BY <1>1, <2>1, <2>2 DEF GameIInv
<1>3. CASE UNCHANGED gameVars
  <2>1. GameTypeOK' /\ Fresh'
    BY <1>3
       DEF gameVars, page, inputVars, buffer, GameIInv, GameTypeOK, PageTypeOK, Fresh, UsedIsDown,
           HoldIsFresh, EdgesAreFresh, WakeIsFresh
  <2>2. KeptOut'
    BY <1>3
       DEF gameVars, page, inputVars, buffer, GameIInv, KeptOut, UnreleasedIsDown,
           ArmedByRelease, SnapshotIsFree, MenuKeysStayOut
  <2> QED BY <1>1, <2>1, <2>2 DEF GameIInv
<1> QED BY <1>2, <1>3

(* The invariant holds throughout a game.                                  *)
THEOREM GameInvariant == GameSpec => []GameIInv
BY GameInitIInv, GameStepIInv, PTL DEF GameSpec

(* No press of the controller is acted on twice, by one page or by two.    *)
THEOREM PressesActOnce == GameSpec => PressActsOnce
<1>1. GameIInv /\ [GameNext]_gameVars
        => [GameTypeOK' /\ acted' \intersect used = {}]_gameVars
  BY GameStepOwes, TakenKeysAreDown DEF Owed, GameTypeOK
<1> QED BY <1>1, GameInvariant, PTL DEF GameSpec, PressActsOnce

(* A key that a page took, or that was down when the game came back, is    *)
(* not the game's until a report, or a disconnection, has it up.           *)
THEOREM PageKeysStayOut == GameSpec => []MenuKeysStayOut
<1>1. GameIInv => MenuKeysStayOut
  BY DEF GameIInv, KeptOut
<1> QED BY <1>1, GameInvariant, PTL

(* The press that lit the screen is over before the game goes on.          *)
THEOREM WakePressIsOver == GameSpec => WakePressConsumed
<1>1. ASSUME GameIInv, GameNext, task = "sleep", task' = "woken" PROVE used = {}
  <2>1. sleep.phase = 3
    BY <1>1 DEF GameNext, MenuTask, Start, StartFails, Rearm, FrameSnapshot, PollGame,
       StepFrame, Exit, OpenPause, Disarm, InitMenu, ReceiveButton, ActOnMenu, Reinit,
       PollSleep, WakeUp, Woken, LaunchGame, Controller, Clock, Goto
  <2> QED BY <1>1, <2>1 DEF GameIInv, Fresh, WakeIsFresh
<1>2. GameIInv /\ [GameNext]_gameVars
        => [task = "sleep" /\ task' = "woken" => used = {}]_gameVars
  BY <1>1
<1> QED BY <1>2, GameInvariant, PTL DEF GameSpec, WakePressConsumed
=============================================================================
