---------------------- MODULE AdvertisementCacheProofs ----------------------
(***************************************************************************)
(* A device never has two entries in the cache, and is judged by what was  *)
(* heard of it since it was last silent, for any devices, packets, size,   *)
(* lifetime and width of the clock.  An entry reads as a set of packets    *)
(* does (Reads), joining a packet to it adds the packet to the set, and    *)
(* its age is the silence of its device; that a device finds room while no *)
(* more are heard than fit is the pigeonhole principle (RoomLeft).         *)
(***************************************************************************)
EXTENDS AdvertisementCache, FiniteSetTheorems, TLAPS

Table == [Slots -> UsedEntries \union {Unused}]
Unique(table) ==
  \A i, j \in Slots :
    table[i].used /\ table[j].used /\ table[i].device = table[j].device => i = j

(* Only the entries of devices are in use. *)
LEMMA UsedIsEntry ==
  ASSUME NEW e \in UsedEntries \union {Unused}, e.used PROVE e \in UsedEntries
BY DEF Unused

LEMMA EntryIsUsed == ASSUME NEW e \in UsedEntries PROVE e.used
BY DEF UsedEntries

LEMMA SpareIsUnused == ~Unused.used
BY DEF Unused

(* A device that is heard for the first time gets an entry of its own, *)
LEMMA FreshType ==
  ASSUME NEW d \in Devices, now \in 0..(Wrap - 1)
  PROVE  Fresh(d) \in UsedEntries /\ Fresh(d).device = d
<1>1. /\ TRUE \in {TRUE} /\ FALSE \in BOOLEAN /\ "unset" \in Appearances /\ "" \in Names
  BY DEF Appearances, Names
<1> QED BY Zenon, <1>1 DEF Fresh, UsedEntries

(* and a packet changes what an entry tells, never whose it is. *)
LEMMA JoinedType ==
  ASSUME NEW e \in UsedEntries, NEW p \in AllPackets, now \in 0..(Wrap - 1)
  PROVE  Joined(e, p) \in UsedEntries /\ Joined(e, p).device = e.device
<1> DEFINE named == p.name # "" /\ (p.complete \/ ~e.complete)
           appearance == IF p.appearance = "absent" THEN e.appearance ELSE p.appearance
           name == IF named THEN p.name ELSE e.name
           complete == IF named THEN p.complete ELSE e.complete
           hid == e.hid \/ p.hid
           iine == e.iine \/ p.iine
<1>1. /\ appearance \in Appearances /\ name \in Names
  BY DEF AllPackets, UsedEntries
<1>2. complete \in BOOLEAN /\ hid \in BOOLEAN /\ iine \in BOOLEAN
  BY Zenon DEF AllPackets, UsedEntries
<1>3. Joined(e, p) = [e EXCEPT !.last = now, !.hid = hid, !.iine = iine,
                               !.appearance = appearance, !.name = name, !.complete = complete]
  BY Zenon DEF Joined
<1> HIDE DEF named, appearance, name, complete, hid, iine
<1> QED BY Zenon, <1>1, <1>2, <1>3 DEF UsedEntries

-----------------------------------------------------------------------------
(* Expiry leaves a table in which no device has two entries. *)
LEMMA KeptType ==
  ASSUME cache \in Table, Unique(cache) PROVE Kept \in Table /\ Unique(Kept)
<1>1. Kept \in Table
  BY DEF Kept, Table
<1>2. \A i \in Slots : Kept[i] = cache[i] \/ Kept[i] = Unused
  BY DEF Kept
<1> QED BY <1>1, <1>2, SpareIsUnused DEF Unique

(* The entry that takes a packet is the device's own if it has one. *)
LEMMA ChosenIsOwn ==
  ASSUME NEW table, NEW d \in Devices, NEW i \in Chosen(table, d)
  PROVE  i \in Slots /\ (Entries(table, d) # {} => i \in Entries(table, d))
BY DEF Chosen, Entries, First, Spare, Oldest

(* A packet is joined to the entry of its device, to one that is begun in a *)
(* spare slot, or to one that replaces another when no slot is spare.       *)
LEMMA ObserveEffect ==
  ASSUME CacheTypeOK, NEW d \in Devices, NEW p \in Packets, observe(d, p)
  PROVE  \E i \in Slots, e \in UsedEntries :
           /\ e.device = d
           /\ IF Entries(Kept, d) # {} THEN i \in Entries(Kept, d) /\ e = Kept[i]
              ELSE e = Fresh(d) /\ (Spare(Kept) # {} => i \in Spare(Kept))
           /\ cache' = [Kept EXCEPT ![i] = Joined(e, p)]
<1>1. cache \in Table /\ Unique(cache) /\ now \in 0..(Wrap - 1)
  BY DEF CacheTypeOK, Table, Unique
<1>2. Kept \in Table
  BY <1>1, KeptType
<1>3. PICK i \in Chosen(Kept, d) :
        cache' = [Kept EXCEPT ![i] = Joined(IF i \in Entries(Kept, d) THEN Kept[i] ELSE Fresh(d), p)]
  BY DEF observe
<1>4. i \in Slots /\ (Entries(Kept, d) # {} => i \in Entries(Kept, d))
  BY ChosenIsOwn
<1>5. CASE i \in Entries(Kept, d)
  <2>1. Kept[i].used /\ Kept[i].device = d /\ Kept[i] \in UsedEntries \union {Unused}
    BY <1>2, <1>4, <1>5 DEF Entries, Table
  <2>2. Kept[i] \in UsedEntries
    BY <2>1, UsedIsEntry
  <2> QED BY <1>3, <1>4, <1>5, <2>1, <2>2
<1>6. CASE i \notin Entries(Kept, d)
  <2>1. Entries(Kept, d) = {}
    BY <1>4, <1>6
  <2>2. Spare(Kept) # {} => i \in Spare(Kept)
    BY <2>1 DEF Chosen, First
  <2>3. Fresh(d) \in UsedEntries /\ Fresh(d).device = d
    BY <1>1, FreshType
  <2> QED BY <1>3, <1>4, <1>6, <2>1, <2>2, <2>3
<1> QED BY <1>5, <1>6

(* A packet leaves a table in which no device has two entries. *)
LEMMA ObserveKeeps ==
  ASSUME CacheTypeOK, NEW d \in Devices, NEW p \in Packets, observe(d, p)
  PROVE  cache' \in Table /\ Unique(cache')
<1>1. cache \in Table /\ Unique(cache) /\ now \in 0..(Wrap - 1)
  BY DEF CacheTypeOK, Table, Unique
<1>2. Kept \in Table /\ Unique(Kept)
  BY <1>1, KeptType
<1>3. PICK i \in Slots, e \in UsedEntries :
        /\ e.device = d
        /\ IF Entries(Kept, d) # {} THEN i \in Entries(Kept, d) /\ e = Kept[i]
           ELSE e = Fresh(d) /\ (Spare(Kept) # {} => i \in Spare(Kept))
        /\ cache' = [Kept EXCEPT ![i] = Joined(e, p)]
  BY ObserveEffect
<1>4. i \in Slots /\ (Entries(Kept, d) # {} => i \in Entries(Kept, d))
  BY <1>3
<1> DEFINE new == Joined(e, p)
<1>6. new \in UsedEntries /\ new.device = d
  BY <1>1, <1>3, JoinedType, CacheAssumption
<1>7. /\ cache' = [Kept EXCEPT ![i] = new] /\ cache'[i] = new
      /\ \A j \in Slots : j # i => cache'[j] = Kept[j]
  BY <1>2, <1>3, <1>4 DEF Table
<1> HIDE DEF new
<1>8. cache' \in Table
  BY <1>2, <1>6, <1>7 DEF Table
<1>9. \A j \in Slots : j # i /\ Kept[j].used => Kept[j].device # d
  <2> SUFFICES ASSUME NEW j \in Slots, j # i, Kept[j].used, Kept[j].device = d PROVE FALSE
    OBVIOUS
  <2>1. j \in Entries(Kept, d) /\ i \in Entries(Kept, d)
    BY <1>4 DEF Entries
  <2> QED BY <1>2, <1>4, <2>1 DEF Entries, Unique
<1>10. Unique(cache')
  <2> SUFFICES ASSUME NEW j \in Slots, NEW k \in Slots,
                      cache'[j].used, cache'[k].used, cache'[j].device = cache'[k].device
               PROVE  j = k
    BY DEF Unique
  <2>1. CASE j # i /\ k # i
    BY <1>2, <1>7, <2>1 DEF Unique
  <2>2. CASE j = i \/ k = i
    BY <1>6, <1>7, <1>9, <2>2
  <2> QED BY <2>1, <2>2
<1> QED BY <1>8, <1>10

-----------------------------------------------------------------------------
LEMMA CacheInit == Init => CacheTypeOK
BY SpareIsUnused DEF Init, CacheTypeOK

LEMMA ResetKeeps ==
  ASSUME CacheTypeOK, adv_reset
  PROVE  cache' \in Table /\ Unique(cache')
BY SpareIsUnused DEF adv_reset, Table, Unique

LEMMA CacheStep == CacheTypeOK /\ [Next]_vars => CacheTypeOK'
<1> SUFFICES ASSUME CacheTypeOK, [Next]_vars PROVE CacheTypeOK'
  OBVIOUS
<1>0. cache' \in Table /\ Unique(cache') /\ now' \in 0..(Wrap - 1) /\ scanning' \in BOOLEAN
        => CacheTypeOK'
  BY DEF Table, Unique, CacheTypeOK
<1>t. cache \in Table /\ Unique(cache) /\ now \in 0..(Wrap - 1) /\ scanning \in BOOLEAN
  BY DEF Table, Unique, CacheTypeOK
<1>1. ASSUME NEW d \in Devices, NEW p \in Packets, AdvertisingReport(d, p) PROVE CacheTypeOK'
  BY <1>0, <1>t, <1>1, ObserveKeeps DEF AdvertisingReport
<1>2. CASE scan_start
  BY Zenon, <1>0, <1>t, <1>2, ResetKeeps DEF scan_start
<1>3. CASE scan_stop
  BY Zenon, <1>0, <1>t, <1>3, ResetKeeps DEF scan_stop
<1>4. CASE Elapse
  <2>1. now' \in 0..(Wrap - 1)
    BY <1>t, <1>4, CacheAssumption DEF Elapse
  <2> QED BY <1>0, <1>t, <1>4, <2>1 DEF Elapse
<1>5. CASE UNCHANGED vars
  BY <1>0, <1>t, <1>5 DEF vars
<1> QED BY <1>1, <1>2, <1>3, <1>4, <1>5 DEF Next

(* A device has one entry at most, whatever expires, is replaced or is      *)
(* heard in between (uni_bt_le_advertisement.c, uni_bt_le_adv_observe).     *)
THEOREM OneEntryPerDevice == Spec => []CacheTypeOK
<1>1. Init => CacheTypeOK
  BY CacheInit
<1>2. CacheTypeOK /\ [Next]_vars => CacheTypeOK'
  BY CacheStep
<1> QED BY <1>1, <1>2, PTL DEF Spec

-----------------------------------------------------------------------------
(***************************************************************************)
(* What an entry says, and what its packets say together                   *)
(***************************************************************************)
Completes(H) == \E q \in H : q.complete /\ q.name # ""
Named(H) == {q \in H : q.name # "" /\ (q.complete \/ ~Completes(H))}
Shown(H) == {q.appearance : q \in H} \ {"absent"}
Hid(H) == \E q \in H : q.hid
Announced(H) == \E q \in H : q.iine

\* Agrees, field by field.
Reads(e, H) ==
  /\ e.hid <=> Hid(H)
  /\ e.iine <=> Announced(H)
  /\ e.complete <=> Completes(H)
  /\ IF Shown(H) = {} THEN e.appearance = "unset" ELSE e.appearance \in Shown(H)
  /\ IF Named(H) = {} THEN e.name = "" ELSE \E q \in Named(H) : e.name = q.name

LEMMA SaysFields ==
  ASSUME NEW H
  PROVE  /\ Says(H).hid = Hid(H) /\ Says(H).iine = Announced(H)
         /\ Says(H).complete = Completes(H) /\ Says(H).appearances = Shown(H)
         /\ Says(H).names = {q.name : q \in Named(H)}
BY Zenon DEF Says, Hid, Announced, Completes, Shown, Named

LEMMA AgreesFieldwise ==
  ASSUME NEW e \in UsedEntries, NEW H PROVE Agrees(e, Says(H)) <=> Reads(e, H)
<1>1. e.hid \in BOOLEAN /\ e.iine \in BOOLEAN /\ e.complete \in BOOLEAN
  BY DEF UsedEntries
<1>2. Hid(H) \in BOOLEAN /\ Announced(H) \in BOOLEAN /\ Completes(H) \in BOOLEAN
  BY Zenon DEF Hid, Announced, Completes
<1> DEFINE said == Says(H)
<1>3. /\ said.hid = Hid(H) /\ said.iine = Announced(H)
      /\ said.complete = Completes(H) /\ said.appearances = Shown(H)
      /\ said.names = {q.name : q \in Named(H)}
  BY SaysFields
<1> HIDE DEF said
<1>4. (e.hid = said.hid <=> (e.hid <=> Hid(H))) /\ (e.iine = said.iine <=> (e.iine <=> Announced(H)))
      /\ (e.complete = said.complete <=> (e.complete <=> Completes(H)))
  BY Zenon, <1>1, <1>2, <1>3
<1>5. e.appearance \in (IF said.appearances = {} THEN {"unset"} ELSE said.appearances)
      <=> IF Shown(H) = {} THEN e.appearance = "unset" ELSE e.appearance \in Shown(H)
  BY <1>3
<1>6. e.name \in (IF said.names = {} THEN {""} ELSE said.names)
      <=> IF Named(H) = {} THEN e.name = "" ELSE \E q \in Named(H) : e.name = q.name
  BY <1>3
<1>7. Agrees(e, said) <=> Reads(e, H)
  BY Zenon, <1>4, <1>5, <1>6 DEF Agrees, Reads
<1> QED BY <1>7 DEF said

(* An entry that has just been begun says what no packet says, *)
LEMMA FreshReads ==
  ASSUME NEW d PROVE Reads(Fresh(d), {})
<1>1. /\ Fresh(d).hid = FALSE /\ Fresh(d).iine = FALSE /\ Fresh(d).complete = FALSE
      /\ Fresh(d).appearance = "unset" /\ Fresh(d).name = ""
  BY DEF Fresh
<1>2. ~Hid({}) /\ ~Announced({}) /\ ~Completes({}) /\ Shown({}) = {} /\ Named({}) = {}
  BY DEF Hid, Announced, Completes, Shown, Named
<1> QED BY <1>1, <1>2 DEF Reads

LEMMA JoinedFields ==
  ASSUME NEW e \in UsedEntries, NEW p \in AllPackets
  PROVE  LET j == Joined(e, p)
             named == p.name # "" /\ (p.complete \/ ~e.complete)
         IN  /\ j.last = now /\ j.used /\ j.device = e.device
             /\ j.hid <=> e.hid \/ p.hid
             /\ j.iine <=> e.iine \/ p.iine
             /\ j.appearance = IF p.appearance = "absent" THEN e.appearance ELSE p.appearance
             /\ j.name = IF named THEN p.name ELSE e.name
             /\ j.complete <=> IF named THEN p.complete ELSE e.complete
<1> DEFINE named == p.name # "" /\ (p.complete \/ ~e.complete)
           appearance == IF p.appearance = "absent" THEN e.appearance ELSE p.appearance
           name == IF named THEN p.name ELSE e.name
           complete == IF named THEN p.complete ELSE e.complete
           hid == e.hid \/ p.hid
           iine == e.iine \/ p.iine
           j == [e EXCEPT !.last = now, !.hid = hid, !.iine = iine,
                          !.appearance = appearance, !.name = name, !.complete = complete]
<1>1. Joined(e, p) = j
  BY Zenon DEF Joined
<1>2. e.used
  BY EntryIsUsed
<1> HIDE DEF named, appearance, name, complete, hid, iine
<1>3. /\ j.last = now /\ j.used = e.used /\ j.device = e.device /\ j.hid = hid /\ j.iine = iine
      /\ j.appearance = appearance /\ j.name = name /\ j.complete = complete
  BY Zenon DEF UsedEntries
<1> HIDE DEF j
<1> QED BY Zenon, <1>1, <1>2, <1>3 DEF named, appearance, name, complete, hid, iine

(* and joining a packet joins what it says. *)
LEMMA JoinedReads ==
  ASSUME NEW e \in UsedEntries, NEW p \in AllPackets, NEW H \in SUBSET AllPackets, Reads(e, H)
  PROVE  Reads(Joined(e, p), H \union {p})
<1> DEFINE j == Joined(e, p)
           I == H \union {p}
           named == p.name # "" /\ (p.complete \/ ~e.complete)
<1>1. /\ j.hid <=> e.hid \/ p.hid
      /\ j.iine <=> e.iine \/ p.iine
      /\ j.appearance = IF p.appearance = "absent" THEN e.appearance ELSE p.appearance
      /\ j.name = IF named THEN p.name ELSE e.name
      /\ j.complete <=> IF named THEN p.complete ELSE e.complete
  BY Zenon, JoinedFields
<1> HIDE DEF j
<1>2. j.hid <=> Hid(I)
  BY <1>1 DEF Reads, Hid
<1>3. j.iine <=> Announced(I)
  BY <1>1 DEF Reads, Announced
<1>4. Completes(I) <=> e.complete \/ (p.complete /\ p.name # "")
  BY DEF Reads, Completes
<1>5. j.complete <=> Completes(I)
  BY <1>1, <1>4
<1>6. IF Shown(I) = {} THEN j.appearance = "unset" ELSE j.appearance \in Shown(I)
  <2>1. CASE p.appearance = "absent"
    <3>1. Shown(I) = Shown(H)
      BY <2>1 DEF Shown
    <3> QED BY <1>1, <2>1, <3>1 DEF Reads
  <2>2. CASE p.appearance # "absent"
    <3>1. p.appearance \in Shown(I)
      BY <2>2 DEF Shown
    <3> QED BY <1>1, <2>2, <3>1
  <2> QED BY <2>1, <2>2
<1>7. IF Named(I) = {} THEN j.name = "" ELSE \E q \in Named(I) : j.name = q.name
  <2>1. CASE named
    <3>1. p \in Named(I)
      BY <1>4, <2>1 DEF Named
    <3> QED BY <1>1, <2>1, <3>1
  <2>2. CASE ~named
    <3>1. p \notin Named(I) /\ (Completes(I) <=> Completes(H))
      BY <1>4, <2>2 DEF Named, Reads
    <3>2. Named(I) = Named(H)
      BY <3>1 DEF Named
    <3> QED BY <1>1, <2>2, <3>2 DEF Reads
  <2> QED BY <2>1, <2>2
<1> HIDE DEF I
<1>8. Reads(j, I)
  BY <1>2, <1>3, <1>5, <1>6, <1>7 DEF Reads
<1> QED BY <1>8 DEF j, I

(* Whoever is classed as an input device has said so. *)
LEMMA ClassIsSaid ==
  ASSUME NEW e \in UsedEntries, NEW H, Reads(e, H), Cod(e) # "none"
  PROVE  \E p \in H : OffersInput(p)
<1>1. \/ e.hid \/ e.iine \/ (e.complete /\ e.name \in {"iine", "xiaomi"})
      \/ e.appearance \in {"keyboard", "mouse", "joystick", "gamepad"}
  BY DEF Cod, IsIine
<1>2. CASE e.hid \/ e.iine
  BY <1>2 DEF Reads, Hid, Announced, OffersInput
<1>3. CASE e.complete /\ e.name \in {"iine", "xiaomi"}
  <2>1. Completes(H) /\ e.name # ""
    BY <1>3 DEF Reads
  <2>2. PICK q \in Named(H) : e.name = q.name
    BY <2>1 DEF Reads
  <2> QED BY <1>3, <2>1, <2>2 DEF Named, OffersInput
<1>4. CASE e.appearance \in {"keyboard", "mouse", "joystick", "gamepad"}
  <2>1. e.appearance \in Shown(H)
    BY <1>4 DEF Reads
  <2> QED BY <1>4, <2>1 DEF Shown, OffersInput
<1> QED BY <1>1, <1>2, <1>3, <1>4

-----------------------------------------------------------------------------
(***************************************************************************)
(* Age and silence                                                         *)
(***************************************************************************)
HistoryTypes ==
  /\ heard \in [Devices -> SUBSET Packets] /\ silent \in [Devices -> 0..TTL]
  /\ quiet \in 0..MaxQuiet /\ crowded \in BOOLEAN
  /\ \A d \in Devices : heard[d] = {} <=> silent[d] = TTL
  /\ IsFiniteSet(Audible)

\* An entry is as old as its device is silent: it is not old enough for the
\* clock to have wrapped, as whatever is heard of anyone removes what is old.
AgeIsSilence ==
  \A i \in Slots : cache[i].used =>
    /\ Age(cache[i]) < TTL + quiet
    /\ silent[cache[i].device] = IF Age(cache[i]) < TTL THEN Age(cache[i]) ELSE TTL

SaidByHeard ==
  \A i \in Slots : cache[i].used /\ Age(cache[i]) < TTL =>
    \E H \in SUBSET heard[cache[i].device] : H # {} /\ Reads(cache[i], H)
HeardIsSaid ==
  \A d \in Devices : heard[d] # {} /\ ~crowded =>
    \E i \in Slots : cache[i].used /\ cache[i].device = d /\ Reads(cache[i], heard[d])

CacheIInv == CacheTypeOK /\ HistoryTypes /\ AgeIsSilence /\ SaidByHeard /\ HeardIsSaid

\* The clock, and the age of what was heard at last, modulo Wrap.
LEMMA ClockRuns ==
  ASSUME NEW n \in 0..(Wrap - 1), NEW last \in 0..(Wrap - 1)
  PROVE  /\ (n - last) % Wrap = IF last <= n THEN n - last ELSE n - last + Wrap
         /\ (n + 1) % Wrap = IF n = Wrap - 1 THEN 0 ELSE n + 1
<1>1. Wrap \in Nat \ {0}
  BY CacheAssumption
<1> QED BY <1>1, SMTT(20)

LEMMA AgeGrows ==
  ASSUME NEW n \in 0..(Wrap - 1), NEW last \in 0..(Wrap - 1), ((n - last) % Wrap) + 1 < Wrap
  PROVE  (((n + 1) % Wrap) - last) % Wrap = ((n - last) % Wrap) + 1
<1>1. Wrap \in Nat \ {0}
  BY CacheAssumption
<1>2. (n + 1) % Wrap \in 0..(Wrap - 1)
  BY <1>1, ClockRuns
<1> DEFINE m == (n + 1) % Wrap
<1>3. (m - last) % Wrap = IF last <= m THEN m - last ELSE m - last + Wrap
  BY <1>2, ClockRuns
<1>4. m = (IF n = Wrap - 1 THEN 0 ELSE n + 1)
      /\ (n - last) % Wrap = IF last <= n THEN n - last ELSE n - last + Wrap
  BY ClockRuns
<1> HIDE DEF m
<1>5. (m - last) % Wrap = ((n - last) % Wrap) + 1
  BY <1>1, <1>3, <1>4
<1> QED BY <1>5 DEF m

LEMMA AgeType ==
  ASSUME CacheTypeOK, NEW i \in Slots, cache[i].used
  PROVE  /\ cache[i] \in UsedEntries /\ cache[i].device \in Devices
         /\ cache[i].last \in 0..(Wrap - 1) /\ Age(cache[i]) \in 0..(Wrap - 1)
<1>1. cache[i] \in UsedEntries /\ now \in 0..(Wrap - 1)
  BY UsedIsEntry DEF CacheTypeOK
<1>2. cache[i].last \in 0..(Wrap - 1) /\ cache[i].device \in Devices
  BY <1>1 DEF UsedEntries
<1>3. (now - cache[i].last) % Wrap \in 0..(Wrap - 1)
  BY <1>1, <1>2, ClockRuns, CacheAssumption
<1> QED BY <1>1, <1>2, <1>3 DEF Age

(* Time passes. *)
LEMMA ElapseKeeps ==
  ASSUME CacheIInv, Elapse, CacheTypeOK'
  PROVE  CacheIInv'
<1>t. /\ heard \in [Devices -> SUBSET Packets] /\ silent \in [Devices -> 0..TTL]
      /\ quiet \in 0..MaxQuiet /\ crowded \in BOOLEAN /\ IsFiniteSet(Audible)
      /\ \A d \in Devices : heard[d] = {} <=> silent[d] = TTL
      /\ now \in 0..(Wrap - 1) /\ CacheTypeOK
      /\ TTL \in Nat \ {0} /\ MaxQuiet \in Nat /\ Wrap \in Nat /\ TTL + MaxQuiet <= Wrap
  BY CacheAssumption DEF CacheIInv, HistoryTypes, CacheTypeOK
<1>e. /\ quiet < MaxQuiet /\ now' = (now + 1) % Wrap /\ quiet' = quiet + 1
      /\ silent' = [d \in Devices |-> IF silent[d] < TTL THEN silent[d] + 1 ELSE TTL]
      /\ heard' = [d \in Devices |-> IF silent'[d] < TTL THEN heard[d] ELSE {}]
      /\ UNCHANGED <<cache, scanning, crowded>>
  BY DEF Elapse
<1>1. \A d \in Devices :
        /\ silent[d] \in 0..TTL
        /\ silent'[d] = IF silent[d] < TTL THEN silent[d] + 1 ELSE TTL
        /\ heard'[d] = IF silent'[d] < TTL THEN heard[d] ELSE {}
  BY <1>t, <1>e
<1>2. ASSUME NEW i \in Slots, cache[i].used
      PROVE  /\ Age(cache[i])' = Age(cache[i]) + 1 /\ Age(cache[i]) \in 0..(Wrap - 1)
             /\ cache[i].device \in Devices /\ Age(cache[i]) < TTL + quiet
             /\ silent[cache[i].device] = IF Age(cache[i]) < TTL THEN Age(cache[i]) ELSE TTL
  <2>1. /\ cache[i].last \in 0..(Wrap - 1) /\ Age(cache[i]) \in 0..(Wrap - 1)
        /\ cache[i].device \in Devices
    BY <1>t, <1>2, AgeType
  <2>2. /\ Age(cache[i]) < TTL + quiet
        /\ silent[cache[i].device] = IF Age(cache[i]) < TTL THEN Age(cache[i]) ELSE TTL
    BY <1>2 DEF CacheIInv, AgeIsSilence
  <2>3. Age(cache[i]) + 1 < Wrap
    BY <1>t, <1>e, <2>1, <2>2
  <2>4. (((now + 1) % Wrap) - cache[i].last) % Wrap = ((now - cache[i].last) % Wrap) + 1
    BY <1>t, <2>1, <2>3, AgeGrows DEF Age
  <2> QED BY <1>e, <2>1, <2>2, <2>4 DEF Age
<1>3. HistoryTypes'
  <2>1. heard' \in [Devices -> SUBSET Packets] /\ silent' \in [Devices -> 0..TTL]
    BY <1>t, <1>e
  <2>2. \A d \in Devices : heard'[d] = {} <=> silent'[d] = TTL
    BY <1>t, <1>1
  <2>3. Audible' \in SUBSET Audible
    BY <1>1 DEF Audible
  <2>4. IsFiniteSet(Audible')
    BY <1>t, <2>3, FS_Subset
  <2>5. quiet' \in 0..MaxQuiet /\ crowded' \in BOOLEAN
    BY <1>t, <1>e
  <2> QED BY <2>1, <2>2, <2>4, <2>5 DEF HistoryTypes, Audible
<1>4. AgeIsSilence'
  <2> SUFFICES ASSUME NEW i \in Slots, cache[i].used
               PROVE  /\ Age(cache[i])' < TTL + quiet'
                      /\ silent'[cache[i].device] =
                           IF Age(cache[i])' < TTL THEN Age(cache[i])' ELSE TTL
    BY <1>e DEF AgeIsSilence, Age
  <2> QED BY <1>t, <1>e, <1>1, <1>2
<1>5. SaidByHeard'
  <2> SUFFICES ASSUME NEW i \in Slots, cache'[i].used, Age(cache[i])' < TTL
               PROVE  \E H \in SUBSET heard'[cache'[i].device] : H # {} /\ Reads(cache'[i], H)
    BY DEF SaidByHeard
  <2>0. cache'[i] = cache[i] /\ cache[i].used
    BY <1>e
  <2>1. heard'[cache[i].device] = heard[cache[i].device] /\ Age(cache[i]) < TTL
    BY <1>t, <1>1, <1>2, <2>0
  <2> QED BY <2>0, <2>1 DEF CacheIInv, SaidByHeard
<1>6. HeardIsSaid'
  <2> SUFFICES ASSUME NEW d \in Devices, heard'[d] # {}, ~crowded'
               PROVE  \E i \in Slots : /\ cache'[i].used /\ cache'[i].device = d
                                       /\ Reads(cache'[i], heard'[d])
    BY DEF HeardIsSaid
  <2>1. heard'[d] = heard[d] /\ cache' = cache /\ ~crowded
    BY <1>1, <1>e
  <2> QED BY <2>1 DEF CacheIInv, HeardIsSaid
<1> QED BY <1>3, <1>4, <1>5, <1>6 DEF CacheIInv

(* Whenever the scan starts or stops, everything is forgotten. *)
LEMMA ForgetKeeps ==
  ASSUME CacheTypeOK', adv_reset
  PROVE  CacheIInv'
<1>1. \A i \in Slots : ~cache'[i].used
  BY SpareIsUnused DEF adv_reset
<1>2. /\ heard' = [d \in Devices |-> {}] /\ silent' = [d \in Devices |-> TTL]
      /\ quiet' = 0 /\ crowded' = FALSE
  BY DEF adv_reset, Forgotten
<1>3. Audible' = {}
  BY <1>2 DEF Audible
<1>4. IsFiniteSet(Audible')
  BY <1>3, FS_EmptySet
<1>5. HistoryTypes'
  <2>1. /\ heard' \in [Devices -> SUBSET Packets] /\ silent' \in [Devices -> 0..TTL]
        /\ quiet' \in 0..MaxQuiet /\ crowded' \in BOOLEAN
    <3>1. {} \in SUBSET Packets /\ TTL \in 0..TTL /\ 0 \in 0..MaxQuiet
      BY CacheAssumption
    <3> QED BY <1>2, <3>1
  <2>2. \A d \in Devices : heard'[d] = {} <=> silent'[d] = TTL
    BY <1>2
  <2> QED BY <1>4, <2>1, <2>2 DEF HistoryTypes
<1>6. AgeIsSilence' /\ SaidByHeard' /\ HeardIsSaid'
  BY <1>1, <1>2 DEF AgeIsSilence, SaidByHeard, HeardIsSaid
<1> QED BY <1>5, <1>6 DEF CacheIInv

LEMMA ForgottenInit == Init => CacheIInv
<1> SUFFICES ASSUME Init PROVE CacheIInv
  OBVIOUS
<1>1. CacheTypeOK /\ \A i \in Slots : ~cache[i].used
  BY CacheInit, SpareIsUnused DEF Init
<1>2. /\ heard = [d \in Devices |-> {}] /\ silent = [d \in Devices |-> TTL]
      /\ quiet = 0 /\ crowded = FALSE
  BY DEF Init
<1>3. Audible = {}
  BY <1>2 DEF Audible
<1>4. IsFiniteSet(Audible)
  BY <1>3, FS_EmptySet
<1>5. HistoryTypes
  <2>1. /\ heard \in [Devices -> SUBSET Packets] /\ silent \in [Devices -> 0..TTL]
        /\ quiet \in 0..MaxQuiet /\ crowded \in BOOLEAN
    <3>1. {} \in SUBSET Packets /\ TTL \in 0..TTL /\ 0 \in 0..MaxQuiet
      BY CacheAssumption
    <3> QED BY <1>2, <3>1
  <2>2. \A d \in Devices : heard[d] = {} <=> silent[d] = TTL
    BY <1>2
  <2> QED BY <1>4, <2>1, <2>2 DEF HistoryTypes
<1>6. AgeIsSilence /\ SaidByHeard /\ HeardIsSaid
  BY <1>1, <1>2 DEF AgeIsSilence, SaidByHeard, HeardIsSaid
<1> QED BY <1>1, <1>5, <1>6 DEF CacheIInv

-----------------------------------------------------------------------------
(***************************************************************************)
(* A packet arrives                                                        *)
(***************************************************************************)
(* Whose entry is not too old has been heard since its last silence. *)
LEMMA YoungIsAudible ==
  ASSUME CacheIInv, NEW i \in Slots, cache[i].used, Age(cache[i]) < TTL
  PROVE  cache[i].device \in Audible /\ silent[cache[i].device] = Age(cache[i])
<1>1. cache[i].device \in Devices /\ Age(cache[i]) \in 0..(Wrap - 1)
  BY AgeType DEF CacheIInv
<1>2. silent[cache[i].device] = Age(cache[i])
  BY DEF CacheIInv, AgeIsSilence
<1>3. silent[cache[i].device] # TTL
  BY <1>1, <1>2, CacheAssumption
<1> QED BY <1>1, <1>2, <1>3 DEF CacheIInv, HistoryTypes, Audible

(* What is kept is not too old. *)
LEMMA KeptIsYoung ==
  ASSUME CacheTypeOK, NEW i \in Slots
  PROVE  /\ Kept[i].used => Kept[i] = cache[i] /\ Age(cache[i]) < TTL
         /\ cache[i].used /\ Age(cache[i]) < TTL => Kept[i] = cache[i]
<1>1. Kept[i] = IF Outlived(cache[i]) THEN Unused ELSE cache[i]
  BY DEF Kept
<1>2. cache[i].used => Age(cache[i]) \in 0..(Wrap - 1)
  BY AgeType
<1> QED BY <1>1, <1>2, SpareIsUnused, CacheAssumption DEF Outlived

(* As long as no more devices are heard than there are slots, a device that *)
(* has no entry finds a spare slot.                                         *)
LEMMA RoomLeft ==
  ASSUME CacheIInv, NEW d \in Devices, Entries(Kept, d) = {},
         Cardinality(Audible \union {d}) <= Size
  PROVE  Spare(Kept) # {}
<1> SUFFICES ASSUME Spare(Kept) = {} PROVE FALSE
  OBVIOUS
<1>0. Size \in Nat \ {0}
  BY CacheAssumption
<1>1. IsFiniteSet(Audible) /\ CacheTypeOK
  BY DEF CacheIInv, HistoryTypes
<1>2. Unique(Kept)
  BY <1>1, KeptType DEF CacheTypeOK, Table, Unique
<1> DEFINE All == Audible \union {d}
           Others == All \ {d}
           holder == [i \in Slots |-> Kept[i].device]
<1>3. IsFiniteSet(All)
  BY <1>1, FS_AddElement
<1>4. IsFiniteSet(Others) /\ Cardinality(Others) = Cardinality(All) - 1
  BY <1>3, FS_RemoveElement
<1>5. Cardinality(All) \in Nat
  BY <1>3, FS_CardinalityType
<1>6. IsFiniteSet(Slots) /\ Cardinality(Slots) = Size
  BY <1>0, FS_Interval DEF Slots
<1>7. Cardinality(Others) < Cardinality(Slots)
  BY <1>0, <1>4, <1>5, <1>6
<1>8. ASSUME NEW i \in Slots PROVE Kept[i].used /\ Kept[i].device \in Others
  <2>1. Kept[i].used
    BY <1>8 DEF Spare
  <2>2. Kept[i].device # d
    BY <1>8, <2>1 DEF Entries
  <2>3. Kept[i].device \in Audible
    BY <1>1, <2>1, KeptIsYoung, YoungIsAudible
  <2> QED BY <2>1, <2>2, <2>3
<1>9. holder \in [Slots -> Others]
  BY <1>8
<1>10. PICK i \in Slots, j \in Slots : i # j /\ holder[i] = holder[j]
  <2> HIDE DEF holder, Others
  <2> QED BY <1>4, <1>6, <1>7, <1>9, FS_PigeonHole
<1> QED BY <1>2, <1>8, <1>10 DEF Unique

(* A packet is joined to what was heard, and what the others said is kept. *)
LEMMA ReportKeeps ==
  ASSUME CacheIInv, NEW d \in Devices, NEW p \in Packets, AdvertisingReport(d, p), CacheTypeOK'
  PROVE  CacheIInv'
<1>t. /\ heard \in [Devices -> SUBSET Packets] /\ silent \in [Devices -> 0..TTL]
      /\ quiet \in 0..MaxQuiet /\ crowded \in BOOLEAN /\ IsFiniteSet(Audible)
      /\ \A a \in Devices : heard[a] = {} <=> silent[a] = TTL
      /\ now \in 0..(Wrap - 1) /\ CacheTypeOK /\ p \in AllPackets
      /\ TTL \in Nat \ {0} /\ MaxQuiet \in Nat /\ Wrap \in Nat
  BY CacheAssumption DEF CacheIInv, HistoryTypes, CacheTypeOK
<1>e. /\ observe(d, p) /\ now' = now /\ quiet' = 0
      /\ heard' = [heard EXCEPT ![d] = heard[d] \union {p}] /\ silent' = [silent EXCEPT ![d] = 0]
      /\ crowded' = (crowded \/ Cardinality(Audible \union {d}) > Size)
  BY DEF AdvertisingReport
<1>h. /\ heard'[d] = heard[d] \union {p} /\ silent'[d] = 0
      /\ \A a \in Devices : a # d => heard'[a] = heard[a] /\ silent'[a] = silent[a]
  BY <1>t, <1>e
<1>1. PICK i \in Slots, e \in UsedEntries :
        /\ e.device = d
        /\ IF Entries(Kept, d) # {} THEN i \in Entries(Kept, d) /\ e = Kept[i]
           ELSE e = Fresh(d) /\ (Spare(Kept) # {} => i \in Spare(Kept))
        /\ cache' = [Kept EXCEPT ![i] = Joined(e, p)]
  BY <1>t, <1>e, ObserveEffect
<1>2. Kept \in Table /\ Unique(Kept) /\ Unique(cache)
  BY <1>t, KeptType DEF CacheTypeOK, Table, Unique
<1> DEFINE new == Joined(e, p)
<1>3. /\ cache'[i] = new /\ \A j \in Slots : j # i => cache'[j] = Kept[j]
  BY <1>1, <1>2 DEF Table
<1>4. new.used /\ new.device = d /\ new.last = now
  BY Zenon, <1>t, <1>1, JoinedFields
<1> HIDE DEF new
\* The entry that takes the packet is as young as can be,
<1>5. Age(cache[i])' = 0
  <2>1. (now - now) % Wrap = 0
    BY <1>t, ClockRuns
  <2> QED BY <1>3, <1>4, <1>e, <2>1 DEF Age
\* and every other one is another device's, was not too old, and stays as it is.
<1>6. ASSUME NEW j \in Slots, j # i, cache'[j].used
      PROVE  /\ cache'[j] = cache[j] /\ cache[j].used /\ cache[j].device \in Devices \ {d}
             /\ Age(cache[j])' = Age(cache[j]) /\ Age(cache[j]) < TTL
             /\ Age(cache[j]) \in 0..(Wrap - 1)
             /\ cache[j].device \in Audible /\ silent[cache[j].device] = Age(cache[j])
  <2>1. cache'[j] = Kept[j] /\ Kept[j].used
    BY <1>3, <1>6
  <2>2. Kept[j] = cache[j] /\ Age(cache[j]) < TTL
    BY <1>t, <2>1, KeptIsYoung
  <2>3. cache[j].device \in Devices /\ Age(cache[j]) \in 0..(Wrap - 1)
    BY <1>t, <2>1, <2>2, AgeType
  <2>4. cache[j].device # d
    <3>1. CASE cache[j].device = d
      <4>1. j \in Entries(Kept, d)
        BY <2>1, <2>2, <3>1 DEF Entries
      <4>2. i \in Entries(Kept, d)
        BY <1>1, <4>1
      <4> QED BY <1>2, <1>6, <4>1, <4>2 DEF Entries, Unique
    <3> QED BY <3>1
  <2>5. Age(cache[j])' = Age(cache[j])
    BY <1>e, <2>1, <2>2 DEF Age
  <2> QED BY <2>1, <2>2, <2>3, <2>4, <2>5, YoungIsAudible
<1>7. HistoryTypes'
  <2>1. heard' \in [Devices -> SUBSET Packets] /\ silent' \in [Devices -> 0..TTL]
    <3>1. heard[d] \union {p} \in SUBSET Packets /\ 0 \in 0..TTL
      BY <1>t
    <3> QED BY <1>t, <1>e, <3>1
  <2>2. \A a \in Devices : heard'[a] = {} <=> silent'[a] = TTL
    BY <1>t, <1>h
  <2>3. Audible' \in SUBSET (Audible \union {d})
    BY <1>h DEF Audible
  <2>4. IsFiniteSet(Audible')
    <3>1. IsFiniteSet(Audible \union {d})
      BY <1>t, FS_AddElement
    <3> QED BY <2>3, <3>1, FS_Subset
  <2>5. quiet' \in 0..MaxQuiet /\ crowded' \in BOOLEAN
    BY <1>t, <1>e
  <2> QED BY <2>1, <2>2, <2>4, <2>5 DEF HistoryTypes
<1>8. AgeIsSilence'
  <2> SUFFICES ASSUME NEW j \in Slots, cache'[j].used
               PROVE  /\ Age(cache[j])' < TTL + quiet'
                      /\ silent'[cache'[j].device] =
                           IF Age(cache[j])' < TTL THEN Age(cache[j])' ELSE TTL
    BY DEF AgeIsSilence
  <2>1. CASE j = i
    BY <1>t, <1>e, <1>h, <1>3, <1>4, <1>5, <2>1
  <2>2. CASE j # i
    BY <1>t, <1>e, <1>h, <1>6, <2>2
  <2> QED BY <2>1, <2>2
<1>9. SaidByHeard'
  <2> SUFFICES ASSUME NEW j \in Slots, cache'[j].used, Age(cache[j])' < TTL
               PROVE  \E H \in SUBSET heard'[cache'[j].device] : H # {} /\ Reads(cache'[j], H)
    BY DEF SaidByHeard
  <2>1. CASE j # i
    BY <1>h, <1>6, <2>1 DEF CacheIInv, SaidByHeard
  <2>2. CASE j = i /\ Entries(Kept, d) # {}
    <3>1. Kept[i].used /\ Kept[i].device = d /\ e = Kept[i]
      BY <1>1, <2>2 DEF Entries
    <3>2. e = cache[i] /\ Age(cache[i]) < TTL
      BY <1>t, <3>1, KeptIsYoung
    <3>3. PICK H \in SUBSET heard[d] : H # {} /\ Reads(e, H)
      BY <3>1, <3>2 DEF CacheIInv, SaidByHeard
    <3>4. H \in SUBSET AllPackets
      BY <1>t, CacheAssumption
    <3>5. Reads(new, H \union {p})
      BY <1>t, <3>3, <3>4, JoinedReads DEF new
    <3> QED BY <1>h, <1>3, <1>4, <2>2, <3>5
  <2>3. CASE j = i /\ Entries(Kept, d) = {}
    <3>1. Reads(e, {})
      BY <1>1, <2>3, FreshReads
    <3>2. Reads(new, {} \union {p})
      BY <1>t, <3>1, JoinedReads DEF new
    <3>3. {} \union {p} \in SUBSET heard'[d] /\ {} \union {p} # {}
      BY <1>h
    <3> QED BY <1>3, <1>4, <2>3, <3>2, <3>3
  <2> QED BY <2>1, <2>2, <2>3
<1>10. HeardIsSaid'
  <2> SUFFICES ASSUME NEW a \in Devices, heard'[a] # {}, ~crowded'
               PROVE  \E j \in Slots : /\ cache'[j].used /\ cache'[j].device = a
                                       /\ Reads(cache'[j], heard'[a])
    BY DEF HeardIsSaid
  <2>1. ~crowded /\ ~(Cardinality(Audible \union {d}) > Size)
    BY <1>t, <1>e
  <2>2. Cardinality(Audible \union {d}) <= Size
    <3>1. IsFiniteSet(Audible \union {d})
      BY <1>t, FS_AddElement
    <3>2. Cardinality(Audible \union {d}) \in Nat
      BY <3>1, FS_CardinalityType
    <3> QED BY <2>1, <3>2, CacheAssumption
  \* Of whom something is heard there is an entry that is not too old.
  <2>3. ASSUME NEW b \in Devices, heard[b] # {}
        PROVE  \E j \in Slots : /\ Kept[j] = cache[j] /\ cache[j].used
                               /\ cache[j].device = b /\ Reads(cache[j], heard[b])
    <3>1. PICK j \in Slots : cache[j].used /\ cache[j].device = b /\ Reads(cache[j], heard[b])
      BY <2>1, <2>3 DEF CacheIInv, HeardIsSaid
    <3>2. silent[b] # TTL
      BY <1>t, <2>3
    <3>3. Age(cache[j]) \in 0..(Wrap - 1)
      BY <1>t, <3>1, AgeType
    <3>4. Age(cache[j]) < TTL
      BY <3>1, <3>2, <3>3 DEF CacheIInv, AgeIsSilence
    <3> QED BY <1>t, <3>1, <3>4, KeptIsYoung
  <2>4. CASE a # d
    <3>1. heard'[a] = heard[a]
      BY <1>h, <2>4
    <3>2. PICK j \in Slots : /\ Kept[j] = cache[j] /\ cache[j].used
                            /\ cache[j].device = a /\ Reads(cache[j], heard[a])
      BY <2>3, <3>1
    <3>3. j # i
      <4>1. CASE Entries(Kept, d) # {}
        BY <1>1, <2>4, <3>2, <4>1 DEF Entries
      <4>2. CASE Entries(Kept, d) = {}
        BY <1>1, <2>2, <3>2, <4>2, RoomLeft DEF Spare
      <4> QED BY <4>1, <4>2
    <3> QED BY <1>3, <3>1, <3>2, <3>3
  <2>5. CASE a = d
    <3>1. CASE Entries(Kept, d) # {}
      <4>1. Kept[i].used /\ Kept[i].device = d /\ e = Kept[i]
        BY <1>1, <3>1 DEF Entries
      <4>2. e = cache[i] /\ Age(cache[i]) < TTL
        BY <1>t, <4>1, KeptIsYoung
      <4>3. heard[d] # {}
        BY <4>1, <4>2, YoungIsAudible DEF Audible
      <4>4. PICK j \in Slots : /\ cache[j].used /\ cache[j].device = d
                              /\ Reads(cache[j], heard[d])
        BY <2>3, <4>3
      <4>5. Reads(e, heard[d])
        BY <1>2, <4>1, <4>2, <4>4 DEF Unique
      <4>6. heard[d] \in SUBSET AllPackets
        BY <1>t, CacheAssumption
      <4>7. Reads(new, heard[d] \union {p})
        BY <1>t, <4>5, <4>6, JoinedReads DEF new
      <4> QED BY <1>h, <1>3, <1>4, <2>5, <4>7
    <3>2. CASE Entries(Kept, d) = {}
      <4>1. heard[d] = {}
        BY <2>3, <3>2 DEF Entries
      <4>2. Reads(e, {})
        BY <1>1, <3>2, FreshReads
      <4>3. Reads(new, {} \union {p})
        BY <1>t, <4>2, JoinedReads DEF new
      <4> QED BY <1>h, <1>3, <1>4, <2>5, <4>1, <4>3
    <3> QED BY <3>1, <3>2
  <2> QED BY <2>4, <2>5
<1> QED BY <1>7, <1>8, <1>9, <1>10 DEF CacheIInv

-----------------------------------------------------------------------------
LEMMA CacheIInvStep == CacheIInv /\ [Next]_vars => CacheIInv'
<1> SUFFICES ASSUME CacheIInv, [Next]_vars PROVE CacheIInv'
  OBVIOUS
<1>0. CacheTypeOK'
  BY CacheStep DEF CacheIInv
<1>1. ASSUME NEW d \in Devices, NEW p \in Packets, AdvertisingReport(d, p) PROVE CacheIInv'
  BY <1>0, <1>1, ReportKeeps
<1>s. ASSUME UNCHANGED <<cache, now, history>> PROVE CacheIInv'
  <2>1. /\ cache' = cache /\ now' = now /\ heard' = heard /\ silent' = silent
        /\ quiet' = quiet /\ crowded' = crowded
    BY <1>s DEF history
  <2> QED BY <1>0, <2>1 DEF CacheIInv, HistoryTypes, Audible, AgeIsSilence, Age,
                            SaidByHeard, HeardIsSaid
<1>2. CASE scan_start
  BY <1>0, <1>2, <1>s, ForgetKeeps DEF scan_start
<1>3. CASE scan_stop
  BY <1>0, <1>3, ForgetKeeps DEF scan_stop
<1>4. CASE Elapse
  BY <1>0, <1>4, ElapseKeeps
<1>5. CASE UNCHANGED vars
  BY <1>5, <1>s DEF vars
<1> QED BY <1>1, <1>2, <1>3, <1>4, <1>5 DEF Next

(* An entry is exactly as old as its device is silent, it says what some of *)
(* the packets since the last silence say, and all of them while there is   *)
(* room (uni_bt_le_adv_observe with the milliseconds of the run loop,       *)
(* modulo Wrap).                                                            *)
THEOREM CacheInvariant == Spec => []CacheIInv
<1>1. Init => CacheIInv
  BY ForgottenInit
<1>2. CacheIInv /\ [Next]_vars => CacheIInv'
  BY CacheIInvStep
<1> QED BY <1>1, <1>2, PTL DEF Spec

(* A device is judged by all its packets since it was last silent, and by   *)
(* no older one; none is offered that never said it is an input device      *)
(* (uni_bt_le_adv_observe, uni_bt_le_adv_cod; uni_bt_le_scan_start and      *)
(* uni_bt_le_scan_stop).                                                    *)
THEOREM JudgedFairly == Spec => []JudgedByWhatWasHeard
<1>1. CacheIInv => JudgedByWhatWasHeard
  <2> SUFFICES ASSUME CacheIInv PROVE JudgedByWhatWasHeard
    OBVIOUS
  <2>0. CacheTypeOK
    BY DEF CacheIInv
  <2>1. ASSUME NEW i \in Slots, cache[i].used, Age(cache[i]) < TTL
        PROVE  /\ \E H \in SUBSET heard[cache[i].device] : H # {} /\ Agrees(cache[i], Says(H))
               /\ Cod(cache[i]) # "none" =>
                    \E p \in heard[cache[i].device] : OffersInput(p)
    <3>1. cache[i] \in UsedEntries
      BY <2>0, <2>1, AgeType
    <3>2. PICK H \in SUBSET heard[cache[i].device] : H # {} /\ Reads(cache[i], H)
      BY <2>1 DEF CacheIInv, SaidByHeard
    <3>3. Agrees(cache[i], Says(H))
      BY <3>1, <3>2, AgreesFieldwise
    <3>4. Cod(cache[i]) # "none" => \E p \in H : OffersInput(p)
      BY <3>1, <3>2, ClassIsSaid
    <3> QED BY <3>2, <3>3, <3>4
  <2>2. ASSUME NEW d \in Devices, heard[d] # {}, ~crowded
        PROVE  \E i \in Slots : /\ cache[i].used /\ cache[i].device = d
                               /\ Agrees(cache[i], Says(heard[d]))
    <3>1. PICK i \in Slots : cache[i].used /\ cache[i].device = d /\ Reads(cache[i], heard[d])
      BY <2>2 DEF CacheIInv, HeardIsSaid
    <3>2. cache[i] \in UsedEntries
      BY <2>0, <3>1, AgeType
    <3> QED BY <3>1, <3>2, AgreesFieldwise
  <2> QED BY <2>1, <2>2 DEF JudgedByWhatWasHeard
<1> QED BY <1>1, CacheInvariant, PTL

=============================================================================
