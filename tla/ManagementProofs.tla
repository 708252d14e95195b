-------------------------- MODULE ManagementProofs --------------------------
(***************************************************************************)
(* The catalogue, the saves and the pages agree while games are managed,   *)
(* for any games, browsers and length of the list.  What the catalogue is  *)
(* to its users holds whatever httpd_stop does (Usage); that edits, prunes *)
(* and games do not overlap (TakeTurns) holds as long as it does not fail. *)
(***************************************************************************)
EXTENDS Management, TLAPS

Lists == { games \in Seq(Cat!Game) : Len(games) <= MaxRoms }

Working == {"upload", "delete", "rename", "publish", "remove_a", "remove_b"}
Editing == {"upload", "delete", "rename"}
Removing == {"remove_a", "remove_b"}

\* Who uses the catalogue, and what its view is worth to them.
CatalogInUse ==
  /\ status = "ready" => view = committed
  /\ trusted => status = "ready"
  /\ status = "off" <=> ui = "off"
  /\ status \in {"publishing", "written"} <=> http = "publish"
  /\ status = "written" => committed = goal
  /\ http \in Editing \union Removing => status = "ready"
  /\ http \in Editing \/ status = "publishing" => edition < MaxEdition

\* A game is a ROM's.
GameHasRom == ui = "game" => playing \in Roms

\* The server lives between its start and its stop, and only then.
OneTaskAtATime ==
  /\ http # "off" <=> ui \in {"page", "counting", "stopping"}
  /\ Pruning \/ ui = "game" => status = "ready"
  /\ ui = "game" => playing \in Roms /\ Listed(committed, playing)

\* An orphan is yet to be met.
PruneMeetsOrphans ==
  Pruning /\ okay => \A f \in Files(saves) : Live(f) \/ f \in unread

\* What is being done is what was asked for.
RequestInWork ==
  /\ http \in Working => answer = "none"
  /\ http \in Editing => request.op = http
  /\ http = "publish" => request.op \in Editing
  /\ request.shared => request.op = "delete"
  /\ http = "upload" => request.name \in Names /\ request.rom \in Roms
  /\ http = "rename" => request.name \in Names /\ request.row \in DOMAIN view
  /\ http = "delete" =>
       /\ request.row \in DOMAIN view
       /\ request.rom = view[request.row].rom
       /\ request.shared = SharedSave(request.row)
  /\ http = "publish" /\ request.op = "delete" =>
       request.rom \in Roms /\ (request.shared <=> Listed(goal, request.rom))
  /\ http \in Removing =>
       /\ request.op = "delete" /\ ~request.shared /\ request.rom \in Roms
       /\ ~Listed(committed, request.rom)
  /\ answer = "done" /\ request.op = "delete" => request.rom \in Roms

\* A page was the committed list of its generation.
PagesWereShown ==
  \A b \in Browsers :
    /\ page[b].generation <= edition
    /\ page[b].generation = edition => page[b].games \in {<<>>, committed}

\* The copies of a save are removed in order.
RemovedInOrder == http = "remove_b" /\ okay => "a" \notin saves[request.rom]

TakeTurns == OneTaskAtATime /\ PruneMeetsOrphans /\ RemovedInOrder /\ AnswersHold

ManagementIInv ==
  /\ TypeOK /\ CatalogInUse /\ GameHasRom /\ RequestInWork /\ PagesWereShown
  /\ ~StopMayFail => TakeTurns

-----------------------------------------------------------------------------
LEMMA Constants ==
  /\ MaxRoms \in Nat \ {0} /\ GenMod \in Nat \ {0} /\ MaxEdition \in Nat
  /\ MaxEdition <= GenMod - 1 /\ Playable \subseteq Roms
BY ManagementAssumption

(* Lists stay lists. *)
LEMMA ListFacts ==
  ASSUME NEW games \in Lists
  PROVE  /\ games \in Seq(Cat!Game) /\ Len(games) \in 0 .. MaxRoms
         /\ DOMAIN games = 1 .. Len(games)
         /\ \A i \in DOMAIN games :
              games[i] \in Cat!Game /\ games[i].name \in Names /\ games[i].rom \in Roms
<1>1. games \in Seq(Cat!Game) /\ Len(games) <= MaxRoms /\ MaxRoms \in Nat
  BY ManagementAssumption DEF Lists
<1>2. \A g \in Cat!Game : g.name \in Names /\ g.rom \in Roms
  BY DEF Cat!Game
<1> QED BY <1>1, <1>2

LEMMA EmptyIsList == <<>> \in Lists
BY ManagementAssumption DEF Lists

LEMMA AppendIsList ==
  ASSUME NEW games \in Lists, Len(games) < MaxRoms, NEW name \in Names, NEW rom \in Roms
  PROVE  Append(games, [name |-> name, rom |-> rom]) \in Lists
<1>1. [name |-> name, rom |-> rom] \in Cat!Game
  BY DEF Cat!Game
<1>2. Len(games) + 1 <= MaxRoms
  BY ListFacts, ManagementAssumption
<1> QED BY <1>1, <1>2 DEF Lists

LEMMA RenamedIsList ==
  ASSUME NEW games \in Lists, NEW i \in DOMAIN games, NEW name \in Names
  PROVE  [games EXCEPT ![i].name = name] \in Lists
<1> DEFINE new == [games EXCEPT ![i].name = name]
<1>1. /\ games \in [1 .. Len(games) -> Cat!Game] /\ Len(games) \in Nat
      /\ Len(games) <= MaxRoms /\ DOMAIN games = 1 .. Len(games)
  BY ListFacts
<1>2. [games[i] EXCEPT !.name = name] \in Cat!Game
  BY <1>1 DEF Cat!Game
<1>3. new \in [1 .. Len(games) -> Cat!Game]
  BY <1>1, <1>2
<1>4. new \in Seq(Cat!Game) /\ Len(new) = Len(games)
  BY <1>1, <1>3
<1> QED BY <1>1, <1>4 DEF Lists

(* A delete leaves the other rows. *)
LEMMA WithoutIsList ==
  ASSUME NEW games \in Lists, NEW i \in DOMAIN games
  PROVE  /\ RemoveAt(games, i) \in Lists
         /\ \A rom : Listed(RemoveAt(games, i), rom)
                    <=> \E j \in DOMAIN games : j # i /\ games[j].rom = rom
<1> DEFINE head == SubSeq(games, 1, i - 1)
           tail == SubSeq(games, i + 1, Len(games))
           new == head \o tail
<1>1. /\ games \in Seq(Cat!Game) /\ Len(games) \in Nat /\ i \in 1 .. Len(games)
      /\ DOMAIN games = 1 .. Len(games) /\ Len(games) <= MaxRoms
  BY ListFacts
<1>2. /\ head \in Seq(Cat!Game) /\ Len(head) = i - 1
      /\ \A j \in 1 .. i - 1 : head[j] = games[j]
  BY <1>1
<1>3. /\ tail \in Seq(Cat!Game) /\ Len(tail) = Len(games) - i
      /\ \A j \in 1 .. Len(games) - i : tail[j] = games[i + j]
  BY <1>1
<1> HIDE DEF head, tail
<1>4. /\ new \in Seq(Cat!Game) /\ Len(new) = Len(games) - 1
      /\ DOMAIN new = 1 .. Len(games) - 1
      /\ \A j \in 1 .. i - 1 : new[j] = head[j]
      /\ \A j \in i .. Len(games) - 1 : new[j] = tail[j - (i - 1)]
  <2>1. new \in Seq(Cat!Game) /\ Len(new) = Len(games) - 1
    <3>1. new \in Seq(Cat!Game) /\ Len(new) = Len(head) + Len(tail)
      BY <1>2, <1>3
    <3> QED BY <1>1, <1>2, <1>3, <3>1
  <2>2. DOMAIN new = 1 .. Len(games) - 1
    BY <2>1
  <2>3. \A j \in 1 .. i - 1 : new[j] = head[j]
    BY <1>1, <1>2, <1>3
  <2>4. \A j \in i .. Len(games) - 1 : new[j] = tail[j - (i - 1)]
    BY <1>1, <1>2, <1>3
  <2> QED BY <2>1, <2>2, <2>3, <2>4
<1>5. \A j \in 1 .. i - 1 : new[j] = games[j]
  BY <1>1, <1>2, <1>4
<1>6. \A j \in i .. Len(games) - 1 : new[j] = games[j + 1]
  <2> TAKE j \in i .. Len(games) - 1
  <2>1. j - (i - 1) \in 1 .. Len(games) - i /\ i + (j - (i - 1)) = j + 1
    BY <1>1
  <2> QED BY <2>1, <1>3, <1>4
<1> HIDE DEF new
<1>7. ASSUME NEW rom
      PROVE  Listed(new, rom) <=> \E j \in DOMAIN games : j # i /\ games[j].rom = rom
  <2>1. ASSUME NEW j \in DOMAIN new, new[j].rom = rom
        PROVE  \E k \in DOMAIN games : k # i /\ games[k].rom = rom
    <3>1. CASE j < i
      <4>1. j \in DOMAIN games /\ j # i /\ games[j].rom = rom
        BY <1>1, <1>4, <1>5, <2>1, <3>1
      <4> QED BY <4>1
    <3>2. CASE ~(j < i)
      <4>1. j + 1 \in DOMAIN games /\ j + 1 # i /\ games[j + 1].rom = rom
        BY <1>1, <1>4, <1>6, <2>1, <3>2
      <4> QED BY <4>1
    <3> QED BY <3>1, <3>2
  <2>2. ASSUME NEW k \in DOMAIN games, k # i, games[k].rom = rom
        PROVE  \E j \in DOMAIN new : new[j].rom = rom
    <3>1. CASE k < i
      <4>1. k \in DOMAIN new /\ new[k].rom = rom
        BY <1>1, <1>4, <1>5, <2>2, <3>1
      <4> QED BY <4>1
    <3>2. CASE ~(k < i)
      <4>1. k - 1 \in DOMAIN new /\ (k - 1) + 1 = k /\ k - 1 \in i .. Len(games) - 1
        BY <1>1, <1>4, <2>2, <3>2
      <4> QED BY <1>6, <2>2, <4>1
    <3> QED BY <3>1, <3>2
  <2> QED BY <2>1, <2>2 DEF Listed
<1>8. new \in Lists
  BY <1>1, <1>4, ManagementAssumption DEF Lists
<1> QED BY <1>7, <1>8 DEF RemoveAt, new, head, tail

-----------------------------------------------------------------------------
(* Files disappear one by one. *)
LEMMA WithoutFile ==
  ASSUME NEW f \in Roms \X Copies, saves \in [Roms -> SUBSET Copies]
  PROVE  /\ Without(f) \in [Roms -> SUBSET Copies]
         /\ Files(Without(f)) = Files(saves) \ {f}
         /\ \A rom \in Roms : Without(f)[rom] \subseteq saves[rom]
         /\ f[2] \notin Without(f)[f[1]]
<1>1. f[1] \in Roms /\ f[2] \in Copies /\ f = <<f[1], f[2]>>
  OBVIOUS
<1>2. /\ Without(f) \in [Roms -> SUBSET Copies]
      /\ Without(f)[f[1]] = saves[f[1]] \ {f[2]}
      /\ \A rom \in Roms \ {f[1]} : Without(f)[rom] = saves[rom]
  BY <1>1 DEF Without
<1>3. Files(Without(f)) = Files(saves) \ {f}
  <2>1. ASSUME NEW g \in Roms \X Copies
        PROVE  g[2] \in Without(f)[g[1]] <=> g[2] \in saves[g[1]] /\ g # f
    <3>1. g[1] \in Roms /\ g = <<g[1], g[2]>>
      OBVIOUS
    <3>2. CASE g[1] = f[1]
      BY <1>1, <1>2, <3>1, <3>2
    <3>3. CASE g[1] # f[1]
      BY <1>1, <1>2, <3>1, <3>3
    <3> QED BY <3>2, <3>3
  <2> QED BY <2>1 DEF Files
<1> QED BY <1>1, <1>2, <1>3

-----------------------------------------------------------------------------
(* The types of the catalogue, and those of the tasks that use it. *)
CatTypes ==
  /\ committed \in Lists /\ view \in Lists /\ goal \in Lists
  /\ status \in {"off", "ready", "publishing", "written", "locked"}
  /\ edition \in 0 .. MaxEdition /\ trusted \in BOOLEAN

TaskTypes ==
  /\ told \in Lists
  /\ {s_mounted, okay, s_server} \subseteq BOOLEAN
  /\ saves \in [Roms -> SUBSET Copies]
  /\ ui \in {"off", "home", "pruning", "pruning_page", "starting", "page",
             "counting", "stopping", "game"}
  /\ playing \in Roms \cup {None}
  /\ unread \subseteq Roms \X Copies
  /\ http \in {"off", "idle", "upload", "delete", "rename", "publish",
               "remove_a", "remove_b"}
  /\ request \in [op : {"none", "upload", "delete", "rename"},
                  name : Names \cup {None}, rom : Roms \cup {None},
                  row : 0 .. MaxRoms, shared : BOOLEAN]
  /\ answer \in {"none", "done", "shared", "save_left", "failed", "unconfirmed"}
  /\ page \in [Browsers -> [generation : 0 .. MaxEdition, games : Seq(Cat!Game)]]

LEMMA TypesSplit ==
  /\ TypeOK <=> CatTypes /\ TaskTypes
  /\ TypeOK' <=> CatTypes' /\ TaskTypes'
BY DEF TypeOK, CatTypes, TaskTypes, Lists

Usage ==
  CatTypes /\ TaskTypes /\ CatalogInUse /\ GameHasRom /\ RequestInWork /\ PagesWereShown

LEMMA InvariantSplit ==
  /\ ManagementIInv <=> Usage /\ (~StopMayFail => TakeTurns)
  /\ ManagementIInv' <=> Usage' /\ (~StopMayFail => TakeTurns)'
BY TypesSplit DEF ManagementIInv, Usage

LEMMA ManagementInit == Init => Usage /\ TakeTurns
<1> SUFFICES ASSUME Init PROVE Usage /\ TakeTurns
  OBVIOUS
<1>1. committed \in Lists /\ view \in Lists /\ goal \in Lists /\ told \in Lists
  BY EmptyIsList, ManagementAssumption DEF Init, Lists, Cat!Game
<1>2. CatTypes
  <2>1. edition \in 0 .. MaxEdition
    BY Constants DEF Init
  <2>2. /\ status \in {"off", "ready", "publishing", "written", "locked"}
        /\ trusted \in BOOLEAN
    BY DEF Init
  <2> QED BY <1>1, <2>1, <2>2 DEF CatTypes
<1>3. TaskTypes
  <2>1. <<>> \in Seq(Cat!Game) /\ 0 \in 0 .. MaxEdition /\ 0 \in 0 .. MaxRoms
    BY Constants
  <2>2. page \in [Browsers -> [generation : 0 .. MaxEdition, games : Seq(Cat!Game)]]
    BY <2>1 DEF Init
  <2>3. request \in [op : {"none", "upload", "delete", "rename"},
                    name : Names \cup {None}, rom : Roms \cup {None},
                    row : 0 .. MaxRoms, shared : BOOLEAN]
    BY <2>1 DEF Init, NoRequest, Request
  <2>4. saves \in [Roms -> SUBSET Copies]
    BY DEF Init, Copies
  <2> QED BY <1>1, <2>2, <2>3, <2>4 DEF Init, TaskTypes
<1>4. CatalogInUse /\ OneTaskAtATime /\ PruneMeetsOrphans /\ RemovedInOrder /\ GameHasRom
  BY DEF Init, CatalogInUse, OneTaskAtATime, PruneMeetsOrphans, RemovedInOrder, GameHasRom,
         Editing, Removing, Pruning
<1>5. RequestInWork /\ AnswersHold
  BY DEF Init, RequestInWork, AnswersHold, Working, Editing, Removing, NoRequest, Request
<1>6. PagesWereShown
  BY DEF Init, PagesWereShown
<1> QED BY <1>2, <1>3, <1>4, <1>5, <1>6 DEF Usage, TakeTurns

-----------------------------------------------------------------------------
(***************************************************************************)
(* The catalogue in use, whatever httpd_stop does                          *)
(***************************************************************************)
(* What is left to show of a step that leaves the catalogue, the request    *)
(* and the pages alone,                                                     *)
LEMMA MenuKeepsUsage ==
  ASSUME Usage, UNCHANGED <<catVars, request, answer, page>>,
         http' = http \/ {http, http'} \subseteq {"off", "idle"},
         ui # "off", ui' # "off", TaskTypes', GameHasRom'
  PROVE  Usage'
<1>1. CatTypes' /\ PagesWereShown'
  BY DEF Usage, CatTypes, PagesWereShown, catVars
<1>2. CatalogInUse'
  BY DEF Usage, CatalogInUse, catVars, Editing, Removing
<1>3. RequestInWork'
  <2>1. /\ view' = view /\ goal' = goal /\ committed' = committed
        /\ request' = request /\ answer' = answer
    BY DEF catVars
  <2>2. CASE http' = http
    BY Zenon, <2>1, <2>2 DEF Usage, RequestInWork, SharedSave, Listed
  <2>3. CASE {http, http'} \subseteq {"off", "idle"}
    BY <2>1, <2>3 DEF Usage, RequestInWork, Working, Editing, Removing
  <2> QED BY <2>2, <2>3
<1> QED BY <1>1, <1>2, <1>3 DEF Usage

(* and of one of the HTTP task. *)
LEMMA HttpKeepsUsage ==
  ASSUME Usage, UNCHANGED <<s_mounted, mainVars, page>>, unread' \subseteq Roms \X Copies,
         okay' \in BOOLEAN, CatTypes', CatalogInUse', RequestInWork',
         PagesWereShown', told' \in Lists, saves' \in [Roms -> SUBSET Copies],
         http' \in {"idle", "upload", "delete", "rename", "publish", "remove_a", "remove_b"},
         request' = request,
         answer' \in {"none", "done", "shared", "save_left", "failed", "unconfirmed"}
  PROVE  Usage'
<1>1. TaskTypes'
  BY DEF Usage, TaskTypes, mainVars
<1>2. GameHasRom'
  BY DEF Usage, GameHasRom, mainVars
<1> QED BY <1>1, <1>2 DEF Usage

LEMMA PrunesKeepUsage ==
  ASSUME Usage, PruneLive \/ PruneOrphan \/ PruneFails \/ EndPrune
  PROVE  /\ Usage' /\ UNCHANGED <<catVars, httpVars>> /\ ui \in {"pruning", "pruning_page"}
         /\ ui' = ui \/ (ui' \in {"home", "starting"} /\ unread' = {} /\ saves' = saves)
         /\ \A rom \in Roms : saves'[rom] \subseteq saves[rom]
         /\ \A f \in Files(saves) \ Files(saves') : ~Live(f)
<1>1. /\ UNCHANGED <<catVars, s_mounted, playing, s_server, httpVars, page>>
      /\ ui \in {"pruning", "pruning_page"}
      /\ ui' = ui \/ (ui' \in {"home", "starting"} /\ unread' = {} /\ saves' = saves)
      /\ okay' \in BOOLEAN
  BY DEF Usage, PruneLive, PruneOrphan, PruneFails, EndPrune, Pruning, mainVars, TaskTypes
<1>2. /\ saves' \in [Roms -> SUBSET Copies] /\ unread' \subseteq Roms \X Copies
      /\ \A rom \in Roms : saves'[rom] \subseteq saves[rom]
      /\ \A f \in Files(saves) \ Files(saves') : ~Live(f)
  <2>1. /\ saves \in [Roms -> SUBSET Copies] /\ unread \subseteq Roms \X Copies
        /\ Files(saves) \subseteq Roms \X Copies
    BY DEF Usage, TaskTypes, Files
  <2>2. CASE PruneOrphan
    <3>1. PICK f \in unread : ~Live(f) /\ saves' = Without(f)
      BY <2>2 DEF PruneOrphan
    <3>2. f \in Roms \X Copies /\ unread' = Files(saves')
      BY <2>1, <2>2 DEF PruneOrphan
    <3>3. /\ saves' \in [Roms -> SUBSET Copies] /\ Files(saves') = Files(saves) \ {f}
          /\ \A rom \in Roms : saves'[rom] \subseteq saves[rom]
      BY <2>1, <3>1, <3>2, WithoutFile
    <3> QED BY <2>1, <3>1, <3>2, <3>3
  <2>3. CASE PruneLive \/ PruneFails \/ EndPrune
    BY <2>1, <2>3 DEF PruneLive, PruneFails, EndPrune
  <2> QED BY <2>2, <2>3
<1>3. TaskTypes'
  BY <1>1, <1>2 DEF Usage, TaskTypes, httpVars
<1>4. GameHasRom' /\ ui # "off" /\ ui' # "off"
  BY <1>1 DEF GameHasRom
<1>5. http' = http /\ UNCHANGED <<catVars, request, answer, page>>
  BY <1>1 DEF httpVars
<1>6. Usage'
  BY <1>3, <1>4, <1>5, MenuKeepsUsage
<1> QED BY <1>1, <1>2, <1>6

LEMMA PageKeepsUsage ==
  ASSUME Usage,
         EnterManagement \/ gb_web_start \/ gb_web_start_fails \/ ReadFooter \/ LeaveManagement
         \/ gb_web_stop
  PROVE  Usage' /\ UNCHANGED <<catVars, saves>>
<1>1. /\ UNCHANGED <<catVars, saves, s_mounted, playing, request, answer, told, page>>
      /\ http' = http \/ {http, http'} \subseteq {"off", "idle"}
      /\ s_server' \in BOOLEAN /\ ui # "off"
      /\ ui' \in {"home", "pruning_page", "starting", "page", "counting", "stopping"}
  BY DEF Usage, EnterManagement, gb_web_start, gb_web_start_fails, ReadFooter, LeaveManagement,
         gb_web_stop, BeginPrune, httpVars, TaskTypes
<1>2. UNCHANGED pruneVars \/ (unread' = Files(saves) /\ okay' = TRUE)
  BY DEF EnterManagement, gb_web_start, gb_web_start_fails, ReadFooter, LeaveManagement,
         gb_web_stop, BeginPrune
<1>3. TaskTypes'
  <2>1. unread' \subseteq Roms \X Copies /\ okay' \in BOOLEAN
    BY <1>2 DEF Usage, TaskTypes, pruneVars, Files
  <2>2. http' \in {"off", "idle", "upload", "delete", "rename", "publish", "remove_a", "remove_b"}
    BY <1>1 DEF Usage, TaskTypes
  <2> QED BY <1>1, <2>1, <2>2 DEF Usage, TaskTypes
<1>4. GameHasRom' /\ ui' # "off"
  BY <1>1 DEF GameHasRom
<1> QED BY <1>1, <1>3, <1>4, MenuKeepsUsage

LEMMA GameKeepsUsage ==
  ASSUME Usage,
         (\E i \in DOMAIN view : Launch(i)) \/ (\E copy \in Copies : SaveGame(copy)) \/ ExitGame
  PROVE  /\ Usage' /\ UNCHANGED <<catVars, pruneVars, httpVars>>
         /\ {ui, ui'} \subseteq {"home", "game"}
         /\ Files(saves) \subseteq Files(saves')
         /\ \A rom \in Roms : (ui = "game" /\ playing = rom) \/ saves'[rom] = saves[rom]
         /\ ui' = "game" => \/ ui = "game" /\ playing' = playing
                            \/ status = "ready" /\ Listed(view, playing')
<1>1. /\ UNCHANGED <<catVars, s_mounted, s_server, pruneVars, httpVars, page>>
      /\ {ui, ui'} \subseteq {"home", "game"}
  BY DEF Launch, SaveGame, ExitGame, mainVars
<1>2. /\ saves' \in [Roms -> SUBSET Copies]
      /\ \A rom \in Roms : saves[rom] \subseteq saves'[rom]
      /\ \A rom \in Roms : (ui = "game" /\ playing = rom) \/ saves'[rom] = saves[rom]
      /\ playing' \in Roms \cup {None} /\ (ui' = "game" => playing' \in Roms)
      /\ ui' = "game" => \/ ui = "game" /\ playing' = playing
                         \/ status = "ready" /\ Listed(view, playing')
  <2>1. CASE \E i \in DOMAIN view : Launch(i)
    <3>1. PICK i \in DOMAIN view : Launch(i)
      BY <2>1
    <3>2. view[i].rom \in Roms
      BY ListFacts DEF Usage, CatTypes
    <3>3. status = "ready" /\ Listed(view, view[i].rom)
      BY <3>1 DEF Launch, needs_reload, Listed
    <3>4. saves \in [Roms -> SUBSET Copies]
      BY DEF Usage, TaskTypes
    <3> QED BY <3>1, <3>2, <3>3, <3>4 DEF Launch
  <2>2. CASE \E copy \in Copies : SaveGame(copy)
    <3>1. PICK copy \in Copies : SaveGame(copy)
      BY <2>2
    <3>2. /\ ui = "game" /\ UNCHANGED <<ui, playing>>
          /\ saves' = [saves EXCEPT ![playing] = @ \cup {copy}]
      BY <3>1 DEF SaveGame, mainVars
    <3>3. saves \in [Roms -> SUBSET Copies] /\ playing \in Roms
      BY <3>2 DEF Usage, TaskTypes, GameHasRom
    <3> QED BY <3>2, <3>3
  <2>3. CASE ExitGame
    BY <2>3 DEF ExitGame, Usage, TaskTypes
  <2> QED BY <2>1, <2>2, <2>3
<1>3. TaskTypes'
  BY <1>1, <1>2 DEF Usage, TaskTypes, pruneVars, httpVars
<1>4. GameHasRom' /\ ui # "off" /\ ui' # "off"
  BY <1>1, <1>2 DEF GameHasRom
<1>5. http' = http /\ UNCHANGED <<catVars, request, answer, page>>
  BY <1>1 DEF httpVars
<1>6. Usage'
  BY <1>3, <1>4, <1>5, MenuKeepsUsage
<1>7. Files(saves) \subseteq Files(saves')
  BY <1>2 DEF Files
<1> QED BY <1>1, <1>2, <1>6, <1>7

(* A page is fetched. *)
LEMMA ListKeepsUsage ==
  ASSUME Usage, NEW b \in Browsers, list_handler(b)
  PROVE  Usage' /\ UNCHANGED <<catVars, saves, mainVars, pruneVars, httpVars>> /\ http = "idle"
<1>1. /\ UNCHANGED <<catVars, s_mounted, saves, mainVars, pruneVars, httpVars>>
      /\ page' = [page EXCEPT ![b] = [generation |-> edition, games |-> view]]
      /\ view = committed /\ http = "idle"
  BY DEF Usage, list_handler, Listening, needs_reload, CatalogInUse
<1>2. CatTypes' /\ CatalogInUse' /\ GameHasRom'
  BY <1>1 DEF Usage, CatTypes, CatalogInUse, GameHasRom, catVars, mainVars, httpVars, Editing,
              Removing
<1>3. RequestInWork'
  BY <1>1 DEF Usage, RequestInWork, Working, Editing, Removing, httpVars
<1>4. TaskTypes'
  <2>1. view \in Seq(Cat!Game) /\ edition \in 0 .. MaxEdition
    BY DEF Usage, CatTypes, Lists
  <2>2. page' \in [Browsers -> [generation : 0 .. MaxEdition, games : Seq(Cat!Game)]]
    BY <1>1, <2>1 DEF Usage, TaskTypes
  <2> QED BY <1>1, <2>2 DEF Usage, TaskTypes, mainVars, pruneVars, httpVars
<1>5. PagesWereShown'
  <2>1. edition \in Nat /\ page \in [Browsers -> [generation : 0 .. MaxEdition, games : Seq(Cat!Game)]]
    BY Constants DEF Usage, CatTypes, TaskTypes
  <2>2. edition' = edition /\ committed' = committed
    BY <1>1 DEF catVars
  <2>3. ASSUME NEW c \in Browsers
        PROVE  /\ page'[c].generation <= edition
               /\ page'[c].generation = edition => page'[c].games \in {<<>>, committed}
    <3>1. CASE c = b
      BY <1>1, <2>1, <3>1
    <3>2. CASE c # b
      BY <1>1, <2>1, <3>2 DEF Usage, PagesWereShown
    <3> QED BY <3>1, <3>2
  <2> QED BY <2>2, <2>3 DEF PagesWereShown
<1> QED BY <1>1, <1>2, <1>3, <1>4, <1>5 DEF Usage

(* A request is accepted: what it names is a row of the list in RAM. *)
LEMMA AcceptKeepsUsage ==
  ASSUME Usage, NEW r, Accept(r),
         r \in [op : Editing, name : Names \cup {None}, rom : Roms \cup {None},
               row : 0 .. MaxRoms, shared : BOOLEAN],
         r.shared => r.op = "delete",
         r.op = "upload" => r.name \in Names /\ r.rom \in Roms,
         r.op = "rename" => r.name \in Names /\ r.row \in DOMAIN view,
         r.op = "delete" => /\ r.row \in DOMAIN view /\ r.rom = view[r.row].rom
                            /\ r.shared = SharedSave(r.row)
  PROVE  Usage' /\ UNCHANGED <<catVars, saves>>
<1> USE DEF Usage
<1>1. /\ UNCHANGED <<catVars, s_mounted, saves, mainVars, pruneVars, page>>
      /\ request' = r /\ http' = r.op /\ answer' = "none" /\ told' = <<>>
      /\ http = "idle" /\ status = "ready" /\ edition < MaxEdition
  BY DEF Accept, Listening, needs_reload
<1>2. r.op \in Editing /\ r.op \in {"none", "upload", "delete", "rename"}
  BY DEF Editing
<1>3. CatTypes' /\ GameHasRom' /\ PagesWereShown'
  BY <1>1 DEF CatTypes, GameHasRom, PagesWereShown, catVars, mainVars
<1>4. TaskTypes'
  <2>1. request' \in [op : {"none", "upload", "delete", "rename"},
                     name : Names \cup {None}, rom : Roms \cup {None},
                     row : 0 .. MaxRoms, shared : BOOLEAN]
    BY <1>1, <1>2
  <2>2. told' \in Lists
    BY <1>1, EmptyIsList
  <2> QED BY <1>1, <1>2, <2>1, <2>2 DEF TaskTypes, mainVars, pruneVars, Editing
<1>5. CatalogInUse'
  BY <1>1, <1>2 DEF CatalogInUse, catVars, mainVars, Editing, Removing
<1>6. RequestInWork'
  <2>1. view' = view
    BY <1>1 DEF catVars
  <2> QED BY <1>1, <1>2, <2>1 DEF RequestInWork, Working, Editing, Removing, SharedSave
<1> QED BY <1>1, <1>3, <1>4, <1>5, <1>6

Requests ==
  \/ \E name \in Names, rom \in Roms : upload_handler(name, rom)
  \/ \E b \in Browsers, i \in DOMAIN view, name \in Names : rename_handler(b, i, name)
  \/ \E b \in Browsers, i \in DOMAIN view : delete_handler(b, i)

LEMMA RequestsKeepUsage ==
  ASSUME Usage, Requests
  PROVE  Usage' /\ UNCHANGED <<catVars, saves>>
<1>0. 0 \in 0 .. MaxRoms /\ view \in Lists
  BY Constants DEF Usage, CatTypes
<1>1. CASE \E name \in Names, rom \in Roms : upload_handler(name, rom)
  <2>1. PICK name \in Names, rom \in Roms : upload_handler(name, rom)
    BY <1>1
  <2> DEFINE r == Request("upload", name, rom, 0, FALSE)
  <2>2. r = [op |-> "upload", name |-> name, rom |-> rom, row |-> 0, shared |-> FALSE]
    BY DEF Request
  <2>4. Accept(r)
    BY <2>1 DEF upload_handler
  <2> HIDE DEF r
  <2>3. r \in [op : Editing, name : Names \cup {None}, rom : Roms \cup {None},
              row : 0 .. MaxRoms, shared : BOOLEAN]
    BY <1>0, <2>2 DEF Editing
  <2>5. /\ ~r.shared /\ r.op = "upload" /\ r.name \in Names /\ r.rom \in Roms
    BY <2>2
  <2> QED BY <2>3, <2>4, <2>5, AcceptKeepsUsage
<1>2. CASE \E b \in Browsers, i \in DOMAIN view, name \in Names : rename_handler(b, i, name)
  <2>1. PICK b \in Browsers, i \in DOMAIN view, name \in Names : rename_handler(b, i, name)
    BY <1>2
  <2> DEFINE r == Request("rename", name, None, i, FALSE)
  <2>2. r = [op |-> "rename", name |-> name, rom |-> None, row |-> i, shared |-> FALSE]
    BY DEF Request
  <2>3. i \in 0 .. MaxRoms
    BY <1>0, ListFacts, Constants
  <2>5. Accept(r)
    BY <2>1 DEF rename_handler
  <2> HIDE DEF r
  <2>4. r \in [op : Editing, name : Names \cup {None}, rom : Roms \cup {None},
              row : 0 .. MaxRoms, shared : BOOLEAN]
    BY <2>2, <2>3 DEF Editing
  <2>6. /\ ~r.shared /\ r.op = "rename" /\ r.name \in Names /\ r.row \in DOMAIN view
    BY <2>2
  <2> QED BY <2>4, <2>5, <2>6, AcceptKeepsUsage
<1>3. CASE \E b \in Browsers, i \in DOMAIN view : delete_handler(b, i)
  <2>1. PICK b \in Browsers, i \in DOMAIN view : delete_handler(b, i)
    BY <1>3
  <2> DEFINE r == Request("delete", None, view[i].rom, i, SharedSave(i))
  <2>2. r = [op |-> "delete", name |-> None, rom |-> view[i].rom, row |-> i,
             shared |-> SharedSave(i)]
    BY DEF Request
  <2>3. i \in 0 .. MaxRoms /\ view[i].rom \in Roms
    BY <1>0, ListFacts, Constants
  <2>4. SharedSave(i) \in BOOLEAN
    BY DEF SharedSave
  <2>5. r \in [op : Editing, name : Names \cup {None}, rom : Roms \cup {None},
              row : 0 .. MaxRoms, shared : BOOLEAN]
    BY <2>2, <2>3, <2>4 DEF Editing
  <2>6. Accept(r)
    BY <2>1 DEF delete_handler
  <2> HIDE DEF r
  <2>7. /\ r.op = "delete" /\ r.row \in DOMAIN view /\ r.rom = view[r.row].rom
        /\ r.shared = SharedSave(r.row)
    BY <2>2
  <2> QED BY <2>5, <2>6, <2>7, AcceptKeepsUsage
<1> QED BY <1>1, <1>2, <1>3 DEF Requests


LEMMA EditsKeepUsage ==
  ASSUME Usage, EditFails \/ RenameSame
  PROVE  /\ Usage' /\ UNCHANGED <<catVars, saves, mainVars, pruneVars, request>>
         /\ http \in Editing /\ http' = "idle" /\ told' = view
         /\ answer' \in {"failed", "done"} /\ (answer' = "done" => request.op = "rename")
<1>1. /\ http \in Editing /\ http' = "idle" /\ told' = view
      /\ UNCHANGED <<catVars, s_mounted, saves, mainVars, pruneVars, request, page>>
      /\ answer' \in {"failed", "done"} /\ (answer' = "done" => http = "rename")
  BY DEF EditFails, RenameSame, Answer, Editing
<1>2. view = committed /\ view \in Lists /\ request.op = http
  BY <1>1 DEF Usage, CatalogInUse, CatTypes, RequestInWork, Editing
<1>3. CatTypes' /\ PagesWereShown'
  BY <1>1 DEF Usage, CatTypes, PagesWereShown, catVars
<1>4. CatalogInUse'
  BY <1>1, <1>2 DEF Usage, CatalogInUse, catVars, mainVars, Editing, Removing
<1>5. RequestInWork'
  BY <1>1, <1>2 DEF Usage, RequestInWork, Working, Editing, Removing
<1>6. unread' \subseteq Roms \X Copies /\ okay' \in BOOLEAN /\ saves' \in [Roms -> SUBSET Copies]
  BY <1>1 DEF Usage, TaskTypes, pruneVars
<1> QED BY <1>1, <1>2, <1>3, <1>4, <1>5, <1>6, HttpKeepsUsage

(* The edit that is requested of the catalogue is the one that was asked for. *)
LEMMA PublishKeepsUsage ==
  ASSUME Usage, Publish
  PROVE  /\ Usage' /\ UNCHANGED <<committed, saves, mainVars, pruneVars, request, answer>>
         /\ http \in Editing /\ http' = "publish" /\ answer = "none"
<1>1. /\ http \in Editing /\ http' = "publish" /\ status' = "publishing" /\ trusted' = FALSE
      /\ UNCHANGED <<committed, edition, view, s_mounted, saves, mainVars, pruneVars, request,
                     answer, told, page>>
  BY DEF Publish, Editing, Cat!Upload, Cat!Delete, Cat!Rename, Cat!Begin, Cat!durable
<1>2. /\ request.op = http /\ answer = "none" /\ view \in Lists
      /\ edition < MaxEdition /\ status = "ready" /\ ui # "off"
  BY <1>1 DEF Usage, CatalogInUse, CatTypes, RequestInWork, Working, Editing
<1>3. goal' \in Lists /\ (http = "delete" => (request.shared <=> Listed(goal', request.rom)))
  <2>1. CASE http = "upload"
    <3>1. /\ Len(view) < MaxRoms
          /\ goal' = Append(view, [name |-> request.name, rom |-> request.rom])
      BY <2>1 DEF Publish, Cat!Upload, Cat!Begin
    <3>2. request.name \in Names /\ request.rom \in Roms
      BY <2>1 DEF Usage, RequestInWork
    <3> QED BY <1>2, <2>1, <3>1, <3>2, AppendIsList
  <2>2. CASE http = "delete"
    <3>1. goal' = RemoveAt(view, request.row)
      BY <2>2 DEF Publish, Cat!Delete, Cat!Begin, Cat!RemoveAt, RemoveAt
    <3>2. /\ request.row \in DOMAIN view /\ request.rom = view[request.row].rom
          /\ request.shared = SharedSave(request.row)
      BY <2>2 DEF Usage, RequestInWork
    <3>3. /\ goal' \in Lists
          /\ Listed(goal', request.rom)
              <=> \E j \in DOMAIN view : j # request.row /\ view[j].rom = request.rom
      BY <1>2, <3>1, <3>2, WithoutIsList
    <3>4. SharedSave(request.row) <=> Listed(goal', request.rom)
      BY <3>2, <3>3 DEF SharedSave
    <3> QED BY Zenon, <3>2, <3>3, <3>4
  <2>3. CASE http = "rename"
    <3>1. goal' = [view EXCEPT ![request.row].name = request.name]
      BY <2>3 DEF Publish, Cat!Rename, Cat!Begin
    <3>2. request.name \in Names /\ request.row \in DOMAIN view
      BY <2>3 DEF Usage, RequestInWork
    <3> QED BY <1>2, <2>3, <3>1, <3>2, RenamedIsList
  <2> QED BY <1>1, <2>1, <2>2, <2>3 DEF Editing
<1>4. CatTypes'
  BY <1>1, <1>3 DEF Usage, CatTypes
<1>5. CatalogInUse'
  BY <1>1, <1>2 DEF CatalogInUse, mainVars, Editing, Removing
<1>6. RequestInWork'
  <2>1. http = "delete" => request.rom \in Roms
    <3> SUFFICES ASSUME http = "delete" PROVE request.rom \in Roms
      OBVIOUS
    <3>1. request.row \in DOMAIN view /\ request.rom = view[request.row].rom
      BY DEF Usage, RequestInWork
    <3> QED BY <1>2, <3>1, ListFacts
  <2>2. request.shared => request.op = "delete"
    BY DEF Usage, RequestInWork
  <2> QED BY <1>1, <1>2, <1>3, <2>1, <2>2 DEF RequestInWork, Working, Editing, Removing
<1>7. PagesWereShown'
  BY <1>1 DEF Usage, PagesWereShown
<1>8. /\ unread' \subseteq Roms \X Copies /\ okay' \in BOOLEAN /\ saves' \in [Roms -> SUBSET Copies]
      /\ told' \in Lists
      /\ answer' \in {"none", "done", "shared", "save_left", "failed", "unconfirmed"}
  BY <1>1 DEF Usage, TaskTypes, pruneVars
<1> QED BY <1>1, <1>2, <1>4, <1>5, <1>6, <1>7, <1>8, HttpKeepsUsage

(* A generation is not used twice. *)
LEMMA NextEdition ==
  ASSUME CatTypes, edition < MaxEdition, Cat!BecomesDurable
  PROVE  edition' = edition + 1 /\ edition' \in 0 .. MaxEdition /\ committed' = goal
<1>1. edition \in 0 .. MaxEdition /\ edition + 1 \in 0 .. GenMod - 1
  BY Constants DEF CatTypes
<1>2. edition' = (edition + 1) % GenMod /\ committed' = goal
  BY DEF Cat!BecomesDurable, Cat!Successor, Successor
<1>3. (edition + 1) % GenMod = edition + 1
  BY <1>1, Constants
<1> QED BY <1>1, <1>2, <1>3, Constants DEF CatTypes

LEMMA PagesGrowOld ==
  ASSUME Usage, edition' = edition + 1, UNCHANGED page
  PROVE  PagesWereShown'
<1>1. edition \in Nat /\ \A b \in Browsers : page[b].generation \in Nat
  BY Constants DEF Usage, CatTypes, TaskTypes
<1>2. \A b \in Browsers : page[b].generation < edition'
  BY <1>1 DEF Usage, PagesWereShown
<1> QED BY <1>1, <1>2 DEF PagesWereShown

(* The write is over: told to the handler, or not, or power is lost in it. *)
LEMMA WrittenKeepsUsage ==
  ASSUME Usage, Written
  PROVE  /\ Usage' /\ UNCHANGED <<saves, mainVars, pruneVars, httpVars>>
         /\ http = "publish" /\ answer = "none"
<1>1. /\ status = "publishing" /\ status' = "written" /\ Cat!BecomesDurable
      /\ UNCHANGED <<view, goal, trusted, s_mounted, saves, mainVars, pruneVars, httpVars, page>>
  BY DEF Written, Cat!Written
<1>2. /\ http = "publish" /\ answer = "none" /\ ui # "off" /\ edition < MaxEdition
      /\ CatTypes /\ trusted = FALSE
  BY <1>1 DEF Usage, CatalogInUse, CatTypes, RequestInWork, Working
<1>3. edition' = edition + 1 /\ edition' \in 0 .. MaxEdition /\ committed' = goal
  BY <1>1, <1>2, NextEdition
<1>4. CatTypes'
  BY <1>1, <1>2, <1>3 DEF CatTypes
<1>5. CatalogInUse'
  BY <1>1, <1>2, <1>3 DEF CatalogInUse, mainVars, httpVars, Editing, Removing
<1>6. RequestInWork'
  BY <1>1, <1>2 DEF Usage, RequestInWork, Working, Editing, Removing, httpVars
<1>7. PagesWereShown'
  BY <1>1, <1>3, PagesGrowOld
<1>8. /\ unread' \subseteq Roms \X Copies /\ okay' \in BOOLEAN /\ saves' \in [Roms -> SUBSET Copies]
      /\ told' \in Lists /\ request' = request /\ http' = "publish" /\ answer' = answer
      /\ answer' \in {"none", "done", "shared", "save_left", "failed", "unconfirmed"}
  BY <1>1, <1>2 DEF Usage, TaskTypes, pruneVars, httpVars
<1> QED BY <1>1, <1>2, <1>4, <1>5, <1>6, <1>7, <1>8, HttpKeepsUsage

LEMMA NotConfirmedKeepsUsage ==
  ASSUME Usage, NotConfirmed
  PROVE  /\ Usage' /\ UNCHANGED <<saves, mainVars, pruneVars>>
         /\ http = "publish" /\ http' = "idle" /\ answer' = "unconfirmed"
<1>1. /\ status \in {"publishing", "written"} /\ status' = "locked" /\ goal' = <<>>
      /\ (status = "publishing" /\ Cat!BecomesDurable) \/ UNCHANGED <<committed, edition>>
      /\ http' = "idle" /\ answer' = "unconfirmed" /\ told' = <<>>
      /\ UNCHANGED <<view, trusted, s_mounted, saves, mainVars, pruneVars, request, page>>
  BY DEF NotConfirmed, Cat!Uncertain, Cat!Unconfirmed, Cat!durable, Answer
<1>2. /\ http = "publish" /\ ui # "off" /\ (status = "publishing" => edition < MaxEdition)
      /\ CatTypes /\ trusted = FALSE
  BY <1>1 DEF Usage, CatalogInUse, CatTypes
<1>3. \/ edition' = edition + 1 /\ edition' \in 0 .. MaxEdition /\ committed' = goal
      \/ edition' = edition /\ committed' = committed
  BY <1>1, <1>2, NextEdition
<1>4. CatTypes'
  BY <1>1, <1>2, <1>3, EmptyIsList DEF CatTypes
<1>5. CatalogInUse'
  BY <1>1, <1>2 DEF CatalogInUse, mainVars, Editing, Removing
<1>6. RequestInWork'
  BY <1>1, <1>2 DEF Usage, RequestInWork, Working, Editing, Removing
<1>7. PagesWereShown'
  BY <1>1, <1>3, PagesGrowOld DEF Usage, PagesWereShown
<1>8. /\ unread' \subseteq Roms \X Copies /\ okay' \in BOOLEAN /\ saves' \in [Roms -> SUBSET Copies]
      /\ told' \in Lists
  BY <1>1, EmptyIsList DEF Usage, TaskTypes, pruneVars
<1> QED BY <1>1, <1>2, <1>4, <1>5, <1>6, <1>7, <1>8, HttpKeepsUsage

LEMMA ConfirmedKeepsUsage ==
  ASSUME Usage, Confirmed
  PROVE  /\ Usage' /\ UNCHANGED <<committed, saves, mainVars, pruneVars, request>>
         /\ http = "publish" /\ http' \in {"remove_a", "idle"}
         /\ \/ answer' = "none"
            \/ answer' = "shared" /\ request.op = "delete" /\ Listed(committed, request.rom)
            \/ answer' = "done" /\ request.op # "delete"
         /\ answer' # "none" => told' = committed
<1>1. /\ status = "written" /\ status' = "ready" /\ view' = goal /\ goal' = <<>> /\ trusted' = TRUE
      /\ UNCHANGED <<committed, edition, s_mounted, saves, mainVars, pruneVars, request, page>>
  BY DEF Confirmed, Cat!Confirm, Cat!durable
<1>2. /\ http = "publish" /\ ui # "off" /\ answer = "none" /\ committed = goal /\ CatTypes
      /\ request.op \in Editing /\ (request.shared => request.op = "delete")
      /\ request.op = "delete" => request.rom \in Roms /\ (request.shared <=> Listed(goal, request.rom))
      /\ request.shared \in BOOLEAN /\ told \in Lists
  BY <1>1 DEF Usage, CatalogInUse, RequestInWork, Working, TaskTypes
<1>3. \/ /\ request.op = "delete" /\ ~request.shared
         /\ http' = "remove_a" /\ answer' = "none" /\ told' = told
      \/ request.shared /\ http' = "idle" /\ answer' = "shared" /\ told' = goal
      \/ /\ request.op # "delete" /\ http' = "idle" /\ answer' = "done" /\ told' = goal
  BY <1>2 DEF Confirmed, Answer
<1>4. CatTypes'
  BY <1>1, <1>2, EmptyIsList DEF CatTypes
<1>5. CatalogInUse'
  BY <1>1, <1>2, <1>3 DEF CatalogInUse, mainVars, Editing, Removing
<1>6. RequestInWork'
  BY <1>1, <1>2, <1>3 DEF RequestInWork, Working, Editing, Removing
<1>7. PagesWereShown'
  BY <1>1 DEF Usage, PagesWereShown
<1>8. /\ unread' \subseteq Roms \X Copies /\ okay' \in BOOLEAN /\ saves' \in [Roms -> SUBSET Copies]
      /\ told' \in Lists
  BY <1>1, <1>2, <1>3 DEF Usage, TaskTypes, CatTypes, pruneVars
<1> QED BY <1>1, <1>2, <1>3, <1>4, <1>5, <1>6, <1>7, <1>8, HttpKeepsUsage

(* The saves of a game that is not listed any more are removed. *)
LEMMA RemovesKeepUsage ==
  ASSUME Usage, RemoveA \/ RemoveB
  PROVE  /\ Usage' /\ UNCHANGED <<catVars, mainVars, unread, request>>
         /\ http \in Removing /\ request.rom \in Roms /\ ~Listed(committed, request.rom)
         /\ \A f \in Files(saves) \ Files(saves') : f[1] = request.rom
         /\ \/ /\ http' = "remove_b" /\ answer' = "none"
               /\ okay' => "a" \notin saves'[request.rom]
            \/ /\ http = "remove_b" /\ http' = "idle" /\ told' = view
               /\ \/ answer' = "save_left"
                  \/ answer' = "done" /\ okay /\ saves'[request.rom] = saves[request.rom] \ {"b"}
<1>1. /\ http \in Removing
      /\ UNCHANGED <<catVars, s_mounted, mainVars, unread, request, page>>
  BY DEF RemoveA, RemoveB, Removing
<1>2. /\ request.op = "delete" /\ ~request.shared /\ request.rom \in Roms
      /\ ~Listed(committed, request.rom) /\ view = committed
      /\ view \in Lists /\ answer = "none" /\ status = "ready" /\ told \in Lists
      /\ saves \in [Roms -> SUBSET Copies] /\ okay \in BOOLEAN
  BY <1>1 DEF Usage, RequestInWork, CatalogInUse, CatTypes, TaskTypes, Removing, Working
<1>3. /\ saves' \in [Roms -> SUBSET Copies] /\ okay' \in BOOLEAN
      /\ \A f \in Files(saves) \ Files(saves') : f[1] = request.rom
      /\ \/ /\ http' = "remove_b" /\ answer' = "none" /\ told' = told
            /\ okay' => "a" \notin saves'[request.rom]
         \/ /\ http = "remove_b" /\ http' = "idle" /\ told' = view
            /\ \/ answer' = "save_left"
               \/ answer' = "done" /\ okay /\ saves'[request.rom] = saves[request.rom] \ {"b"}
  <2> DEFINE a == <<request.rom, "a">>
             b == <<request.rom, "b">>
  <2>1. /\ a \in Roms \X Copies /\ a[1] = request.rom /\ a[2] = "a"
        /\ b \in Roms \X Copies /\ b[1] = request.rom /\ b[2] = "b"
    BY <1>2 DEF Copies
  <2>2. CASE RemoveA
    <3>1. http' = "remove_b" /\ answer' = "none" /\ told' = told
      BY <1>2, <2>2 DEF RemoveA
    <3>2. CASE saves' = Without(a) /\ okay' = TRUE
      BY <1>2, <2>1, <3>1, <3>2, WithoutFile
    <3>3. CASE saves' = saves /\ okay' = FALSE
      BY <1>2, <3>1, <3>3
    <3> QED BY <2>2, <3>2, <3>3 DEF RemoveA
  <2>3. CASE RemoveB
    <3>1. /\ http = "remove_b" /\ http' = "idle" /\ told' = view
          /\ answer' = IF okay' THEN "done" ELSE "save_left"
      BY <2>3 DEF RemoveB, Answer
    <3>2. CASE saves' = Without(b) /\ okay' = okay
      <4>1. saves' \in [Roms -> SUBSET Copies] /\ Files(saves') = Files(saves) \ {b}
        BY <1>2, <2>1, <3>2, WithoutFile
      <4>2. saves'[request.rom] = saves[request.rom] \ {"b"}
        BY <1>2, <2>1, <3>2 DEF Without
      <4> QED BY <1>2, <2>1, <3>1, <3>2, <4>1, <4>2
    <3>3. CASE saves' = saves /\ okay' = FALSE
      BY <1>2, <3>1, <3>3
    <3> QED BY <2>3, <3>2, <3>3 DEF RemoveB
  <2> QED BY <2>2, <2>3
<1>4. CatTypes' /\ PagesWereShown'
  BY <1>1 DEF Usage, CatTypes, PagesWereShown, catVars
<1>5. CatalogInUse'
  BY <1>1, <1>2, <1>3 DEF Usage, CatalogInUse, catVars, mainVars, Editing, Removing
<1>6. RequestInWork'
  BY <1>1, <1>2, <1>3 DEF RequestInWork, Working, Editing, Removing, Listed, catVars
<1>7. /\ unread' \subseteq Roms \X Copies /\ told' \in Lists
      /\ answer' \in {"none", "done", "shared", "save_left", "failed", "unconfirmed"}
  BY <1>1, <1>2, <1>3 DEF Usage, TaskTypes
<1>8. Usage'
  BY <1>1, <1>3, <1>4, <1>5, <1>6, <1>7, HttpKeepsUsage
<1> QED BY <1>1, <1>2, <1>3, <1>8

(* A restart shows the durable list, or nothing. *)
LEMMA BootKeepsUsage ==
  ASSUME Usage, Boot
  PROVE  /\ Usage' /\ UNCHANGED <<committed, saves, httpVars>> /\ ui = "off"
         /\ http \in {"off", "idle"}
         /\ \/ status' = "ready" /\ ui' = "pruning" /\ unread' = Files(saves)
            \/ ui' = "home"
<1>1. /\ status = "off" /\ status' \in {"ready", "locked"} /\ trusted' \in BOOLEAN
      /\ view' \in {<<>>, committed} /\ (status' = "ready" => view' = committed)
      /\ trusted' => status' = "ready"
      /\ UNCHANGED <<committed, edition, goal, saves, playing, s_server, httpVars, page>>
      /\ s_mounted' \in BOOLEAN
  BY DEF Boot, Cat!Load, Cat!durable
<1>2. \/ status' = "ready" /\ ui' = "pruning" /\ unread' = Files(saves) /\ okay' = TRUE
      \/ ui' = "home" /\ UNCHANGED pruneVars
  BY DEF Boot, BeginPrune
<1>3. ui = "off" /\ http \in {"off", "idle"} /\ http' = http
  BY <1>1 DEF Usage, CatalogInUse, TaskTypes, Editing, Removing, httpVars
<1>4. CatTypes'
  BY <1>1, EmptyIsList DEF Usage, CatTypes
<1>5. TaskTypes'
  <2>1. unread' \subseteq Roms \X Copies /\ okay' \in BOOLEAN
    BY <1>2 DEF Usage, TaskTypes, Files, pruneVars
  <2> QED BY <1>1, <1>2, <2>1 DEF Usage, TaskTypes, httpVars
<1>6. CatalogInUse' /\ GameHasRom'
  BY <1>1, <1>2, <1>3 DEF CatalogInUse, GameHasRom, Editing, Removing
<1>7. RequestInWork'
  BY <1>1, <1>3 DEF Usage, RequestInWork, Working, Editing, Removing, httpVars
<1>8. PagesWereShown'
  BY <1>1 DEF Usage, PagesWereShown
<1> QED BY <1>1, <1>2, <1>3, <1>4, <1>5, <1>6, <1>7, <1>8 DEF Usage

(* Power is lost: a list that is being written is the durable one or is not. *)
LEMMA PowerCutKeepsUsage ==
  ASSUME Usage, PowerCut
  PROVE  /\ Usage' /\ UNCHANGED <<saves, request, answer, told>> /\ ui' = "off" /\ http' = "off"
         /\ committed' = committed \/ answer = "none"
<1>1. /\ (status = "publishing" /\ Cat!BecomesDurable) \/ UNCHANGED <<committed, edition>>
      /\ view' = <<>> /\ goal' = <<>> /\ status' = "off" /\ trusted' = FALSE
      /\ s_mounted' = FALSE /\ ui' = "off" /\ playing' = None /\ unread' = {} /\ okay' = TRUE
      /\ s_server' = FALSE /\ http' = "off"
      /\ UNCHANGED <<saves, request, answer, told, page>>
  BY DEF PowerCut, Cat!PowerCut, Cat!durable
<1>2. /\ CatTypes
      /\ status = "publishing" => edition < MaxEdition /\ http = "publish" /\ answer = "none"
  BY DEF Usage, CatalogInUse, RequestInWork, Working
<1>3. \/ edition' = edition + 1 /\ edition' \in 0 .. MaxEdition /\ committed' = goal /\ answer = "none"
      \/ edition' = edition /\ committed' = committed
  BY <1>1, <1>2, NextEdition
<1>4. CatTypes'
  BY <1>1, <1>2, <1>3, EmptyIsList DEF CatTypes
<1>5. TaskTypes'
  BY <1>1 DEF Usage, TaskTypes
<1>6. CatalogInUse' /\ GameHasRom'
  BY <1>1 DEF CatalogInUse, GameHasRom, Editing, Removing
<1>7. RequestInWork'
  BY <1>1 DEF Usage, RequestInWork, Working, Editing, Removing
<1>8. PagesWereShown'
  BY <1>1, <1>3, PagesGrowOld DEF Usage, PagesWereShown
<1> QED BY <1>1, <1>3, <1>4, <1>5, <1>6, <1>7, <1>8 DEF Usage

LEMMA StutterKeepsUsage ==
  ASSUME Usage, UNCHANGED vars
  PROVE  Usage'
<1>1. UNCHANGED <<committed, view, goal, status, edition, trusted, s_mounted, saves, ui, playing,
                  unread, okay, s_server, http, request, answer, told, page>>
  BY DEF vars, catVars, mainVars, pruneVars, httpVars
<1>2. CatTypes' /\ TaskTypes' /\ CatalogInUse' /\ GameHasRom' /\ PagesWereShown'
  BY <1>1 DEF Usage, CatTypes, TaskTypes, CatalogInUse, GameHasRom, PagesWereShown
<1>3. RequestInWork'
  BY Zenon, <1>1 DEF Usage, RequestInWork, SharedSave, Listed
<1> QED BY <1>2, <1>3 DEF Usage

LEMMA UsageStep == Usage /\ [Next]_vars => Usage'
<1> SUFFICES ASSUME Usage, [Next]_vars PROVE Usage'
  OBVIOUS
<1>1. CASE PruneLive \/ PruneOrphan \/ PruneFails \/ EndPrune
  BY <1>1, PrunesKeepUsage
<1>2. CASE EnterManagement \/ gb_web_start \/ gb_web_start_fails \/ ReadFooter \/ LeaveManagement
           \/ gb_web_stop
  BY <1>2, PageKeepsUsage
<1>3. CASE (\E i \in DOMAIN view : Launch(i)) \/ (\E copy \in Copies : SaveGame(copy)) \/ ExitGame
  BY <1>3, GameKeepsUsage
<1>4. CASE \E b \in Browsers : list_handler(b)
  BY <1>4, ListKeepsUsage
<1>5. CASE Requests
  BY <1>5, RequestsKeepUsage
<1>6. CASE EditFails \/ RenameSame
  BY <1>6, EditsKeepUsage
<1>7. CASE Publish \/ Written \/ NotConfirmed \/ Confirmed
  BY <1>7, PublishKeepsUsage, WrittenKeepsUsage, NotConfirmedKeepsUsage, ConfirmedKeepsUsage
<1>8. CASE RemoveA \/ RemoveB
  BY <1>8, RemovesKeepUsage
<1>9. CASE Boot \/ PowerCut
  BY <1>9, BootKeepsUsage, PowerCutKeepsUsage
<1>10. CASE UNCHANGED vars
  BY <1>10, StutterKeepsUsage
<1> QED BY Zenon, <1>1, <1>2, <1>3, <1>4, <1>5, <1>6, <1>7, <1>8, <1>9, <1>10
    DEF Next, MenuTask, HttpTask, Environment, Requests

-----------------------------------------------------------------------------
(***************************************************************************)
(* Taking turns, as long as httpd_stop does not fail                       *)
(***************************************************************************)
LEMMA ViewIsDurable ==
  ASSUME Usage, status = "ready" PROVE view = committed
BY DEF Usage, CatalogInUse

LEMMA PrunesKeepTurns ==
  ASSUME Usage, TakeTurns, PruneLive \/ PruneOrphan \/ PruneFails \/ EndPrune
  PROVE  TakeTurns' /\ \A f \in Files(saves) \ Files(saves') : ~Listed(committed', f[1])
<1>1. /\ UNCHANGED <<catVars, httpVars>> /\ ui \in {"pruning", "pruning_page"}
      /\ ui' = ui \/ (ui' \in {"home", "starting"} /\ unread' = {} /\ saves' = saves)
      /\ \A rom \in Roms : saves'[rom] \subseteq saves[rom]
      /\ \A f \in Files(saves) \ Files(saves') : ~Live(f)
  BY PrunesKeepUsage
<1>2. /\ http = "off" /\ status = "ready" /\ view = committed
      /\ saves \in [Roms -> SUBSET Copies] /\ unread \subseteq Roms \X Copies
  BY <1>1, ViewIsDurable DEF TakeTurns, OneTaskAtATime, Pruning, Usage, TaskTypes
<1>3. OneTaskAtATime' /\ RemovedInOrder'
  BY <1>1, <1>2 DEF OneTaskAtATime, RemovedInOrder, Pruning, catVars, httpVars
<1>4. PruneMeetsOrphans'
  <2>1. ui' = ui /\ okay' => \A f \in Files(saves') : Live(f) \/ f \in unread'
    <3>1. CASE PruneLive \/ PruneOrphan \/ PruneFails
      BY <1>1, <1>2, <3>1
         DEF PruneLive, PruneOrphan, PruneFails, TakeTurns, PruneMeetsOrphans, Pruning
    <3>2. CASE EndPrune
      BY <1>1, <3>2 DEF EndPrune
    <3> QED BY <3>1, <3>2
  <2> QED BY <1>1, <2>1 DEF PruneMeetsOrphans, Pruning, Live, Listed, catVars
<1>5. AnswersHold'
  <2>1. /\ committed' = committed /\ answer' = answer /\ told' = told /\ request' = request
    BY <1>1 DEF catVars, httpVars
  <2>2. answer = "done" /\ request.op = "delete" => saves'[request.rom] = {}
    BY <1>1 DEF TakeTurns, AnswersHold, Usage, RequestInWork
  <2> QED BY <2>1, <2>2 DEF TakeTurns, AnswersHold, Listed
<1>6. \A f \in Files(saves) \ Files(saves') : ~Listed(committed', f[1])
  BY <1>1, <1>2 DEF Live, catVars
<1> QED BY <1>3, <1>4, <1>5, <1>6 DEF TakeTurns

(* The server runs while its page is shown. *)
LEMMA PageKeepsTurns ==
  ASSUME Usage, TakeTurns, ~StopMayFail,
         EnterManagement \/ gb_web_start \/ gb_web_start_fails \/ ReadFooter \/ LeaveManagement
         \/ gb_web_stop
  PROVE  TakeTurns'
<1> USE DEF TakeTurns
<1>1. /\ UNCHANGED <<catVars, saves, playing, request, answer, told>>
      /\ ui # "game" /\ ~Pruning
      /\ ui' \in {"home", "pruning_page", "starting", "page", "counting", "stopping"}
  BY DEF EnterManagement, gb_web_start, gb_web_start_fails, ReadFooter, LeaveManagement,
         gb_web_stop, BeginPrune, Pruning, httpVars
<1>2. http' # "off" <=> ui' \in {"page", "counting", "stopping"}
  BY DEF EnterManagement, gb_web_start, gb_web_start_fails, ReadFooter, LeaveManagement,
         gb_web_stop, BeginPrune, Pruning, httpVars, OneTaskAtATime
<1>3. \/ UNCHANGED pruneVars /\ ui' # "pruning_page"
      \/ trusted /\ unread' = Files(saves)
  BY DEF EnterManagement, gb_web_start, gb_web_start_fails, ReadFooter, LeaveManagement,
         gb_web_stop, BeginPrune, Prunes
<1>4. OneTaskAtATime'
  BY <1>1, <1>2, <1>3 DEF OneTaskAtATime, Pruning, catVars, Usage, CatalogInUse
<1>5. PruneMeetsOrphans'
  BY <1>1, <1>3 DEF PruneMeetsOrphans, Pruning, pruneVars
<1>6. RemovedInOrder'
  <2>1. http' \in {"off", "idle"} \/ (http' = http /\ okay' = okay)
    BY DEF EnterManagement, gb_web_start, gb_web_start_fails, ReadFooter, LeaveManagement,
           gb_web_stop, pruneVars, httpVars, OneTaskAtATime
  <2> QED BY <1>1, <2>1 DEF RemovedInOrder
<1>7. AnswersHold'
  BY <1>1 DEF AnswersHold, Listed, catVars
<1> QED BY <1>4, <1>5, <1>6, <1>7

(* A game of the list in RAM, which is the durable one, is played. *)
LEMMA GameKeepsTurns ==
  ASSUME Usage, TakeTurns,
         (\E i \in DOMAIN view : Launch(i)) \/ (\E copy \in Copies : SaveGame(copy)) \/ ExitGame
  PROVE  TakeTurns'
<1>1. /\ UNCHANGED <<catVars, pruneVars, httpVars>> /\ {ui, ui'} \subseteq {"home", "game"}
      /\ \A rom \in Roms : (ui = "game" /\ playing = rom) \/ saves'[rom] = saves[rom]
      /\ ui' = "game" => \/ ui = "game" /\ playing' = playing
                         \/ status = "ready" /\ Listed(view, playing')
      /\ GameHasRom'
  BY GameKeepsUsage DEF Usage
<1>2. ui = "game" => status = "ready" /\ Listed(committed, playing)
  BY DEF TakeTurns, OneTaskAtATime
<1>3. ui' = "game" => status = "ready" /\ playing' \in Roms /\ Listed(committed, playing')
  BY <1>1, <1>2, ViewIsDurable DEF GameHasRom
<1>4. http = "off" /\ http' = "off"
  BY <1>1 DEF TakeTurns, OneTaskAtATime, httpVars
<1>5. OneTaskAtATime' /\ PruneMeetsOrphans' /\ RemovedInOrder'
  BY <1>1, <1>3, <1>4
     DEF OneTaskAtATime, PruneMeetsOrphans, RemovedInOrder, Pruning, Listed, catVars
<1>6. AnswersHold'
  <2>1. /\ committed' = committed /\ answer' = answer /\ told' = told /\ request' = request
    BY <1>1 DEF catVars, httpVars
  <2>2. answer = "done" /\ request.op = "delete" => saves'[request.rom] = {}
    <3> SUFFICES ASSUME answer = "done", request.op = "delete" PROVE saves'[request.rom] = {}
      OBVIOUS
    <3>1. /\ request.rom \in Roms /\ saves[request.rom] = {}
          /\ ~Listed(committed, request.rom)
      BY DEF Usage, RequestInWork, TakeTurns, AnswersHold
    <3> QED BY <1>1, <1>2, <3>1
  <2> QED BY <2>1, <2>2 DEF TakeTurns, AnswersHold, Listed
<1> QED BY <1>5, <1>6 DEF TakeTurns

(* While a request is in work the menu task shows the page and waits. *)
LEMMA HttpKeepsTurns ==
  ASSUME TakeTurns, http # "off", http' # "off", UNCHANGED mainVars
  PROVE  OneTaskAtATime' /\ PruneMeetsOrphans'
<1>1. ui' = ui /\ ui \in {"page", "counting", "stopping"}
  BY DEF TakeTurns, OneTaskAtATime, mainVars
<1> QED BY <1>1 DEF OneTaskAtATime, PruneMeetsOrphans, Pruning

LEMMA RequestsKeepTurns ==
  ASSUME Usage, TakeTurns, (\E b \in Browsers : list_handler(b)) \/ Requests
  PROVE  TakeTurns' /\ UNCHANGED <<catVars, saves>>
<1>1. CASE \E b \in Browsers : list_handler(b)
  <2>1. UNCHANGED <<catVars, saves, mainVars, pruneVars, httpVars>> /\ http = "idle"
    BY <1>1, ListKeepsUsage
  <2>2. http # "off" /\ http' # "off" /\ http' # "remove_b"
    BY <2>1 DEF httpVars
  <2>3. RemovedInOrder' /\ AnswersHold'
    BY <2>1, <2>2 DEF TakeTurns, RemovedInOrder, AnswersHold, Listed, catVars, httpVars
  <2> QED BY <2>1, <2>2, <2>3, HttpKeepsTurns DEF TakeTurns
<1>2. CASE Requests
  <2>1. /\ http = "idle" /\ http' \in Editing /\ answer' = "none"
        /\ UNCHANGED <<catVars, saves, mainVars>>
    BY <1>2 DEF Requests, upload_handler, rename_handler, delete_handler, Accept, Listening,
                Editing, Request
  <2>2. RemovedInOrder' /\ AnswersHold'
    BY <2>1 DEF RemovedInOrder, AnswersHold, Editing
  <2>3. http # "off" /\ http' # "off"
    BY <2>1 DEF Editing
  <2> QED BY <2>1, <2>2, <2>3, HttpKeepsTurns DEF TakeTurns
<1> QED BY <1>1, <1>2

LEMMA EditsKeepTurns ==
  ASSUME Usage, TakeTurns, EditFails \/ RenameSame
  PROVE  TakeTurns' /\ UNCHANGED <<catVars, saves>>
<1>1. /\ UNCHANGED <<catVars, saves, mainVars, pruneVars, request>>
      /\ http \in Editing /\ http' = "idle" /\ told' = view
      /\ answer' \in {"failed", "done"} /\ (answer' = "done" => request.op = "rename")
  BY EditsKeepUsage
<1>2. view = committed
  BY <1>1, ViewIsDurable DEF Usage, CatalogInUse
<1>3. AnswersHold' /\ RemovedInOrder'
  BY <1>1, <1>2 DEF AnswersHold, RemovedInOrder, catVars
<1>4. http # "off" /\ http' # "off" /\ UNCHANGED mainVars
  BY <1>1 DEF Editing
<1> QED BY <1>1, <1>3, <1>4, HttpKeepsTurns DEF TakeTurns

LEMMA PublishingKeepsTurns ==
  ASSUME Usage, TakeTurns, Publish \/ Written \/ NotConfirmed \/ Confirmed
  PROVE  TakeTurns' /\ saves' = saves
<1>1. CASE Publish
  <2>1. /\ UNCHANGED <<saves, mainVars, answer>>
        /\ http \in Editing /\ http' = "publish" /\ answer = "none"
    BY <1>1, PublishKeepsUsage
  <2>2. http # "off" /\ http' # "off" /\ AnswersHold' /\ RemovedInOrder'
    BY <2>1 DEF Editing, AnswersHold, RemovedInOrder
  <2> QED BY <2>1, <2>2, HttpKeepsTurns DEF TakeTurns
<1>2. CASE Written
  <2>1. UNCHANGED <<saves, mainVars, httpVars>> /\ http = "publish" /\ answer = "none"
    BY <1>2, WrittenKeepsUsage
  <2>2. http # "off" /\ http' # "off" /\ AnswersHold' /\ RemovedInOrder'
    BY <2>1 DEF AnswersHold, RemovedInOrder, httpVars
  <2> QED BY <2>1, <2>2, HttpKeepsTurns DEF TakeTurns
<1>3. CASE NotConfirmed
  <2>1. /\ UNCHANGED <<saves, mainVars>> /\ http = "publish" /\ http' = "idle"
        /\ answer' = "unconfirmed"
    BY <1>3, NotConfirmedKeepsUsage
  <2>2. http # "off" /\ http' # "off" /\ AnswersHold' /\ RemovedInOrder'
    BY <2>1 DEF AnswersHold, RemovedInOrder
  <2> QED BY <2>1, <2>2, HttpKeepsTurns DEF TakeTurns
<1>4. CASE Confirmed
  <2>1. /\ UNCHANGED <<committed, saves, mainVars, request>>
        /\ http = "publish" /\ http' \in {"remove_a", "idle"}
        /\ \/ answer' = "none"
           \/ answer' = "shared" /\ request.op = "delete" /\ Listed(committed, request.rom)
           \/ answer' = "done" /\ request.op # "delete"
        /\ answer' # "none" => told' = committed
    BY <1>4, ConfirmedKeepsUsage
  <2>2. http # "off" /\ http' # "off" /\ AnswersHold' /\ RemovedInOrder'
    BY <2>1 DEF AnswersHold, RemovedInOrder, Listed
  <2> QED BY <2>1, <2>2, HttpKeepsTurns DEF TakeTurns
<1> QED BY <1>1, <1>2, <1>3, <1>4

LEMMA RemovesKeepTurns ==
  ASSUME Usage, TakeTurns, RemoveA \/ RemoveB
  PROVE  TakeTurns' /\ \A f \in Files(saves) \ Files(saves') : ~Listed(committed', f[1])
<1>1. /\ UNCHANGED <<catVars, mainVars, unread, request>>
      /\ http \in Removing /\ request.rom \in Roms /\ ~Listed(committed, request.rom)
      /\ \A f \in Files(saves) \ Files(saves') : f[1] = request.rom
      /\ \/ /\ http' = "remove_b" /\ answer' = "none"
            /\ okay' => "a" \notin saves'[request.rom]
         \/ /\ http = "remove_b" /\ http' = "idle" /\ told' = view
            /\ \/ answer' = "save_left"
               \/ answer' = "done" /\ okay /\ saves'[request.rom] = saves[request.rom] \ {"b"}
  BY RemovesKeepUsage
<1>2. /\ view = committed /\ saves[request.rom] \subseteq Copies /\ committed' = committed
      /\ http = "remove_b" /\ okay => "a" \notin saves[request.rom]
  BY <1>1, ViewIsDurable
     DEF Usage, CatalogInUse, TaskTypes, catVars, TakeTurns, RemovedInOrder
<1>3. AnswersHold'
  BY <1>1, <1>2 DEF AnswersHold, Listed, Copies
<1>4. RemovedInOrder' /\ http # "off" /\ http' # "off" /\ UNCHANGED mainVars
  BY <1>1 DEF RemovedInOrder, Removing
<1>5. \A f \in Files(saves) \ Files(saves') : ~Listed(committed', f[1])
  BY <1>1, <1>2
<1> QED BY <1>3, <1>4, <1>5, HttpKeepsTurns DEF TakeTurns

LEMMA RestartKeepsTurns ==
  ASSUME Usage, TakeTurns, Boot \/ PowerCut
  PROVE  TakeTurns' /\ saves' = saves
<1>1. CASE Boot
  <2>1. /\ UNCHANGED <<committed, saves, httpVars>> /\ ui = "off"
        /\ \/ status' = "ready" /\ ui' = "pruning" /\ unread' = Files(saves)
           \/ ui' = "home"
    BY <1>1, BootKeepsUsage
  <2>2. http' = "off"
    BY <2>1 DEF TakeTurns, OneTaskAtATime, httpVars
  <2>3. OneTaskAtATime' /\ PruneMeetsOrphans' /\ RemovedInOrder'
    BY <2>1, <2>2 DEF OneTaskAtATime, PruneMeetsOrphans, RemovedInOrder, Pruning
  <2>4. AnswersHold'
    BY <2>1 DEF TakeTurns, AnswersHold, Listed, httpVars
  <2> QED BY <2>1, <2>3, <2>4 DEF TakeTurns
<1>2. CASE PowerCut
  <2>1. /\ UNCHANGED <<saves, request, answer, told>> /\ ui' = "off" /\ http' = "off"
        /\ committed' = committed \/ answer = "none"
    BY <1>2, PowerCutKeepsUsage
  <2>2. OneTaskAtATime' /\ PruneMeetsOrphans' /\ RemovedInOrder'
    BY <2>1 DEF OneTaskAtATime, PruneMeetsOrphans, RemovedInOrder, Pruning
  <2>3. AnswersHold'
    BY <2>1 DEF TakeTurns, AnswersHold, Listed
  <2> QED BY <2>1, <2>2, <2>3 DEF TakeTurns
<1> QED BY <1>1, <1>2

(* Every step keeps the turns; a file goes only without its game. *)
LEMMA TurnsStep ==
  ASSUME ~StopMayFail, Usage, TakeTurns, [Next]_vars
  PROVE  /\ TakeTurns'
         /\ \A f \in Files(saves) \ Files(saves') : ~Listed(committed', f[1])
<1>1. CASE PruneLive \/ PruneOrphan \/ PruneFails \/ EndPrune
  BY <1>1, PrunesKeepTurns
<1>2. CASE EnterManagement \/ gb_web_start \/ gb_web_start_fails \/ ReadFooter \/ LeaveManagement
           \/ gb_web_stop
  BY <1>2, PageKeepsTurns, PageKeepsUsage
<1>3. CASE (\E i \in DOMAIN view : Launch(i)) \/ (\E copy \in Copies : SaveGame(copy)) \/ ExitGame
  BY <1>3, GameKeepsTurns, GameKeepsUsage
<1>4. CASE (\E b \in Browsers : list_handler(b)) \/ Requests
  BY <1>4, RequestsKeepTurns
<1>5. CASE EditFails \/ RenameSame
  BY <1>5, EditsKeepTurns
<1>6. CASE Publish \/ Written \/ NotConfirmed \/ Confirmed
  BY <1>6, PublishingKeepsTurns
<1>7. CASE RemoveA \/ RemoveB
  BY <1>7, RemovesKeepTurns
<1>8. CASE Boot \/ PowerCut
  BY <1>8, RestartKeepsTurns
<1>9. CASE UNCHANGED vars
  <2>1. UNCHANGED <<committed, view, goal, status, edition, trusted, s_mounted, saves, ui, playing,
                    unread, okay, s_server, http, request, answer, told, page>>
    BY <1>9 DEF vars, catVars, mainVars, pruneVars, httpVars
  <2> QED BY <2>1 DEF TakeTurns, OneTaskAtATime, PruneMeetsOrphans, RemovedInOrder, AnswersHold,
                      Pruning, Live, Listed
<1> QED BY Zenon, <1>1, <1>2, <1>3, <1>4, <1>5, <1>6, <1>7, <1>8, <1>9
    DEF Next, MenuTask, HttpTask, Environment, Requests

-----------------------------------------------------------------------------
(* The inductive invariant: the catalogue is used as it may be, and a       *)
(* request is what was asked for, whatever httpd_stop does; and as long as  *)
(* it does not fail, the menu task and the HTTP task take turns, so that    *)
(* prunes, edits and games do not overlap (gb_web_start, gb_web_stop).      *)
THEOREM ManagementInvariant == Spec => []ManagementIInv
<1>1. Init => ManagementIInv
  BY ManagementInit, InvariantSplit
<1>2. ManagementIInv /\ [Next]_vars => ManagementIInv'
  <2> SUFFICES ASSUME Usage, ~StopMayFail => TakeTurns, [Next]_vars
               PROVE  Usage' /\ (~StopMayFail => TakeTurns)'
    BY InvariantSplit
  <2>1. Usage'
    BY UsageStep
  <2>2. ~StopMayFail => TakeTurns'
    BY TurnsStep
  <2> QED BY <2>1, <2>2
<1> QED BY <1>1, <1>2, PTL DEF Spec

(* gb_storage_resolve_token accepts a row only from a page that shows the   *)
(* list as it is, however many edits and restarts lie between, and even if  *)
(* the server outlives its page.                                            *)
THEOREM FreshTokens == Spec => []TokensAreFresh
<1>1. ManagementIInv => TokensAreFresh
  <2> SUFFICES ASSUME ManagementIInv, NEW b \in Browsers, NEW i \in DOMAIN view, Resolves(b, i)
               PROVE  page[b].games = view
    BY DEF TokensAreFresh
  <2>1. /\ status = "ready" /\ i \in DOMAIN page[b].games
        /\ page[b].generation = edition
    BY DEF Resolves, Token, needs_reload
  <2>2. view = committed /\ page[b].games \in {<<>>, committed}
    BY <2>1 DEF ManagementIInv, CatalogInUse, PagesWereShown
  <2>3. page[b].games # <<>>
    BY <2>1
  <2> QED BY <2>2, <2>3
<1> QED BY <1>1, ManagementInvariant, PTL

(* What delete_handler, rename_handler and upload_handler answer stays true *)
(* until the next request, through power cuts and restarts, unless          *)
(* httpd_stop fails: then a game may save what was deleted.                 *)
THEOREM AnswersAreKept ==
  ASSUME ~StopMayFail
  PROVE  Spec => []AnswersHold
<1>1. ManagementIInv => AnswersHold
  BY DEF ManagementIInv, TakeTurns
<1> QED BY <1>1, ManagementInvariant, PTL

(* run_game plays a game of the durable list, which nobody edits meanwhile. *)
THEOREM PlayedGameStays ==
  ASSUME ~StopMayFail
  PROVE  Spec => []PlayedGameIsListed
<1>1. ManagementIInv => PlayedGameIsListed
  BY DEF ManagementIInv, TakeTurns, OneTaskAtATime, PlayedGameIsListed
<1> QED BY <1>1, ManagementInvariant, PTL

(* gb_saves_prune_orphans, which starts over after every removal, has met   *)
(* every orphan when it reads the end of the directory without an error.    *)
THEOREM PruneIsComplete ==
  ASSUME ~StopMayFail
  PROVE  Spec => []PruneLeavesNoOrphan
<1>1. ManagementIInv => PruneLeavesNoOrphan
  BY DEF ManagementIInv, TakeTurns, PruneMeetsOrphans, PruneLeavesNoOrphan
<1> QED BY <1>1, ManagementInvariant, PTL

(* gb_saves_prune_orphans and gb_saves_delete remove no save file of a game *)
(* that a restart would list.                                               *)
THEOREM SavesOfGamesStay ==
  ASSUME ~StopMayFail
  PROVE  Spec => LiveSavesKept
<1>1. ManagementIInv /\ [Next]_vars
        => [\A f \in Files(saves) \ Files(saves') : ~Listed(committed', f[1])]_vars
  BY TurnsStep, InvariantSplit
<1> QED BY <1>1, ManagementInvariant, PTL DEF Spec, LiveSavesKept

-----------------------------------------------------------------------------
(* The menu task and the handlers of gb_web.c use the catalogue as it is    *)
(* promised to them, and it does nothing else, even if the server outlives  *)
(* its page.                                                                *)
THEOREM UsesCatalogAsPromised == Spec => UsesCatalog
<1>1. Init => Cat!Init
  BY ManagementAssumption DEF Init, Cat!Init, Cat!Game
<1>2. ManagementIInv /\ [Next]_vars => [Cat!Next]_(Cat!vars)
  <2> SUFFICES ASSUME Usage, [Next]_vars PROVE Cat!Next \/ UNCHANGED catVars
    BY InvariantSplit DEF catVars, Cat!vars, Cat!durable
  <2>1. CASE Publish
    <3>1. CASE http = "upload"
      <4>1. request.name \in Names /\ request.rom \in Playable /\ Cat!Upload(request.name, request.rom)
        BY <2>1, <3>1 DEF Publish, Usage, RequestInWork
      <4> QED BY <4>1 DEF Cat!Next
    <3>2. CASE http = "delete"
      <4>1. request.row \in DOMAIN view /\ Cat!Delete(request.row)
        BY <2>1, <3>2 DEF Publish, Usage, RequestInWork
      <4> QED BY <4>1 DEF Cat!Next
    <3>3. CASE http = "rename"
      <4>1. /\ request.row \in DOMAIN view /\ request.name \in Names
            /\ Cat!Rename(request.row, request.name)
        BY <2>1, <3>3 DEF Publish, Usage, RequestInWork
      <4> QED BY <4>1 DEF Cat!Next
    <3> QED BY <2>1, <3>1, <3>2, <3>3 DEF Publish
  <2>2. CASE Boot \/ PowerCut \/ Written \/ NotConfirmed \/ Confirmed
    BY Zenon, <2>2 DEF Boot, PowerCut, Written, NotConfirmed, Confirmed, Cat!Next
  <2>3. CASE PruneLive \/ PruneOrphan \/ PruneFails \/ EndPrune \/ RemoveA \/ RemoveB
    BY <2>3, PrunesKeepUsage, RemovesKeepUsage
  <2>4. CASE EnterManagement \/ gb_web_start \/ gb_web_start_fails \/ ReadFooter \/ LeaveManagement
             \/ gb_web_stop
    BY Zenon, <2>4 DEF EnterManagement, gb_web_start, gb_web_start_fails, ReadFooter,
                       LeaveManagement, gb_web_stop
  <2>5. CASE (\E i \in DOMAIN view : Launch(i)) \/ (\E copy \in Copies : SaveGame(copy)) \/ ExitGame
    BY Zenon, <2>5 DEF Launch, SaveGame, ExitGame
  <2>6. CASE \/ \E b \in Browsers : list_handler(b)
             \/ \E name \in Names, rom \in Roms : upload_handler(name, rom)
             \/ \E b \in Browsers, i \in DOMAIN view, name \in Names : rename_handler(b, i, name)
             \/ \E b \in Browsers, i \in DOMAIN view : delete_handler(b, i)
    BY Zenon, <2>6 DEF list_handler, upload_handler, rename_handler, delete_handler, Accept
  <2>7. CASE EditFails \/ RenameSame
    BY Zenon, <2>7 DEF EditFails, RenameSame
  <2>8. CASE UNCHANGED vars
    BY <2>8 DEF vars
  <2> QED BY Zenon, <2>1, <2>2, <2>3, <2>4, <2>5, <2>6, <2>7, <2>8
      DEF Next, MenuTask, HttpTask, Environment
<1> QED BY <1>1, <1>2, ManagementInvariant, PTL DEF Spec, UsesCatalog, Cat!Spec
=============================================================================
