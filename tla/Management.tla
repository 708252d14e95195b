----------------------------- MODULE Management -----------------------------
(***************************************************************************)
(* The management page and everything that must agree while it is used:    *)
(* the catalogue (gb_storage.c, as AtomicCatalog promises it), the save    *)
(* files of all games (gb_saves.c), the HTTP handlers and row tokens       *)
(* (gb_web.c), and the menu task that prunes orphan saves, starts and      *)
(* stops the server and runs games (game_main.c).                          *)
(*                                                                         *)
(* Two tasks move: the menu task (ui) and the HTTP task (http), which      *)
(* answers one request at a time.  Browsers keep the page they fetched     *)
(* last, across edits of others and across restarts of the device.  Save   *)
(* files are told apart by their ROM, as gb_saves.c does by eight bytes of *)
(* its SHA-256.                                                            *)
(***************************************************************************)
EXTENDS Integers, Sequences, SequencesExt, SerialNumber

CONSTANTS
  Names, Roms, Playable, MaxRoms, GenMod,  \* as in AtomicCatalog
  Preinstalled,  \* the lists a device may start with
  Browsers,      \* the clients of the page
  StopMayFail,   \* httpd_stop may return an error and leave its task running
  MaxEdition     \* bound: no edit is requested past this generation

ASSUME ManagementAssumption ==
  /\ MaxRoms \in Nat \ {0}
  /\ GenMod \in Nat /\ GenMod >= 4
  /\ MaxEdition \in 0 .. GenMod - 1
  /\ StopMayFail \in BOOLEAN
  /\ Playable \subseteq Roms
  /\ \A games \in Preinstalled :
       games \in Seq([name : Names, rom : Roms]) /\ Len(games) <= MaxRoms

VARIABLES
  committed, view, goal, status, edition, trusted,  \* AtomicCatalog
  s_mounted,  \* the save partition is mounted
  saves,      \* the copies that exist of each ROM's save
  ui,         \* where the menu task is; "off" without power
  playing,    \* the ROM of the running game, None without one
  unread,     \* prune: the directory entries not yet read
  okay,       \* prune, or gb_saves_delete: no removal has failed
  s_server,   \* the menu task holds the handle of a running server
  http,       \* where the HTTP task is; "off" without one
  request,    \* what it is working on, or was last
  answer,     \* the last answer it gave, "none" while it works
  told,       \* history: the list that answer implies
  page        \* the list and its tokens, as each browser last fetched them

Cat == INSTANCE AtomicCatalog

None == "none"

catVars == <<committed, view, goal, status, edition, trusted>>
pruneVars == <<unread, okay>>
mainVars == <<ui, playing, s_server>>
httpVars == <<http, request, answer, told>>
vars == <<catVars, s_mounted, saves, mainVars, pruneVars, httpVars, page>>

Copies == {"a", "b"}

Files(files) == { f \in Roms \X Copies : f[2] \in files[f[1]] }

Without(f) == [saves EXCEPT ![f[1]] = @ \ {f[2]}]

Listed(games, rom) == \E i \in DOMAIN games : games[i].rom = rom

(* live_save_name *)
Live(f) == Listed(view, f[1])

needs_reload == status # "ready"

(***************************************************************************)
(* Tokens                                                                  *)
(***************************************************************************)

(* Mutant: the token does not bind the generation. *)
Token_NoGeneration(generation, games, i) == <<i, games[i]>>

(* gb_storage_token: a digest of the generation, the row and its entry. *)
Token(generation, games, i) == <<generation, i, games[i]>>

(* gb_storage_resolve_token, for the token of row i on a browser's page. *)
Resolves(b, i) ==
  /\ ~needs_reload
  /\ i \in DOMAIN page[b].games
  /\ i \in DOMAIN view
  /\ Token(page[b].generation, page[b].games, i) = Token(edition, view, i)

-----------------------------------------------------------------------------
Request(op, name, rom, row, shared) ==
  [op |-> op, name |-> name, rom |-> rom, row |-> row, shared |-> shared]

NoRequest == Request("none", None, None, 0, FALSE)

Init ==
  /\ committed \in Preinstalled
  /\ view = <<>>
  /\ goal = <<>>
  /\ status = "off"
  /\ edition = 0
  /\ trusted = FALSE
  /\ s_mounted = FALSE
  /\ saves \in [Roms -> {{}, Copies}]
  /\ ui = "off"
  /\ playing = None
  /\ unread = {}
  /\ okay = TRUE
  /\ s_server = FALSE
  /\ http = "off"
  /\ request = NoRequest
  /\ answer = "none"
  /\ told = <<>>
  /\ page = [b \in Browsers |-> [generation |-> 0, games |-> <<>>]]

(***************************************************************************)
(* The menu task                                                           *)
(***************************************************************************)

(* Mutant: orphans are pruned although the catalogue is not trusted. *)
Prunes_Untrusted(mounted, sure) == mounted

(* The test before, and the first one in, gb_saves_prune_orphans. *)
Prunes(mounted, sure) == mounted /\ sure

(* opendir, which may fail. *)
BeginPrune(place) ==
  /\ ui' = place
  /\ unread' = Files(saves)
  /\ okay' = TRUE

(* app_main: gb_saves_init, gb_storage_init, and orphans are pruned. *)
Boot ==
  /\ Cat!Load
  /\ s_mounted' \in BOOLEAN
  /\ \/ /\ status' = "ready"
        /\ Prunes(s_mounted', trusted')
        /\ BeginPrune("pruning")
     \/ /\ ui' = "home"
        /\ UNCHANGED pruneVars
  /\ UNCHANGED <<saves, playing, s_server, httpVars, page>>

(* management_loop, up to gb_web_start. *)
EnterManagement ==
  /\ ui = "home"
  /\ \/ Prunes(s_mounted, trusted) /\ BeginPrune("pruning_page")
     \/ ui' = "starting" /\ UNCHANGED pruneVars
  /\ UNCHANGED <<catVars, s_mounted, saves, playing, s_server, httpVars, page>>

Pruning == ui \in {"pruning", "pruning_page"}

PruneLive ==
  /\ Pruning
  /\ \E f \in unread : Live(f) /\ unread' = unread \ {f}
  /\ UNCHANGED <<catVars, s_mounted, saves, mainVars, okay, httpVars, page>>

(* Mutant: the directory is read on from wherever the removal leaves it. *)
PruneOrphan_NoRewind ==
  /\ Pruning
  /\ \E f \in unread :
       /\ ~Live(f)
       /\ saves' = Without(f)
       /\ unread' \in SUBSET (unread \ {f})
  /\ UNCHANGED <<catVars, s_mounted, mainVars, okay, httpVars, page>>

(* The orphan is removed and the directory read from its beginning. *)
PruneOrphan ==
  /\ Pruning
  /\ \E f \in unread :
       /\ ~Live(f)
       /\ saves' = Without(f)
  /\ unread' = Files(saves')
  /\ UNCHANGED <<catVars, s_mounted, mainVars, okay, httpVars, page>>

(* Mutant: the directory is also rewound after a failed removal. *)
PruneFails_Rewinds ==
  /\ Pruning
  /\ \E f \in unread : ~Live(f)
  /\ unread' = Files(saves)
  /\ okay' = FALSE
  /\ UNCHANGED <<catVars, s_mounted, saves, mainVars, httpVars, page>>

(* The orphan cannot be removed, and is passed over. *)
PruneFails ==
  /\ Pruning
  /\ \E f \in unread : ~Live(f) /\ unread' = unread \ {f}
  /\ okay' = FALSE
  /\ UNCHANGED <<catVars, s_mounted, saves, mainVars, httpVars, page>>

(* The end of the directory, or a read error that ends the pass early. *)
EndPrune ==
  /\ Pruning
  /\ unread # {} => okay' = FALSE
  /\ unread = {} => UNCHANGED okay
  /\ unread' = {}
  /\ ui' = IF ui = "pruning" THEN "home" ELSE "starting"
  /\ UNCHANGED <<catVars, s_mounted, saves, playing, s_server, httpVars, page>>

(* A server that could not be stopped still holds the port. *)
gb_web_start ==
  /\ ui = "starting"
  /\ http = "off"
  /\ http' = "idle"
  /\ s_server' = TRUE
  /\ ui' = "page"
  /\ UNCHANGED <<catVars, s_mounted, saves, playing, pruneVars, request,
                 answer, told, page>>

gb_web_start_fails ==
  /\ ui = "starting"
  /\ ui' = "home"
  /\ UNCHANGED <<catVars, s_mounted, saves, playing, s_server, pruneVars,
                 httpVars, page>>

(* The screen shows gb_storage_count and gb_storage_available. *)
ReadFooter ==
  /\ \/ ui = "page" /\ ui' = "counting"
     \/ ui = "counting" /\ ui' = "page"
  /\ UNCHANGED <<catVars, s_mounted, saves, playing, s_server, pruneVars,
                 httpVars, page>>

(* A long press of OK: gb_web_stop calls httpd_stop. *)
LeaveManagement ==
  /\ ui = "page"
  /\ ui' = "stopping"
  /\ UNCHANGED <<catVars, s_mounted, saves, playing, s_server, pruneVars,
                 httpVars, page>>

(* Mutant: the server is torn down without waiting for its task. *)
gb_web_stop_NoWait ==
  /\ ui = "stopping"
  /\ s_server' = FALSE
  /\ ui' = "home"
  /\ UNCHANGED <<catVars, s_mounted, saves, playing, pruneVars, httpVars, page>>

(* httpd_stop waits for the request in progress, ends the task and         *)
(* succeeds; an error is logged and the handle dropped all the same.       *)
gb_web_stop ==
  /\ ui = "stopping"
  /\ \/ http = "idle" /\ http' = "off"
     \/ StopMayFail /\ UNCHANGED http
  /\ s_server' = FALSE
  /\ ui' = "home"
  /\ UNCHANGED <<catVars, s_mounted, saves, playing, pruneVars, request,
                 answer, told, page>>

(* run_game: a ROM of the list in RAM is opened. *)
Launch(i) ==
  /\ ui = "home"
  /\ ~needs_reload
  /\ playing' = view[i].rom
  /\ ui' = "game"
  /\ UNCHANGED <<catVars, s_mounted, saves, s_server, pruneVars, httpVars, page>>

(* gb_saves_write creates a copy or replaces one; a game with a battery is *)
(* only played while the save partition is mounted.                        *)
SaveGame(copy) ==
  /\ ui = "game"
  /\ s_mounted
  /\ saves' = [saves EXCEPT ![playing] = @ \cup {copy}]
  /\ UNCHANGED <<catVars, s_mounted, mainVars, pruneVars, httpVars, page>>

ExitGame ==
  /\ ui = "game"
  /\ ui' = "home"
  /\ playing' = None
  /\ UNCHANGED <<catVars, s_mounted, saves, s_server, pruneVars, httpVars, page>>

-----------------------------------------------------------------------------
(***************************************************************************)
(* The HTTP task.  A request that is refused at once, because its token,   *)
(* its origin or its query is not acceptable, changes nothing.             *)
(***************************************************************************)

(* Wi-Fi is up and the server's task waits for a request. *)
Listening == http = "idle" /\ s_server

list_handler(b) ==
  /\ Listening
  /\ ~needs_reload
  /\ page' = [page EXCEPT ![b] = [generation |-> edition, games |-> view]]
  /\ UNCHANGED <<catVars, s_mounted, saves, mainVars, pruneVars, httpVars>>

Accept(r) ==
  /\ Listening
  /\ ~needs_reload
  /\ edition < MaxEdition
  /\ request' = r
  /\ http' = r.op
  /\ answer' = "none"
  /\ told' = <<>>
  /\ UNCHANGED <<catVars, s_mounted, saves, mainVars, pruneVars, page>>

upload_handler(name, rom) ==
  Accept(Request("upload", name, rom, 0, FALSE))

rename_handler(b, i, name) ==
  /\ Resolves(b, i)
  /\ Accept(Request("rename", name, None, i, FALSE))

(* Mutant: a save is not shared. *)
SharedSave_Never(i) == FALSE

(* shared_save: another row has the same ROM. *)
SharedSave(i) == \E j \in DOMAIN view : j # i /\ view[j].rom = view[i].rom

delete_handler(b, i) ==
  /\ Resolves(b, i)
  /\ SharedSave(i) \/ s_mounted
  /\ Accept(Request("delete", None, view[i].rom, i, SharedSave(i)))

Answer(text, games) ==
  /\ http' = "idle"
  /\ answer' = text
  /\ told' = games

(* Mutant: an upload whose sender falls silent is waited for. *)
EditFails_Waits ==
  /\ \/ http \in {"delete", "rename"}
     \/ http = "upload" /\ request.rom \notin Playable
  /\ Answer("failed", view)
  /\ UNCHANGED <<catVars, s_mounted, saves, mainVars, pruneVars, request, page>>

(* The edit fails before the directory is touched: the file is not         *)
(* accepted, the sender falls silent for five seconds, the name is taken,  *)
(* the list or the flash is full, or the first flash operation fails.      *)
EditFails ==
  /\ http \in {"upload", "delete", "rename"}
  /\ Answer("failed", view)
  /\ UNCHANGED <<catVars, s_mounted, saves, mainVars, pruneVars, request, page>>

(* gb_storage_rename returns at once when the name is the row's own. *)
RenameSame ==
  /\ http = "rename"
  /\ view[request.row].name = request.name
  /\ Answer("done", view)
  /\ UNCHANGED <<catVars, s_mounted, saves, mainVars, pruneVars, request, page>>

(* Mutant: a new name is not compared with the other rows. *)
Publish_AnyName ==
  /\ \/ /\ http = "upload"
        /\ request.rom \in Playable
        /\ Cat!Upload(request.name, request.rom)
     \/ http = "delete" /\ Cat!Delete(request.row)
     \/ http = "rename" /\ Cat!Begin([view EXCEPT ![request.row].name = request.name])
  /\ http' = "publish"
  /\ UNCHANGED <<s_mounted, saves, mainVars, pruneVars, request, answer, told,
                 page>>

(* The handler has reached publish_directory. *)
Publish ==
  /\ \/ /\ http = "upload"
        /\ request.rom \in Playable
        /\ Cat!Upload(request.name, request.rom)
     \/ http = "delete" /\ Cat!Delete(request.row)
     \/ http = "rename" /\ Cat!Rename(request.row, request.name)
  /\ http' = "publish"
  /\ UNCHANGED <<s_mounted, saves, mainVars, pruneVars, request, answer, told,
                 page>>

Written ==
  /\ Cat!Written
  /\ UNCHANGED <<s_mounted, saves, mainVars, pruneVars, httpVars, page>>

(* Mutant: an edit that is not confirmed is reported as not made. *)
NotConfirmed_Failed ==
  /\ Cat!Uncertain \/ Cat!Unconfirmed
  /\ Answer("failed", view)
  /\ UNCHANGED <<s_mounted, saves, mainVars, pruneVars, request, page>>

(* 503: restart the device to learn what happened. *)
NotConfirmed ==
  /\ Cat!Uncertain \/ Cat!Unconfirmed
  /\ Answer("unconfirmed", <<>>)
  /\ UNCHANGED <<s_mounted, saves, mainVars, pruneVars, request, page>>

Confirmed ==
  /\ Cat!Confirm
  /\ IF request.op = "delete" /\ ~request.shared
     THEN http' = "remove_a" /\ UNCHANGED <<answer, told>>
     ELSE Answer(IF request.shared THEN "shared" ELSE "done", goal)
  /\ UNCHANGED <<s_mounted, saves, mainVars, pruneVars, request, page>>

(* gb_saves_delete *)
RemoveA ==
  /\ http = "remove_a"
  /\ \/ saves' = Without(<<request.rom, "a">>) /\ okay' = TRUE
     \/ UNCHANGED saves /\ okay' = FALSE
  /\ http' = "remove_b"
  /\ UNCHANGED <<catVars, s_mounted, mainVars, unread, request, answer, told,
                 page>>

RemoveB ==
  /\ http = "remove_b"
  /\ \/ saves' = Without(<<request.rom, "b">>) /\ UNCHANGED okay
     \/ UNCHANGED saves /\ okay' = FALSE
  /\ Answer(IF okay' THEN "done" ELSE "save_left", view)
  /\ UNCHANGED <<catVars, s_mounted, mainVars, unread, request, page>>

-----------------------------------------------------------------------------
PowerCut ==
  /\ Cat!PowerCut
  /\ s_mounted' = FALSE
  /\ ui' = "off"
  /\ playing' = None
  /\ unread' = {}
  /\ okay' = TRUE
  /\ s_server' = FALSE
  /\ http' = "off"
  /\ UNCHANGED <<saves, request, answer, told, page>>

(* What the menu task does without being asked. *)
MenuTask ==
  \/ PruneLive
  \/ PruneOrphan
  \/ PruneFails
  \/ EndPrune
  \/ gb_web_start
  \/ gb_web_start_fails
  \/ gb_web_stop

(* What the HTTP task does with the request it has accepted. *)
HttpTask ==
  \/ EditFails
  \/ RenameSame
  \/ Publish
  \/ Written
  \/ NotConfirmed
  \/ Confirmed
  \/ RemoveA
  \/ RemoveB

(* What the operator, the browsers and the power supply may do. *)
Environment ==
  \/ Boot
  \/ EnterManagement
  \/ ReadFooter
  \/ LeaveManagement
  \/ \E i \in DOMAIN view : Launch(i)
  \/ \E copy \in Copies : SaveGame(copy)
  \/ ExitGame
  \/ \E b \in Browsers : list_handler(b)
  \/ \E name \in Names, rom \in Roms : upload_handler(name, rom)
  \/ \E b \in Browsers, i \in DOMAIN view, name \in Names :
       rename_handler(b, i, name)
  \/ \E b \in Browsers, i \in DOMAIN view : delete_handler(b, i)
  \/ PowerCut

Next == MenuTask \/ HttpTask \/ Environment

Spec == Init /\ [][Next]_vars

(* Both tasks are scheduled, and no call they make blocks for ever: a      *)
(* silent sender is given up after recv_wait_timeout.  The stop message    *)
(* stays on the server's control socket, which its loop reads between      *)
(* requests, so new requests do not keep it from being seen.               *)
FairSpec ==
  Spec /\ WF_vars(MenuTask) /\ WF_vars(HttpTask) /\ SF_vars(gb_web_stop)

-----------------------------------------------------------------------------
(***************************************************************************)
(* Properties                                                              *)
(***************************************************************************)

(* Types of the catalogue, the save files, both tasks and the pages; no    *)
(* list has more than MaxRoms rows.                                        *)
TypeOK ==
  /\ \A games \in {committed, view, goal, told} :
       games \in Seq(Cat!Game) /\ Len(games) <= MaxRoms
  /\ status \in {"off", "ready", "publishing", "written", "locked"}
  /\ edition \in 0 .. MaxEdition
  /\ {trusted, s_mounted, okay, s_server} \subseteq BOOLEAN
  /\ saves \in [Roms -> SUBSET Copies]
  /\ ui \in {"off", "home", "pruning", "pruning_page", "starting", "page",
             "counting", "stopping", "game"}
  /\ playing \in Roms \cup {None}
  /\ unread \subseteq Roms \X Copies
  /\ http \in {"off", "idle", "upload", "delete", "rename", "publish",
               "remove_a", "remove_b"}
  /\ request \in [op : {"none", "upload", "delete", "rename"},
                  name : Names \cup {None}, rom : Roms \cup {None},
                  row : 0 .. MaxRoms, shared : BOOLEAN]
  /\ answer \in {"none", "done", "shared", "save_left", "failed", "unconfirmed"}
  /\ page \in [Browsers -> [generation : 0 .. MaxEdition, games : Seq(Cat!Game)]]

(* A save file disappears only when no game of the durable catalogue has   *)
(* its ROM: not for a failed or unconfirmed delete, not for a row that     *)
(* shares its ROM with another, not for a catalogue that could not be      *)
(* read.                                                                   *)
LiveSavesKept ==
  [][\A f \in Files(saves) \ Files(saves') : ~Listed(committed', f[1])]_vars

(* Tokens bind a row to the committed generation and the complete entry:   *)
(* a row that delete or rename would accept was shown in a list that is    *)
(* still the current one, row for row.                                     *)
TokensAreFresh ==
  \A b \in Browsers : \A i \in DOMAIN view :
    Resolves(b, i) => page[b].games = view

(* What a browser was told stays true until the next request, whatever     *)
(* power does in between: the edit was made, or it was not, and a deleted  *)
(* game's saves are gone, or are kept because another row shares them.     *)
AnswersHold ==
  /\ answer \in {"done", "shared", "save_left", "failed"} => committed = told
  /\ answer = "done" /\ request.op = "delete" =>
       saves[request.rom] = {} /\ ~Listed(committed, request.rom)
  /\ answer = "shared" => Listed(committed, request.rom)

(* The state has its types, and the game being played is one of the        *)
(* durable catalogue, which is not being changed: its bytes are mapped and *)
(* its save will be found again.                                           *)
PlayedGameIsListed ==
  /\ TypeOK
  /\ ui = "game" => status = "ready" /\ Listed(committed, playing)

(* A prune that has read the directory to its end without an error leaves  *)
(* no save file without a game.                                            *)
PruneLeavesNoOrphan ==
  Pruning /\ unread = {} /\ okay => \A f \in Files(saves) : Live(f)

(* The tasks use the catalogue as AtomicCatalog allows. *)
UsesCatalog == Cat!Spec

(* gb_saves_prune_orphans returns, although it starts over after every     *)
(* removal and passes over files it cannot remove.                         *)
PruneEnds == Pruning ~> ~Pruning

(* The management screen can be left: gb_web_stop, which waits for the     *)
(* request in progress, returns.                                           *)
StopReturns == ui = "stopping" ~> ui # "stopping"

(* gb_storage_upload "must be called outside a running game": no request   *)
(* outlives the management page and goes on uploading under a game.        *)
UploadsOutsideGames ==
  ui = "game" => ~(http \in {"upload", "publish"} /\ request.op = "upload")

(* "Storage access must remain serialized": the menu task does not read    *)
(* the table for its footer while the HTTP task is replacing it.           *)
StorageAccessSerialized ==
  ui = "counting" => status \notin {"publishing", "written"}
=============================================================================
