----------------------------- MODULE ConfigStore -----------------------------
(***************************************************************************)
(* app/services/config_store.py: the configuration in memory, which cfg()  *)
(* reads, and fortress_config.json, which load() reads at the next start.  *)
(*                                                                         *)
(* The lock covers the memory and not the file: save() takes a snapshot    *)
(* under the lock and then writes, rotates and renames without it.  A      *)
(* configuration is the set of section updates it reflects, {} being the   *)
(* defaults.  A request (one section, a preset of several, a restore that  *)
(* starts from the defaults) saves after each of its steps.                *)
(***************************************************************************)
EXTENDS Naturals, FiniteSets, TLC, JsonText

CONSTANTS
  Workers,     \* the worker threads that run handlers
  Inodes,      \* enough for the three names and every open handle
  MaxUpdates,  \* bound on section updates
  MaxResets,   \* bound on resets to the defaults
  MaxFaults    \* bound on failed saves and crashes

ASSUME ConfigAssumption ==
  /\ 0 \notin Inodes
  /\ MaxUpdates \in Nat
  /\ MaxResets \in Nat
  /\ MaxFaults \in Nat

VARIABLES
  mem,        \* _config
  conf,       \* the inode under fortress_config.json, 0 when there is none
  bak,        \* the one under fortress_config.bak.json
  tmp,        \* the one under fortress_config.tmp
  text,       \* what each inode holds
  th,         \* the request each thread is in
  updates,    \* section updates made, each known by its number
  resets,     \* resets made, bounded by MaxResets
  acked,      \* updates of the requests answered with success
  wiped,      \* history: updates made before the last reset
  overlapped, \* history: some request ran while another was under way
  unsaved,    \* history: a save failed, and none has succeeded since
  fellBack,   \* history: a start found no readable file where one had been
  restarted,  \* history: the process has been restarted
  faults      \* failed saves and crashes, bounded by MaxFaults

files == <<conf, bak, tmp, text>>
counts == <<updates, resets>>
history == <<wiped, overlapped, unsaved, fellBack, restarted>>
configVars == <<mem, files, th, counts, acked, history, faults>>

Update == 1..MaxUpdates
Config == SUBSET Update

\* A thread: the next step of its request, the updates the request has made,
\* how many it has still to make, and its snapshot and handle of a save.
Thread == [pc: {"idle", "snapshot", "open", "head", "tail", "rotate", "replace"},
           made: Config, todo: Nat, data: Config, file: Inodes \union {0}]
NoRequest == [pc |-> "idle", made |-> {}, todo |-> 0, data |-> {}, file |-> 0]

Idle(t) == th[t].pc = "idle"

\* The memory, the names and inodes, the requests and the history keep their
\* types, within the bounds.
TypeOK ==
  /\ mem \in Config
  /\ {conf, bak, tmp} \subseteq Inodes \union {0}
  /\ text \in [Inodes -> TextSet(Config)]
  /\ th \in [Workers -> Thread]
  /\ updates \in 0..MaxUpdates
  /\ resets \in 0..MaxResets
  /\ acked \in Config
  /\ wiped \in Config
  /\ {overlapped, unsaved, fellBack, restarted} \subseteq BOOLEAN
  /\ faults \in 0..MaxFaults

\* load: what a start makes of the file, the defaults if there is none or it
\* is malformed.
Loaded == IF conf = 0 THEN {} ELSE UNION Parse(text[conf])

ConfigInit ==
  /\ mem = {}
  /\ conf = 0 /\ bak = 0 /\ tmp = 0
  /\ text = [i \in Inodes |-> Blank]
  /\ th = [t \in Workers |-> NoRequest]
  /\ updates = 0 /\ resets = 0
  /\ acked = {}
  /\ wiped = {}
  /\ overlapped = FALSE /\ unsaved = FALSE /\ fellBack = FALSE
  /\ restarted = FALSE
  /\ faults = 0

-----------------------------------------------------------------------------
(* The changes of the memory, each under the lock.                         *)

Begin(t, made, todo) ==
  /\ Idle(t)
  /\ th' = [th EXCEPT ![t] = [NoRequest EXCEPT !.pc = "snapshot",
                                !.made = made, !.todo = todo]]
  /\ overlapped' = (overlapped \/ \E u \in Workers : ~Idle(u))
  /\ UNCHANGED <<files, acked, unsaved, fellBack, restarted, faults>>

\* The variant that replaces the section.
MergeReplaces(u) ==
  /\ updates < MaxUpdates
  /\ u = updates + 1
  /\ updates' = u
  /\ mem' = {u}

\* set_value and update_section merge the next update into the memory.
Merge(u) ==
  /\ updates < MaxUpdates
  /\ u = updates + 1
  /\ updates' = u
  /\ mem' = mem \union {u}

\* A request with todo more sections to come, as apply_preset makes it.
UpdateSection(t) ==
  \E u \in Update, todo \in {0, 1} :
    /\ Merge(u)
    /\ Begin(t, {u}, todo)
    /\ UNCHANGED <<resets, wiped>>

\* reset_to_defaults, alone or as the first step of config_restore.
ResetToDefaults(t) ==
  \E todo \in {0, 1} :
    /\ resets < MaxResets
    /\ resets' = resets + 1
    /\ mem' = {}
    /\ wiped' = 1..updates
    /\ Begin(t, {}, todo)
    /\ UNCHANGED updates

-----------------------------------------------------------------------------
(* save().                                                                 *)

Goes(t, pc) == th' = [th EXCEPT ![t].pc = pc]

Snapshot(t) ==
  /\ th[t].pc = "snapshot"
  /\ th' = [th EXCEPT ![t] = [@ EXCEPT !.pc = "open", !.data = mem]]
  /\ UNCHANGED <<mem, files, counts, acked, history, faults>>

\* An inode no name and no open handle refers to.
Unused(i) == i \notin {conf, bak, tmp} /\ \A t \in Workers : th[t].file # i

\* The variant that writes fortress_config.json itself.
OpenTmpInPlace(t) ==
  \E i \in Inodes :
    /\ th[t].pc = "open"
    /\ IF conf = 0 THEN Unused(i) ELSE i = conf
    /\ tmp' = i
    /\ text' = [text EXCEPT ![i] = Blank]
    /\ th' = [th EXCEPT ![t] = [@ EXCEPT !.pc = "head", !.file = i]]
    /\ UNCHANGED <<mem, conf, bak, counts, acked, history, faults>>

OpenTmp(t) ==
  \E i \in Inodes :
    /\ th[t].pc = "open"
    /\ IF tmp = 0 THEN Unused(i) ELSE i = tmp
    /\ tmp' = i
    /\ text' = [text EXCEPT ![i] = Blank]
    /\ th' = [th EXCEPT ![t] = [@ EXCEPT !.pc = "head", !.file = i]]
    /\ UNCHANGED <<mem, conf, bak, counts, acked, history, faults>>

WriteHead(t) ==
  /\ th[t].pc = "head"
  /\ text' = [text EXCEPT ![th[t].file].head = {th[t].data}]
  /\ Goes(t, "tail")
  /\ UNCHANGED <<mem, conf, bak, tmp, counts, acked, history, faults>>

WriteTail(t) ==
  /\ th[t].pc = "tail"
  /\ text' = [text EXCEPT ![th[t].file].tail = {th[t].data}]
  /\ th' = [th EXCEPT ![t] = [@ EXCEPT !.pc = "rotate", !.file = 0]]
  /\ UNCHANGED <<mem, conf, bak, tmp, counts, acked, history, faults>>

\* The file, if there is one, becomes the .bak.
Rotate(t) ==
  /\ th[t].pc = "rotate"
  /\ conf' = 0
  /\ bak' = IF conf = 0 THEN bak ELSE conf
  /\ Goes(t, "replace")
  /\ UNCHANGED <<mem, tmp, text, counts, acked, history, faults>>

\* tmp.replace(_CONFIG_FILE) fails when another save has taken the temporary
\* file away.
ReplaceFails(t) ==
  /\ th[t].pc = "replace"
  /\ tmp = 0
  /\ th' = [th EXCEPT ![t] = NoRequest]
  /\ unsaved' = TRUE
  /\ UNCHANGED <<mem, files, counts, acked, wiped, overlapped, fellBack,
                 restarted, faults>>

Renamed ==
  /\ tmp # 0
  /\ conf' = tmp
  /\ tmp' = 0
  /\ unsaved' = FALSE
  /\ UNCHANGED <<bak, text, wiped, overlapped, fellBack, restarted, faults>>

\* The last save of a request: it is answered.
Answer(t) ==
  /\ th[t].pc = "replace"
  /\ th[t].todo = 0
  /\ Renamed
  /\ acked' = acked \union th[t].made
  /\ th' = [th EXCEPT ![t] = NoRequest]
  /\ UNCHANGED <<mem, counts>>

\* An earlier save of a request: its next section is merged.
NextSection(t) ==
  \E u \in Update :
    LET h == th[t] IN
    /\ th[t].pc = "replace"
    /\ th[t].todo > 0
    /\ Renamed
    /\ Merge(u)
    /\ th' = [th EXCEPT ![t] = [h EXCEPT !.pc = "snapshot",
                                         !.todo = h.todo - 1,
                                         !.made = h.made \union {u}]]
    /\ UNCHANGED <<resets, acked>>

-----------------------------------------------------------------------------
\* A full disk ends a save before its renames.
SaveFails(t) ==
  /\ th[t].pc \in {"open", "head", "tail"}
  /\ faults < MaxFaults
  /\ faults' = faults + 1
  /\ th' = [th EXCEPT ![t] = NoRequest]
  /\ unsaved' = TRUE
  /\ UNCHANGED <<mem, files, counts, acked, wiped, overlapped, fellBack,
                 restarted>>

\* The process dies and starts again from the file.
Restart ==
  /\ faults < MaxFaults
  /\ faults' = faults + 1
  /\ mem' = Loaded
  /\ th' = [t \in Workers |-> NoRequest]
  /\ restarted' = TRUE
  /\ unsaved' = FALSE
  /\ fellBack' = (fellBack \/ IF conf = 0 THEN bak # 0
                                         ELSE Parse(text[conf]) = {})
  /\ UNCHANGED <<files, counts, acked, wiped, overlapped>>

Request(t) ==
  \/ UpdateSection(t)
  \/ ResetToDefaults(t)
  \/ Snapshot(t)
  \/ OpenTmp(t)
  \/ WriteHead(t)
  \/ WriteTail(t)
  \/ Rotate(t)
  \/ ReplaceFails(t)
  \/ Answer(t)
  \/ NextSection(t)
  \/ SaveFails(t)

ConfigNext == Restart \/ \E t \in Workers : Request(t)

ConfigSpec == ConfigInit /\ [][ConfigNext]_configVars

-----------------------------------------------------------------------------
(* What the store promises.                                                *)

\* The updates that must still be in force.
Owed == acked \ wiped

\* The lock is enough for the memory: however requests interleave and saves
\* fail, cfg() reflects every answered update until the next restart.
MemoryKeepsAnswered == ~restarted => Owed \subseteq mem

\* Outside the two renames of save(), as long as no two requests have
\* overlapped, a restart brings back every answered update.
RestartKeepsAnsweredOutsideRename ==
  ~overlapped /\ ~fellBack /\ (\A t \in Workers : th[t].pc # "replace")
    => Owed \subseteq Loaded

-----------------------------------------------------------------------------
\* For TLC: threads are interchangeable, and so are inodes.
Symmetry == Permutations(Workers) \union Permutations(Inodes)

=============================================================================
