----------------------------- MODULE StateStore -----------------------------
(***************************************************************************)
(* One JSON state file as app/services/state.py keeps it.                  *)
(*                                                                         *)
(* Every mutating route is a read_json, a change of the document and a     *)
(* write_json, run by a worker thread with no lock.  write_json copies the *)
(* file to the backups, unlinks the oldest of them, writes <file>.tmp and  *)
(* renames it over the file.  A backup is named after its second and the   *)
(* temporary file has a fixed name: two writers open, truncate and fill    *)
(* the same file, so names, inodes and open handles are told apart.        *)
(* A document is the set of requests it reflects and reaches the disk in   *)
(* two pieces.  Reading changes nothing: what a reader gets is Parse.      *)
(***************************************************************************)
EXTENDS Naturals, FiniteSets, TLC, JsonText

CONSTANTS
  Threads,      \* the worker threads that run handlers
  Inodes,       \* enough for both names and every open handle
  Keep,         \* backups kept per file (50 in the code)
  MaxTime,      \* bound on the clock, in seconds
  MaxRequests,  \* bound on mutating requests
  MaxFaults     \* bound on failed writes and crashes

ASSUME StoreAssumption ==
  /\ 0 \notin Inodes
  /\ Keep \in Nat \ {0}
  /\ MaxTime \in Nat
  /\ MaxRequests \in Nat
  /\ MaxFaults \in Nat

VARIABLES
  path,       \* the inode under the file's name, 0 when there is no file
  tmp,        \* the inode under <file>.tmp, 0 when there is none
  text,       \* what each inode holds
  backups,    \* the files in the backup directory, known by their second
  now,        \* the clock, in seconds
  default,    \* the DEFAULT_... object, which handlers change in place
  th,         \* the write each thread is in
  requests,   \* requests started so far, each known by its number
  acked,      \* requests answered with success
  existed,    \* history: the file was there from the start
  overlapped, \* history: some write ran while another was under way
  faults      \* failed writes and crashes, bounded by MaxFaults

vars == <<path, tmp, text, backups, now, default, th, requests, acked, existed,
          overlapped, faults>>

Updates == 1..MaxRequests
Document == SUBSET Updates

Text == TextSet(Document)

\* What a reader gets.
Shown == IF path = 0 THEN default ELSE UNION Parse(text[path])
Readable == path # 0 => Parse(text[path]) # {}

\* A write: its next step, its request and document, the inode it has open (the
\* one it copies, then the one it fills), the backup it writes, and those it has
\* listed as too old.
Thread == [pc: {"idle", "backup", "copyHead", "copyTail", "list", "unlink",
                "open", "head", "tail", "replace"},
           req: 0..MaxRequests, data: Document, shared: BOOLEAN,
           file: Inodes \union {0}, at: 0..MaxTime, old: SUBSET (0..MaxTime)]
NoWrite == [pc |-> "idle", req |-> 0, data |-> {}, shared |-> FALSE, file |-> 0,
            at |-> 0, old |-> {}]

Idle(t) == th[t].pc = "idle"
GoesOn(t, pc) == th' = [th EXCEPT ![t].pc = pc]

\* The names and inodes, the backups and the writes under way keep their types.
TypeOK ==
  /\ path \in Inodes \union {0}
  /\ tmp \in Inodes \union {0}
  /\ text \in [Inodes -> Text]
  /\ backups \subseteq [at: 0..MaxTime, text: Text]
  /\ now \in 0..MaxTime
  /\ default \in Document
  /\ th \in [Threads -> Thread]
  /\ requests \in 0..MaxRequests
  /\ acked \in Document
  /\ existed \in BOOLEAN
  /\ overlapped \in BOOLEAN
  /\ faults \in 0..MaxFaults

Init ==
  /\ path \in {0} \union Inodes
  /\ tmp = 0
  /\ text = [i \in Inodes |-> TextOf({})]
  /\ backups = {}
  /\ now = 0
  /\ default = {}
  /\ th = [t \in Threads |-> NoWrite]
  /\ requests = 0
  /\ acked = {}
  /\ existed = (path # 0)
  /\ overlapped = FALSE
  /\ faults = 0

-----------------------------------------------------------------------------
\* read_json, and the handler's change: the next request is added to what the
\* file says or, in place, to the default object when there is no file.
ReadAndChange(t) ==
  /\ Idle(t)
  /\ Readable
  /\ requests < MaxRequests
  /\ requests' = requests + 1
  /\ th' = [th EXCEPT ![t] =
              [NoWrite EXCEPT !.pc = "backup", !.req = requests',
                              !.data = Shown \union {requests'},
                              !.shared = (path = 0)]]
  /\ default' = IF path = 0 THEN default \union {requests'} ELSE default
  /\ overlapped' = (overlapped \/ \E u \in Threads : ~Idle(u))
  /\ UNCHANGED <<path, tmp, text, backups, now, acked, existed, faults>>

\* The file of the second s is there, empty.
Created(B, s) == {b \in B : b.at # s} \union {[at |-> s, text |-> Blank]}

\* The variant that moves the file to the backups.
CopyOpenMoves(t) ==
  /\ th[t].pc = "backup"
  /\ backups' = IF path = 0 THEN backups
                ELSE {b \in backups : b.at # now}
                       \union {[at |-> now, text |-> text[path]]}
  /\ path' = 0
  /\ GoesOn(t, "open")
  /\ UNCHANGED <<tmp, text, now, default, requests, acked, existed, overlapped,
                 faults>>

\* shutil.copy2 opens the file, if there is one, and the backup of this second,
\* which it creates or truncates.
CopyOpen(t) ==
  /\ th[t].pc = "backup"
  /\ IF path = 0
     THEN GoesOn(t, "open") /\ UNCHANGED backups
     ELSE /\ backups' = Created(backups, now)
          /\ th' = [th EXCEPT ![t] = [@ EXCEPT !.pc = "copyHead", !.file = path,
                                              !.at = now]]
  /\ UNCHANGED <<path, tmp, text, now, default, requests, acked, existed,
                 overlapped, faults>>

\* Half of the text arrives in the backup, if it has not been unlinked.
CopyHead(t) ==
  /\ th[t].pc = "copyHead"
  /\ backups' = {IF b.at = th[t].at
                 THEN [b EXCEPT !.text.head = text[th[t].file].head] ELSE b :
                   b \in backups}
  /\ GoesOn(t, "copyTail")
  /\ UNCHANGED <<path, tmp, text, now, default, requests, acked, existed,
                 overlapped, faults>>

\* The rest, and copystat, which raises when the backup has been unlinked.
CopyTail(t) ==
  /\ th[t].pc = "copyTail"
  /\ backups' = {IF b.at = th[t].at
                 THEN [b EXCEPT !.text.tail = text[th[t].file].tail] ELSE b :
                   b \in backups}
  /\ th' = [th EXCEPT ![t] =
              IF \E b \in backups : b.at = @.at
              THEN [@ EXCEPT !.pc = "list", !.file = 0, !.at = 0] ELSE NoWrite]
  /\ UNCHANGED <<path, tmp, text, now, default, requests, acked, existed,
                 overlapped, faults>>

\* The backups but the Keep latest, whole or torn; the variant lists the others.
OldOfLatest(B) == {b \in B : Cardinality({c \in B : c.at < b.at}) >= Keep}
Old(B) == {b \in B : Cardinality({c \in B : c.at > b.at}) >= Keep}

\* The unlinking of the backups of the seconds S comes next.
Unlinks(t, S) ==
  th' = [th EXCEPT ![t] = [@ EXCEPT !.pc = IF S = {} THEN "open" ELSE "unlink",
                                    !.old = S]]

\* glob and sort: what is too old by now.
ListOld(t) ==
  /\ th[t].pc = "list"
  /\ Unlinks(t, {b.at : b \in Old(backups)})
  /\ UNCHANGED <<path, tmp, text, backups, now, default, requests, acked,
                 existed, overlapped, faults>>

\* The oldest of the list is unlinked, if nobody has done so.
Unlink(t) ==
  \E s \in th[t].old :
    /\ th[t].pc = "unlink"
    /\ \A r \in th[t].old : s <= r
    /\ backups' = {b \in backups : b.at # s}
    /\ Unlinks(t, th[t].old \ {s})
    /\ UNCHANGED <<path, tmp, text, now, default, requests, acked, existed,
                   overlapped, faults>>

\* An inode no name and no open handle refers to.
Unused(i) == i # path /\ i # tmp /\ \A t \in Threads : th[t].file # i

\* The variant that writes the file itself.
OpenTmpInPlace(t) ==
  \E i \in Inodes :
    /\ th[t].pc = "open"
    /\ IF path = 0 THEN Unused(i) ELSE i = path
    /\ tmp' = i
    /\ text' = [text EXCEPT ![i] = Blank]
    /\ th' = [th EXCEPT ![t] = [@ EXCEPT !.pc = "head", !.file = i]]
    /\ UNCHANGED <<path, backups, now, default, requests, acked, existed,
                   overlapped, faults>>

\* open("w") creates the temporary file or truncates the one that is there.
OpenTmp(t) ==
  \E i \in Inodes :
    /\ th[t].pc = "open"
    /\ IF tmp = 0 THEN Unused(i) ELSE i = tmp
    /\ tmp' = i
    /\ text' = [text EXCEPT ![i] = Blank]
    /\ th' = [th EXCEPT ![t] = [@ EXCEPT !.pc = "head", !.file = i]]
    /\ UNCHANGED <<path, backups, now, default, requests, acked, existed,
                   overlapped, faults>>

\* json.dump writes a first part of what the document is by now.
WriteHead(t) ==
  LET d == IF th[t].shared THEN default ELSE th[t].data IN
  /\ th[t].pc = "head"
  /\ text' = [text EXCEPT ![th[t].file].head = {d}]
  /\ th' = [th EXCEPT ![t] = [@ EXCEPT !.pc = "tail", !.data = d]]
  /\ UNCHANGED <<path, tmp, backups, now, default, requests, acked, existed,
                 overlapped, faults>>

\* The rest is written and the handle closed.
WriteTail(t) ==
  /\ th[t].pc = "tail"
  /\ text' = [text EXCEPT ![th[t].file].tail = {th[t].data}]
  /\ th' = [th EXCEPT ![t] = [@ EXCEPT !.pc = "replace", !.file = 0]]
  /\ UNCHANGED <<path, tmp, backups, now, default, requests, acked, existed,
                 overlapped, faults>>

\* The rename publishes whatever the temporary name refers to by now.  When
\* another writer has taken it away, FileNotFoundError fails the request.
Replace(t) ==
  /\ th[t].pc = "replace"
  /\ IF tmp = 0
     THEN UNCHANGED <<path, tmp, acked>>
     ELSE /\ path' = tmp
          /\ tmp' = 0
          /\ acked' = acked \union {th[t].req}
  /\ th' = [th EXCEPT ![t] = NoWrite]
  /\ UNCHANGED <<text, backups, now, default, requests, existed, overlapped,
                 faults>>

\* The variant that renames the temporary file even so.
WriteFailsPublishes(t) ==
  /\ ~Idle(t)
  /\ faults < MaxFaults
  /\ faults' = faults + 1
  /\ th' = [th EXCEPT ![t] = NoWrite]
  /\ path' = IF tmp = 0 THEN path ELSE tmp
  /\ tmp' = 0
  /\ UNCHANGED <<text, backups, now, default, requests, acked, existed,
                 overlapped>>

\* A full disk, or no permission, ends the request.
WriteFails(t) ==
  /\ ~Idle(t)
  /\ faults < MaxFaults
  /\ faults' = faults + 1
  /\ th' = [th EXCEPT ![t] = NoWrite]
  /\ UNCHANGED <<path, tmp, text, backups, now, default, requests, acked,
                 existed, overlapped>>

\* The process dies and is started again: its memory is new, the disk stays.
Crash ==
  /\ faults < MaxFaults
  /\ faults' = faults + 1
  /\ th' = [t \in Threads |-> NoWrite]
  /\ default' = {}
  /\ UNCHANGED <<path, tmp, text, backups, now, requests, acked, existed,
                 overlapped>>

Tick ==
  /\ now < MaxTime
  /\ now' = now + 1
  /\ UNCHANGED <<path, tmp, text, backups, default, th, requests, acked,
                 existed, overlapped, faults>>

Write(t) ==
  \/ ReadAndChange(t)
  \/ CopyOpen(t)
  \/ CopyHead(t)
  \/ CopyTail(t)
  \/ ListOld(t)
  \/ Unlink(t)
  \/ OpenTmp(t)
  \/ WriteHead(t)
  \/ WriteTail(t)
  \/ Replace(t)
  \/ WriteFails(t)

Next == Crash \/ Tick \/ \E t \in Threads : Write(t)

Spec == Init /\ [][Next]_vars

-----------------------------------------------------------------------------
(* What the store promises.                                                *)

\* As long as no two writes have overlapped, the file is one whole document at
\* every moment, whatever writes fail and wherever the process dies.
WholeWhileAlone == ~overlapped => Readable

\* As long as no two writes have overlapped, no answered request is lost.
AckedKeptWhileAlone == ~overlapped => acked \subseteq Shown

\* An update reaches the file only through its own request or, when the file
\* was missing, through the default object that a failed request had changed:
\* with the file there, a refused request leaves no trace.
NoTraceOfFailures == ~overlapped /\ existed => Shown \subseteq acked

\* As long as no two writes have overlapped on a file that was there, the
\* store implements AtomicFile.
File == INSTANCE AtomicFile WITH
          doc <- Shown, kept <- UNION {Parse(b.text) : b \in backups}

ImplementsAtomicFile ==
  /\ File!Init
  /\ [][~overlapped' /\ existed => [File!Next]_(File!vars)]_vars

-----------------------------------------------------------------------------
\* For TLC: threads are interchangeable, and so are inodes.
Symmetry == Permutations(Threads) \union Permutations(Inodes)

=============================================================================
