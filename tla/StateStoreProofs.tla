-------------------------- MODULE StateStoreProofs --------------------------
(***************************************************************************)
(* What StateStore promises as long as no two writes overlap, proved for   *)
(* any number of threads, inodes, kept backups, requests and faults.       *)
(*                                                                         *)
(* The invariant says where the only writer is: its temporary inode is     *)
(* never the published one, it holds what the writer has written so far,   *)
(* and the published inode is one whole document.  A backup is copied from *)
(* it piece by piece: the invariant says how much of the copy is there,    *)
(* that it is the latest, so that the writer does not list it as too old,  *)
(* and that it is whole from the moment the writer has closed it.          *)
(***************************************************************************)
EXTENDS StateStore, FiniteSetTheorems, TLAPS

\* Writing a piece of a document keeps a text a text.
LEMMA PieceWritten ==
  ASSUME NEW x \in Text, NEW d \in Document
  PROVE  /\ [x EXCEPT !.head = {d}] \in Text
         /\ [x EXCEPT !.tail = {d}] \in Text
         /\ Blank \in Text
<1>1. {d} \in Piece(Document) /\ {} \in Piece(Document)
  BY DEF Piece
<1>2. QED
  BY <1>1 DEF Text, TextSet, Blank

\* What a reader gets is a document.
LEMMA ShownType ==
  ASSUME TypeOK
  PROVE  Shown \in Document
<1>1. CASE path = 0
  BY <1>1 DEF Shown, TypeOK
<1>2. CASE path # 0
  <2>1. text[path] \in Text
    BY <1>2 DEF TypeOK
  <2>2. text[path].head \subseteq Document
    BY <2>1 DEF Text, TextSet, Piece
  <2>3. UNION Parse(text[path]) \in SUBSET Updates
    BY <2>2 DEF Parse, Document
  <2>4. QED
    BY <1>2, <2>3 DEF Shown, Document
<1>3. QED
  BY <1>1, <1>2

Backups == [at: 0..MaxTime, text: Text]

\* A backup with one more piece of a text is a backup.
LEMMA PieceCopied ==
  ASSUME NEW b \in Backups, NEW x \in Text
  PROVE  /\ [b EXCEPT !.text.head = x.head] \in Backups
         /\ [b EXCEPT !.text.tail = x.tail] \in Backups
<1>1. /\ b.text \in Text
      /\ [b.text EXCEPT !.head = x.head] \in Text
      /\ [b.text EXCEPT !.tail = x.tail] \in Text
  BY DEF Backups, Text, TextSet
<1>2. /\ [b EXCEPT !.text.head = x.head] = [b EXCEPT !.text = [b.text EXCEPT !.head = x.head]]
      /\ [b EXCEPT !.text.tail = x.tail] = [b EXCEPT !.text = [b.text EXCEPT !.tail = x.tail]]
  BY DEF Backups
<1>3. QED
  BY <1>1, <1>2 DEF Backups

\* A backup than which none is later is not too old.
LEMMA LatestNotOld ==
  ASSUME NEW B \in SUBSET Backups, NEW b \in B, \A c \in B : c.at <= b.at
  PROVE  b.at \notin {c.at : c \in Old(B)}
<1> SUFFICES ASSUME NEW o \in Old(B), o.at = b.at
             PROVE  FALSE
  OBVIOUS
<1>1. o \in B /\ Cardinality({c \in B : c.at > o.at}) >= Keep
  BY DEF Old
<1>2. {c \in B : c.at > o.at} = {}
  <2>1. SUFFICES ASSUME NEW c \in B, c.at > o.at
                 PROVE  FALSE
    OBVIOUS
  <2>2. c.at \in Nat /\ b.at \in Nat /\ c.at <= b.at
    BY StoreAssumption DEF Backups, StoreAssumption
  <2>3. QED
    BY <2>1, <2>2
<1>3. QED
  BY <1>1, <1>2, FS_EmptySet, StoreAssumption DEF StoreAssumption

-----------------------------------------------------------------------------
(* Types.                                                                  *)

\* The steps of a backup.
Copying(t) ==
  \/ CopyOpen(t) \/ CopyHead(t) \/ CopyTail(t) \/ ListOld(t) \/ Unlink(t)

\* A writer carries out a request that has been numbered, and copies from a file
\* it has opened.
Numbered ==
  \A t \in Threads :
    /\ ~Idle(t) => th[t].req \in 1..requests
    /\ th[t].pc \in {"copyHead", "copyTail"} => th[t].file \in Inodes

\* A step of a backup leaves the file, the request and the other writers alone.
LEMMA CopyingEffect ==
  ASSUME TypeOK, NEW t \in Threads, Copying(t)
  PROVE  /\ UNCHANGED <<path, tmp, text, now, default, requests, acked, existed,
                        overlapped, faults>>
         /\ ~Idle(t) /\ \A u \in Threads \ {t} : th'[u] = th[u]
         /\ th'[t] # NoWrite =>
              /\ th'[t].req = th[t].req /\ th'[t].data = th[t].data
              /\ th'[t].shared = th[t].shared
              /\ th'[t].pc \notin {"head", "tail", "replace"}
<1> USE DEF Idle
<1>1. th[t] \in Thread
  BY DEF TypeOK
<1>2. CASE CopyOpen(t)
  <2>1. CASE path = 0
    <3>1. th' = [th EXCEPT ![t].pc = "open"]
      BY <1>2, <2>1 DEF CopyOpen, GoesOn
    <3>2. QED
      BY <1>1, <1>2, <3>1 DEF CopyOpen, TypeOK, Thread
  <2>2. CASE path # 0
    <3>1. th' = [th EXCEPT ![t] = [th[t] EXCEPT !.pc = "copyHead", !.file = path,
                                                !.at = now]]
      BY <1>2, <2>2 DEF CopyOpen, TypeOK
    <3>2. QED
      BY <1>1, <1>2, <3>1 DEF CopyOpen, TypeOK, Thread
  <2>3. QED
    BY <2>1, <2>2
<1>3. CASE CopyHead(t)
  <2>1. th' = [th EXCEPT ![t].pc = "copyTail"]
    BY <1>3 DEF CopyHead, GoesOn
  <2>2. QED
    BY <1>1, <1>3, <2>1 DEF CopyHead, TypeOK, Thread
<1>4. CASE CopyTail(t)
  <2>1. CASE \E b \in backups : b.at = th[t].at
    <3>1. th' = [th EXCEPT ![t] = [th[t] EXCEPT !.pc = "list", !.file = 0, !.at = 0]]
      BY <1>4, <2>1 DEF CopyTail, TypeOK
    <3>2. QED
      BY <1>1, <1>4, <3>1 DEF CopyTail, TypeOK, Thread
  <2>2. CASE ~\E b \in backups : b.at = th[t].at
    <3>1. th' = [th EXCEPT ![t] = NoWrite]
      BY <1>4, <2>2 DEF CopyTail, TypeOK
    <3>2. QED
      BY <1>1, <1>4, <3>1 DEF CopyTail, TypeOK, Thread
  <2>3. QED
    BY <2>1, <2>2
<1>5. ASSUME NEW S, Unlinks(t, S)
      PROVE  /\ th'[t].req = th[t].req /\ th'[t].data = th[t].data
             /\ th'[t].shared = th[t].shared
             /\ th'[t].pc = IF S = {} THEN "open" ELSE "unlink"
             /\ \A u \in Threads \ {t} : th'[u] = th[u]
  <2>1. th' = [th EXCEPT ![t] = [th[t] EXCEPT
                 !.pc = IF S = {} THEN "open" ELSE "unlink", !.old = S]]
    BY <1>5 DEF Unlinks, TypeOK
  <2>2. QED
    BY <1>1, <2>1 DEF TypeOK, Thread
<1>6. CASE ListOld(t)
  BY <1>5, <1>6 DEF ListOld
<1>7. CASE Unlink(t)
  BY <1>5, <1>7 DEF Unlink
<1>8. QED
  BY <1>2, <1>3, <1>4, <1>6, <1>7 DEF Copying

\* The write of a copying step, and the backups, keep their types.
LEMMA CopyingType ==
  ASSUME TypeOK, Numbered, NEW t \in Threads, Copying(t)
  PROVE  th' \in [Threads -> Thread] /\ backups' \subseteq Backups
<1>1. th[t] \in Thread /\ backups \subseteq Backups /\ NoWrite \in Thread
  BY StoreAssumption DEF TypeOK, Backups, NoWrite, Thread, Document, StoreAssumption
<1>2. CASE CopyOpen(t)
  <2>1. CASE path = 0
    <3>1. th' = [th EXCEPT ![t].pc = "open"]
      BY <1>2, <2>1 DEF CopyOpen, GoesOn
    <3>2. QED
      BY <1>1, <1>2, <2>1, <3>1 DEF CopyOpen, TypeOK, Thread
  <2>2. CASE path # 0
    <3>1. [th[t] EXCEPT !.pc = "copyHead", !.file = path, !.at = now] \in Thread
      BY <1>1 DEF TypeOK, Thread
    <3>2. th' \in [Threads -> Thread]
      BY <1>2, <2>2, <3>1 DEF CopyOpen, TypeOK
    <3>3. [at |-> now, text |-> Blank] \in Backups
      BY DEF TypeOK, Backups, Blank, Text, TextSet, Piece
    <3>4. QED
      BY <1>1, <1>2, <2>2, <3>2, <3>3 DEF CopyOpen, Created
  <2>3. QED
    BY <2>1, <2>2
<1>3. ASSUME CopyHead(t) \/ CopyTail(t)
      PROVE  text[th[t].file] \in Text
  BY <1>3 DEF CopyHead, CopyTail, Numbered, TypeOK
<1>4. CASE CopyHead(t)
  <2>1. backups' \subseteq Backups
    <3>1. SUFFICES ASSUME NEW b \in backups
                   PROVE  [b EXCEPT !.text.head = text[th[t].file].head] \in Backups
      BY <1>1, <1>4 DEF CopyHead
    <3>2. b \in Backups
      BY <1>1
    <3>3. QED
      BY <1>3, <1>4, <3>2, PieceCopied
  <2>2. th' = [th EXCEPT ![t].pc = "copyTail"]
    BY <1>4 DEF CopyHead, GoesOn
  <2>3. QED
    BY <1>1, <2>1, <2>2 DEF TypeOK, Thread
<1>5. CASE CopyTail(t)
  <2>1. backups' \subseteq Backups
    <3>1. SUFFICES ASSUME NEW b \in backups
                   PROVE  [b EXCEPT !.text.tail = text[th[t].file].tail] \in Backups
      BY <1>1, <1>5 DEF CopyTail
    <3>2. b \in Backups
      BY <1>1
    <3>3. QED
      BY <1>3, <1>5, <3>2, PieceCopied
  <2>2. [th[t] EXCEPT !.pc = "list", !.file = 0, !.at = 0] \in Thread
    <3>1. 0 \in 0..MaxTime
      BY StoreAssumption DEF StoreAssumption
    <3>2. QED
      BY <1>1, <3>1 DEF Thread
  <2>3. th' \in [Threads -> Thread]
    BY <1>1, <1>5, <2>2 DEF CopyTail, TypeOK
  <2>4. QED
    BY <2>1, <2>3
<1>6. ASSUME NEW S \in SUBSET (0..MaxTime), Unlinks(t, S)
      PROVE  th' \in [Threads -> Thread]
  <2>1. [th[t] EXCEPT !.pc = IF S = {} THEN "open" ELSE "unlink", !.old = S] \in Thread
    BY <1>1 DEF Thread
  <2>2. QED
    BY <1>6, <2>1 DEF Unlinks, TypeOK
<1>7. CASE ListOld(t)
  <2>1. {b.at : b \in Old(backups)} \in SUBSET (0..MaxTime)
    BY <1>1 DEF Old, Backups
  <2>2. QED
    BY <1>1, <1>6, <1>7, <2>1 DEF ListOld
<1>8. CASE Unlink(t)
  <2>1. PICK s \in th[t].old : /\ backups' = {b \in backups : b.at # s}
                               /\ Unlinks(t, th[t].old \ {s})
    BY <1>8 DEF Unlink
  <2>2. th[t].old \ {s} \in SUBSET (0..MaxTime)
    BY <1>1 DEF Thread
  <2>3. QED
    BY <1>1, <1>6, <2>1, <2>2
<1>9. QED
  BY <1>2, <1>4, <1>5, <1>7, <1>8 DEF Copying

LEMMA TypeInit == Init => TypeOK
<1> SUFFICES ASSUME Init
             PROVE  TypeOK
  OBVIOUS
<1>1. TextOf({}) \in Text
  <2>1. {} \in Document
    BY DEF Document
  <2>2. {{}} \in Piece(Document)
    <3>1. \E d \in Document : {{}} = {d}
      BY <2>1
    <3>2. QED
      BY <3>1 DEF Piece
  <2>3. QED
    BY <2>2 DEF Text, TextSet, TextOf
<1>2. text \in [Inodes -> Text]
  BY <1>1 DEF Init
<1>3. th \in [Threads -> Thread]
  <2>1. NoWrite \in Thread
    BY StoreAssumption DEF NoWrite, Thread, Document, StoreAssumption
  <2>2. QED
    BY <2>1 DEF Init
<1>4. existed \in BOOLEAN /\ overlapped \in BOOLEAN
  BY DEF Init
<1>5. QED
  BY <1>2, <1>3, <1>4, StoreAssumption
     DEF Init, TypeOK, Document, StoreAssumption

LEMMA TypeStep == TypeOK /\ Numbered /\ [Next]_vars => TypeOK'
<1> SUFFICES ASSUME TypeOK, Numbered, [Next]_vars
             PROVE  TypeOK'
  OBVIOUS
<1> USE DEF TypeOK
<1>1. ASSUME NEW t \in Threads, ReadAndChange(t)
      PROVE  TypeOK'
  <2>1. requests + 1 \in 1..MaxRequests
    BY <1>1, StoreAssumption DEF ReadAndChange, StoreAssumption
  <2>2. Shown \union {requests + 1} \in Document
    BY <2>1, ShownType DEF Document, Updates
  <2>3. (path = 0) \in BOOLEAN
    OBVIOUS
  <2>4. [NoWrite EXCEPT !.pc = "backup", !.req = requests + 1,
                        !.data = Shown \union {requests + 1},
                        !.shared = (path = 0)] \in Thread
    <3>1. NoWrite \in Thread
      BY StoreAssumption DEF NoWrite, Thread, Document, StoreAssumption
    <3>2. requests + 1 \in 0..MaxRequests
      BY <2>1
    <3>3. QED
      BY <2>2, <2>3, <3>1, <3>2 DEF Thread
  <2>5. th' \in [Threads -> Thread]
    BY <1>1, <2>4 DEF ReadAndChange
  <2>6. default' \in Document
    BY <1>1, <2>1 DEF ReadAndChange, Document, Updates
  <2>7. overlapped' \in BOOLEAN
    BY <1>1 DEF ReadAndChange
  <2>8. requests' \in 0..MaxRequests
    BY <1>1, <2>1 DEF ReadAndChange
  <2>9. QED
    BY <1>1, <2>5, <2>6, <2>7, <2>8 DEF ReadAndChange
<1>2. ASSUME NEW t \in Threads, Copying(t)
      PROVE  TypeOK'
  BY <1>2, CopyingEffect, CopyingType DEF Backups
<1>3. ASSUME NEW t \in Threads, OpenTmp(t)
      PROVE  TypeOK'
  <2>1. PICK i \in Inodes :
          /\ tmp' = i
          /\ text' = [text EXCEPT ![i] = Blank]
          /\ th' = [th EXCEPT ![t] = [@ EXCEPT !.pc = "head", !.file = i]]
    BY <1>3 DEF OpenTmp
  <2>2. text' \in [Inodes -> Text]
    BY <2>1 DEF Blank, Text, TextSet, Piece
  <2>3. th' \in [Threads -> Thread]
    <3>1. [th[t] EXCEPT !.pc = "head", !.file = i] \in Thread
      BY DEF Thread
    <3>2. QED
      BY <2>1, <3>1
  <2>4. QED
    BY <1>3, <2>1, <2>2, <2>3 DEF OpenTmp
<1>4. ASSUME NEW t \in Threads, WriteHead(t)
      PROVE  TypeOK'
  <2>1. PICK d \in Document :
          /\ text' = [text EXCEPT ![th[t].file].head = {d}]
          /\ th' = [th EXCEPT ![t] = [@ EXCEPT !.pc = "tail", !.data = d]]
    BY <1>4 DEF WriteHead, Thread
  <2>2. text' \in [Inodes -> Text]
    BY <2>1, PieceWritten
  <2>3. th' \in [Threads -> Thread]
    <3>1. [th[t] EXCEPT !.pc = "tail", !.data = d] \in Thread
      BY DEF Thread
    <3>2. QED
      BY <2>1, <3>1
  <2>4. QED
    BY <1>4, <2>2, <2>3 DEF WriteHead
<1>5. ASSUME NEW t \in Threads, WriteTail(t)
      PROVE  TypeOK'
  <2>1. th[t].data \in Document
    BY DEF Thread
  <2>2. text' \in [Inodes -> Text]
    BY <1>5, <2>1, PieceWritten DEF WriteTail
  <2>3. th' \in [Threads -> Thread]
    <3>1. [th[t] EXCEPT !.pc = "replace", !.file = 0] \in Thread
      BY DEF Thread
    <3>2. QED
      BY <1>5, <3>1 DEF WriteTail
  <2>4. QED
    BY <1>5, <2>2, <2>3 DEF WriteTail
<1>6. NoWrite \in Thread
  BY StoreAssumption DEF NoWrite, Thread, Document, StoreAssumption
<1>7. ASSUME NEW t \in Threads, Replace(t)
      PROVE  TypeOK'
  <2>1. th[t].req \in 1..MaxRequests
    BY <1>7, StoreAssumption DEF Replace, Numbered, Idle, StoreAssumption
  <2>2. QED
    BY <1>6, <1>7, <2>1 DEF Replace, Document, Updates
<1>8. ASSUME NEW t \in Threads, WriteFails(t)
      PROVE  TypeOK'
  BY <1>6, <1>8, StoreAssumption DEF WriteFails, StoreAssumption
<1>9. CASE Crash
  BY <1>6, <1>9, StoreAssumption DEF Crash, Document, StoreAssumption
<1>10. CASE Tick
  BY <1>10, StoreAssumption DEF Tick, StoreAssumption
<1>11. CASE UNCHANGED vars
  BY <1>11 DEF vars
<1>12. QED
  BY <1>1, <1>2, <1>3, <1>4, <1>5, <1>7, <1>8, <1>9, <1>10, <1>11
     DEF Next, Write, Copying

LEMMA NumberedStep == TypeOK /\ Numbered /\ [Next]_vars => Numbered'
<1> SUFFICES ASSUME TypeOK, Numbered, [Next]_vars
             PROVE  Numbered'
  OBVIOUS
<1> USE DEF Numbered, Idle
<1>1. ASSUME NEW t \in Threads, ReadAndChange(t)
      PROVE  Numbered'
  <2>1. requests \in Nat /\ requests' = requests + 1
    BY <1>1, StoreAssumption DEF ReadAndChange, TypeOK, StoreAssumption
  <2>2. th'[t].req \in 1..requests' /\ th'[t].pc = "backup"
    BY <1>1, <2>1 DEF ReadAndChange, TypeOK, NoWrite
  <2>3. \A u \in Threads \ {t} : th'[u] = th[u]
    BY <1>1 DEF ReadAndChange, TypeOK
  <2>4. QED
    BY <2>1, <2>2, <2>3
<1>6. ASSUME NEW t \in Threads, Copying(t)
      PROVE  Numbered'
  <2>1. /\ ~Idle(t) /\ requests' = requests
        /\ \A u \in Threads \ {t} : th'[u] = th[u]
        /\ th'[t] # NoWrite => th'[t].req = th[t].req
    BY <1>6, CopyingEffect
  <2>2. th'[t].pc \in {"copyHead", "copyTail"} => th'[t].file \in Inodes
    <3>1. CASE CopyOpen(t)
      <4>1. path # 0 => th'[t].file = path
        BY <3>1 DEF CopyOpen, TypeOK, Thread
      <4>2. path = 0 => th'[t].pc = "open"
        BY <3>1 DEF CopyOpen, GoesOn, TypeOK, Thread
      <4>3. QED
        BY <4>1, <4>2 DEF TypeOK
    <3>2. CASE CopyHead(t)
      BY <3>2 DEF CopyHead, GoesOn, TypeOK, Thread
    <3>3. CASE CopyTail(t)
      <4>1. th'[t].pc \in {"list", "idle"}
        BY <3>3 DEF CopyTail, TypeOK, Thread, NoWrite
      <4>2. QED
        BY <4>1
    <3>4. CASE ListOld(t) \/ Unlink(t)
      <4>1. th'[t].pc \in {"open", "unlink"}
        BY <3>4 DEF ListOld, Unlink, Unlinks, TypeOK, Thread
      <4>2. QED
        BY <4>1
    <3>5. QED
      BY <1>6, <3>1, <3>2, <3>3, <3>4 DEF Copying
  <2>3. QED
    BY <2>1, <2>2 DEF NoWrite
<1>2. ASSUME NEW t \in Threads, OpenTmp(t) \/ WriteHead(t) \/ WriteTail(t)
      PROVE  Numbered'
  <2>1. ~Idle(t) /\ requests' = requests
    BY <1>2 DEF OpenTmp, WriteHead, WriteTail
  <2>2. th'[t].req = th[t].req /\ th'[t].pc \notin {"copyHead", "copyTail"}
    <3>2. CASE OpenTmp(t)
      <4>1. PICK i \in Inodes :
              th' = [th EXCEPT ![t] = [th[t] EXCEPT !.pc = "head", !.file = i]]
        BY <3>2 DEF OpenTmp, TypeOK
      <4>2. QED
        BY <4>1 DEF TypeOK, Thread
    <3>3. CASE WriteHead(t)
      <4>1. PICK d : th' = [th EXCEPT ![t] = [th[t] EXCEPT !.pc = "tail", !.data = d]]
        BY <3>3 DEF WriteHead, TypeOK
      <4>2. QED
        BY <4>1 DEF TypeOK, Thread
    <3>4. CASE WriteTail(t)
      <4>1. th' = [th EXCEPT ![t] = [th[t] EXCEPT !.pc = "replace", !.file = 0]]
        BY <3>4 DEF WriteTail, TypeOK
      <4>2. QED
        BY <4>1 DEF TypeOK, Thread
    <3>5. QED
      BY <1>2, <3>2, <3>3, <3>4
  <2>3. \A u \in Threads \ {t} : th'[u] = th[u]
    BY <1>2 DEF OpenTmp, WriteHead, WriteTail, TypeOK
  <2>4. QED
    BY <2>1, <2>2, <2>3
<1>3. ASSUME NEW t \in Threads, Replace(t) \/ WriteFails(t)
      PROVE  Numbered'
  BY <1>3 DEF Replace, WriteFails, NoWrite, TypeOK
<1>4. CASE Crash
  BY <1>4 DEF Crash, NoWrite
<1>5. CASE Tick \/ UNCHANGED vars
  BY <1>5 DEF Tick, vars
<1>7. QED
  BY <1>1, <1>2, <1>3, <1>4, <1>5, <1>6 DEF Next, Write, Copying

LEMMA TypeInvariant == Spec => [](TypeOK /\ Numbered)
<1>1. Init => Numbered
  BY DEF Init, Numbered, Idle, NoWrite
<1>2. QED
  BY <1>1, TypeInit, TypeStep, NumberedStep, PTL DEF Spec

\* Every variable keeps its type.
THEOREM TypeCorrect == Spec => []TypeOK
BY TypeInvariant, PTL

-----------------------------------------------------------------------------
(* One writer at a time.                                                   *)

Whole(i) == \E d \in Document : text[i] = TextOf(d)

DiskInv ==
  /\ path # 0 => Whole(path) /\ tmp # path
  /\ path = 0 => acked = {}
  /\ acked \subseteq Shown
  /\ existed => path # 0 /\ Shown \subseteq acked
  /\ acked \subseteq 1..requests

\* How far the writer is with its backup: what it copies is the file, the copy
\* is the latest, and whole when it has been closed.
BackupInv(t) ==
  LET w == th[t] IN
  /\ w.pc \in {"copyHead", "copyTail"} =>
       /\ path # 0 /\ w.file = path
       /\ \E b \in backups :
            /\ b.at = w.at /\ \A c \in backups : c.at <= w.at
            /\ w.pc = "copyTail" => b.text.head = text[path].head
  /\ w.pc = "list" =>
       \E b \in backups : b.text = text[path] /\ \A c \in backups : c.at <= b.at
  /\ w.pc = "unlink" =>
       \E b \in backups : b.text = text[path] /\ b.at \notin w.old
  /\ w.pc \in {"open", "head", "tail", "replace"} /\ path # 0 =>
       \E b \in backups : b.text = text[path]

WriterInv(t) ==
  LET w == th[t] IN
  /\ w.req \in w.data \ acked
  /\ w.shared => path = 0 /\ w.req \in default
  /\ ~w.shared => acked \subseteq w.data
  /\ existed => ~w.shared /\ w.data = Shown \union {w.req}
  /\ w.pc \in {"head", "tail"} => tmp = w.file /\ tmp # 0
  /\ w.pc = "tail" => text[tmp].head = {w.data}
  /\ w.pc = "replace" => tmp # 0 /\ text[tmp] = TextOf(w.data)
  /\ BackupInv(t)

AloneInv ==
  ~overlapped =>
    /\ \A t, u \in Threads : ~Idle(t) /\ ~Idle(u) => t = u
    /\ DiskInv
    /\ \A t \in Threads : ~Idle(t) => WriterInv(t)

\* No copy is from the future.
CopiesPast == \A b \in backups : b.at <= now

\* A whole file shows its document, and shows it as long as its inode is left
\* alone.
LEMMA ShownWhole ==
  ASSUME NEW d, path # 0, text[path] = TextOf(d)
  PROVE  Shown = d
BY DEF Shown, TextOf, Parse

LEMMA ShownKept ==
  ASSUME path' = path, path # 0 => text'[path] = text[path],
         path = 0 => default' = default
  PROVE  Shown' = Shown
BY DEF Shown, Parse

\* Nobody but t moves.
Others(t) == \A u \in Threads \ {t} : th'[u] = th[u]

\* The writer's steps leave its request and its sharing alone.
LEMMA OpenTmpEffect ==
  ASSUME TypeOK, NEW t \in Threads, OpenTmp(t)
  PROVE  \E i \in Inodes :
           /\ IF tmp = 0 THEN Unused(i) ELSE i = tmp
           /\ tmp' = i
           /\ text' = [text EXCEPT ![i] = Blank]
           /\ th[t].pc = "open" /\ th'[t].pc = "head" /\ th'[t].file = i
           /\ th'[t].req = th[t].req /\ th'[t].data = th[t].data
           /\ th'[t].shared = th[t].shared
           /\ Others(t)
<1>1. PICK i \in Inodes :
        /\ IF tmp = 0 THEN Unused(i) ELSE i = tmp
        /\ tmp' = i
        /\ text' = [text EXCEPT ![i] = Blank]
        /\ th' = [th EXCEPT ![t] = [th[t] EXCEPT !.pc = "head", !.file = i]]
  BY DEF OpenTmp, TypeOK
<1>2. th[t] \in Thread
  BY DEF TypeOK
<1>3. th'[t] = [th[t] EXCEPT !.pc = "head", !.file = i]
  BY <1>1 DEF TypeOK
<1>4. QED
  BY <1>1, <1>2, <1>3 DEF OpenTmp, TypeOK, Thread, Others

LEMMA WriteHeadEffect ==
  ASSUME TypeOK, NEW t \in Threads, WriteHead(t)
  PROVE  \E d \in Document :
           /\ d = IF th[t].shared THEN default ELSE th[t].data
           /\ text' = [text EXCEPT ![th[t].file].head = {d}]
           /\ th[t].pc = "head" /\ th'[t].pc = "tail"
           /\ th'[t].file = th[t].file
           /\ th'[t].req = th[t].req /\ th'[t].data = d
           /\ th'[t].shared = th[t].shared
           /\ Others(t)
<1>1. PICK d \in Document :
        /\ d = IF th[t].shared THEN default ELSE th[t].data
        /\ text' = [text EXCEPT ![th[t].file].head = {d}]
        /\ th' = [th EXCEPT ![t] = [th[t] EXCEPT !.pc = "tail", !.data = d]]
  BY DEF WriteHead, TypeOK, Thread
<1>2. th[t] \in Thread
  BY DEF TypeOK
<1>3. th'[t] = [th[t] EXCEPT !.pc = "tail", !.data = d]
  BY <1>1 DEF TypeOK
<1>4. QED
  BY <1>1, <1>2, <1>3 DEF WriteHead, TypeOK, Thread, Others

LEMMA WriteTailEffect ==
  ASSUME TypeOK, NEW t \in Threads, WriteTail(t)
  PROVE  /\ th[t].pc = "tail" /\ th'[t].pc = "replace"
         /\ text' = [text EXCEPT ![th[t].file].tail = {th[t].data}]
         /\ th'[t].req = th[t].req /\ th'[t].data = th[t].data
         /\ th'[t].shared = th[t].shared
         /\ Others(t)
<1>1. th' = [th EXCEPT ![t] = [th[t] EXCEPT !.pc = "replace", !.file = 0]]
  BY DEF WriteTail, TypeOK
<1>2. th[t] \in Thread
  BY DEF TypeOK
<1>3. th'[t] = [th[t] EXCEPT !.pc = "replace", !.file = 0]
  BY <1>1 DEF TypeOK
<1>4. QED
  BY <1>1, <1>2, <1>3 DEF WriteTail, TypeOK, Thread, Others

LEMMA CopiesStep == TypeOK /\ CopiesPast /\ [Next]_vars => CopiesPast'
<1> SUFFICES ASSUME TypeOK, CopiesPast, [Next]_vars
             PROVE  CopiesPast'
  OBVIOUS
<1>1. now \in Nat /\ \A b \in backups : b.at \in Nat
  BY StoreAssumption DEF TypeOK, StoreAssumption
<1>2. ASSUME NEW t \in Threads, Copying(t)
      PROVE  CopiesPast'
  <2>1. now' = now
    BY <1>2, CopyingEffect
  <2>2. \A b \in backups' : b.at = now \/ \E c \in backups : c.at = b.at
    <3>1. CASE CopyOpen(t)
      BY <3>1 DEF CopyOpen, Created
    <3>2. CASE CopyHead(t) \/ CopyTail(t)
      BY <3>2 DEF CopyHead, CopyTail, TypeOK
    <3>3. CASE ListOld(t) \/ Unlink(t)
      BY <3>3 DEF ListOld, Unlink
    <3>4. QED
      BY <1>2, <3>1, <3>2, <3>3 DEF Copying
  <2>3. QED
    BY <1>1, <2>1, <2>2 DEF CopiesPast
<1>3. CASE Tick
  BY <1>1, <1>3 DEF Tick, CopiesPast
<1>4. CASE UNCHANGED <<backups, now>>
  BY <1>4 DEF CopiesPast
<1>5. QED
  BY <1>2, <1>3, <1>4
     DEF Next, Write, Copying, ReadAndChange, OpenTmp, WriteHead, WriteTail,
         Replace, WriteFails, Crash, vars

\* A writer on its own copies the file whole, and does not unlink the copy.
LEMMA CopyStep ==
  ASSUME TypeOK, Numbered, CopiesPast, NEW t \in Threads, Copying(t), BackupInv(t)
  PROVE  BackupInv(t)' /\ th'[t] # NoWrite
<1> DEFINE w == th[t]
<1>1. w \in Thread /\ backups \subseteq Backups /\ UNCHANGED <<path, text>>
  BY CopyingEffect DEF TypeOK, Backups
<1>2. now \in Nat /\ \A b \in backups : b.at \in Nat /\ b.at <= now
  BY StoreAssumption DEF CopiesPast, TypeOK, StoreAssumption
<1>3. CASE CopyOpen(t)
  <2>1. CASE path = 0
    <3>1. th'[t].pc = "open"
      BY <1>3, <2>1 DEF CopyOpen, GoesOn, TypeOK, Thread
    <3>2. QED
      BY <1>1, <2>1, <3>1 DEF BackupInv, NoWrite
  <2>2. CASE path # 0
    <3>1. /\ th'[t].pc = "copyHead" /\ th'[t].file = path /\ th'[t].at = now
          /\ backups' = Created(backups, now)
      <4>1. th' = [th EXCEPT ![t] = [th[t] EXCEPT !.pc = "copyHead", !.file = path,
                                                  !.at = now]]
        BY <1>3, <2>2 DEF CopyOpen, TypeOK
      <4>2. QED
        BY <1>1, <1>3, <2>2, <4>1 DEF CopyOpen, TypeOK, Thread
    <3>2. /\ [at |-> now, text |-> Blank] \in backups'
          /\ \A c \in backups' : c.at <= now
      BY <1>2, <3>1 DEF Created
    <3>3. QED
      BY <1>1, <2>2, <3>1, <3>2 DEF BackupInv, NoWrite
  <2>3. QED
    BY <2>1, <2>2
<1>4. CASE CopyHead(t)
  <2>1. /\ w.pc = "copyHead" /\ th'[t].pc = "copyTail" /\ th'[t].file = w.file
        /\ th'[t].at = w.at
    BY <1>1, <1>4 DEF CopyHead, GoesOn, TypeOK, Thread
  <2>2. PICK b \in backups : b.at = w.at /\ \A c \in backups : c.at <= w.at
    BY <2>1 DEF BackupInv
  <2>3. path # 0 /\ w.file = path
    BY <2>1 DEF BackupInv
  <2>4. \A c \in backups' : c.at <= w.at
    BY <1>1, <1>4, <2>2 DEF CopyHead, Backups
  <2>5. [b EXCEPT !.text.head = text[path].head] \in backups'
    BY <1>4, <2>2, <2>3 DEF CopyHead
  <2>6. /\ [b EXCEPT !.text.head = text[path].head].at = w.at
        /\ [b EXCEPT !.text.head = text[path].head].text.head = text[path].head
    BY <1>1, <2>2 DEF Backups, Text, TextSet
  <2>7. PICK c \in backups' : c.at = w.at /\ c.text.head = text[path].head
    BY <2>5, <2>6
  <2>8. QED
    BY <1>1, <2>1, <2>3, <2>4, <2>7 DEF BackupInv, NoWrite
<1>5. CASE CopyTail(t)
  <2>1. w.pc = "copyTail"
    BY <1>5 DEF CopyTail
  <2>2. PICK b \in backups : /\ b.at = w.at /\ \A c \in backups : c.at <= w.at
                             /\ b.text.head = text[path].head
    BY <2>1 DEF BackupInv
  <2>3. path # 0 /\ w.file = path
    BY <2>1 DEF BackupInv
  <2>4. th'[t].pc = "list"
    BY <1>1, <1>5, <2>2 DEF CopyTail, TypeOK, Thread
  <2>5. \A c \in backups' : c.at <= w.at
    BY <1>1, <1>5, <2>2 DEF CopyTail, Backups
  <2>6. [b EXCEPT !.text.tail = text[path].tail] \in backups'
    BY <1>5, <2>2, <2>3 DEF CopyTail
  <2>7. [b EXCEPT !.text.tail = text[path].tail].at = w.at
    BY <1>1, <2>2 DEF Backups
  <2>8. [b EXCEPT !.text.tail = text[path].tail].text = text[path]
    <3>1. b.text \in Text /\ text[path] \in Text
      BY <1>1, <2>3 DEF Backups, TypeOK
    <3>2. [b EXCEPT !.text.tail = text[path].tail].text
            = [b.text EXCEPT !.tail = text[path].tail]
      BY <1>1 DEF Backups
    <3>3. QED
      BY <2>2, <3>1, <3>2 DEF Text, TextSet
  <2>9. PICK c \in backups' : c.at = w.at /\ c.text = text[path]
    BY <2>6, <2>7, <2>8
  <2>10. QED
    BY <1>1, <2>4, <2>5, <2>9 DEF BackupInv, NoWrite
<1>6. ASSUME NEW S, Unlinks(t, S), NEW b \in backups', b.text = text[path], b.at \notin S
      PROVE  BackupInv(t)' /\ th'[t] # NoWrite
  <2>1. th'[t].old = S /\ th'[t].pc = IF S = {} THEN "open" ELSE "unlink"
    BY <1>1, <1>6 DEF Unlinks, TypeOK, Thread
  <2>2. QED
    BY <1>1, <1>6, <2>1 DEF BackupInv, NoWrite
<1>7. CASE ListOld(t)
  <2>1. PICK b \in backups : b.text = text[path] /\ \A c \in backups : c.at <= b.at
    BY <1>7 DEF ListOld, BackupInv
  <2>2. b.at \notin {c.at : c \in Old(backups)}
    BY <1>1, <2>1, LatestNotOld
  <2>3. QED
    BY <1>6, <1>7, <2>1, <2>2 DEF ListOld
<1>8. CASE Unlink(t)
  <2>1. PICK s \in w.old : /\ backups' = {b \in backups : b.at # s}
                           /\ Unlinks(t, w.old \ {s})
    BY <1>8 DEF Unlink
  <2>2. PICK b \in backups : b.text = text[path] /\ b.at \notin w.old
    BY <1>8 DEF Unlink, BackupInv
  <2>3. QED
    BY <1>6, <2>1, <2>2
<1>9. QED
  BY <1>3, <1>4, <1>5, <1>7, <1>8 DEF Copying

LEMMA AloneStep ==
  TypeOK /\ Numbered /\ AloneInv /\ CopiesPast /\ [Next]_vars => AloneInv'
<1> SUFFICES ASSUME TypeOK, Numbered, AloneInv, CopiesPast, [Next]_vars,
                    ~overlapped'
             PROVE  AloneInv'
  BY DEF AloneInv
<1>1. ~overlapped
  BY DEF Next, Write, ReadAndChange, CopyOpen, CopyHead, CopyTail, ListOld, Unlink,
         OpenTmp, WriteHead, WriteTail, Replace, WriteFails, Crash, Tick, vars
<1>2. DiskInv
  BY <1>1 DEF AloneInv
<1>3. ASSUME NEW t \in Threads, ~Idle(t)
      PROVE  WriterInv(t) /\ \A u \in Threads \ {t} : Idle(u)
  BY <1>1, <1>3 DEF AloneInv
<1>4. requests \in Nat
  BY StoreAssumption DEF TypeOK, StoreAssumption
<1>5. ASSUME NEW t \in Threads, ReadAndChange(t)
      PROVE  AloneInv'
  <2>1. \A u \in Threads : Idle(u)
    BY <1>5 DEF ReadAndChange
  <2>2. /\ UNCHANGED <<path, tmp, text, backups, acked, existed>>
        /\ requests' = requests + 1
        /\ default' = IF path = 0 THEN default \union {requests'} ELSE default
    BY <1>5 DEF ReadAndChange
  <2>3. DiskInv'
    <3>1. path # 0 => Shown' = Shown
      BY <2>2, ShownKept
    <3>2. path' # 0 => Whole(path)' /\ tmp' # path'
      BY <1>2, <2>2 DEF DiskInv, Whole
    <3>3. acked' \subseteq Shown'
      BY <1>2, <2>2, <3>1 DEF DiskInv
    <3>4. existed' => path' # 0 /\ Shown' \subseteq acked'
      BY <1>2, <2>2, <3>1 DEF DiskInv
    <3>5. acked' \subseteq 1..requests'
      <4>1. acked \subseteq 1..requests
        BY <1>2 DEF DiskInv
      <4>2. \A n \in 1..requests : n \in 1..(requests + 1)
        BY <1>4
      <4>3. QED
        BY <2>2, <4>1, <4>2
    <3>6. QED
      BY <1>2, <2>2, <3>2, <3>3, <3>4, <3>5 DEF DiskInv
  <2>4. /\ th'[t].pc = "backup" /\ th'[t].req = requests'
        /\ th'[t].data = Shown \union {requests'}
    <3>1. PICK b \in BOOLEAN :
            th' = [th EXCEPT ![t] =
                     [NoWrite EXCEPT !.pc = "backup", !.req = requests',
                                     !.data = Shown \union {requests'},
                                     !.shared = b]]
      BY <1>5 DEF ReadAndChange
    <3>2. QED
      BY <3>1 DEF TypeOK, NoWrite
  <2>5. th'[t].shared <=> path = 0
    BY <1>5 DEF ReadAndChange, TypeOK, NoWrite
  <2>6. requests' \notin acked
    BY <1>2, <1>4, <2>2 DEF DiskInv
  <2>7. existed => Shown' = Shown
    BY <1>2, <2>2, ShownKept DEF DiskInv
  <2>8. WriterInv(t)'
    <3>1. th'[t].req \in th'[t].data \ acked'
      BY <2>2, <2>4, <2>6
    <3>2. th'[t].shared => path' = 0 /\ th'[t].req \in default'
      BY <2>2, <2>4, <2>5
    <3>3. ~th'[t].shared => acked' \subseteq th'[t].data
      BY <1>2, <2>2, <2>4 DEF DiskInv
    <3>4. existed' => ~th'[t].shared /\ th'[t].data = Shown' \union {th'[t].req}
      BY <1>2, <2>2, <2>4, <2>5, <2>7 DEF DiskInv
    <3>5. QED
      BY <2>4, <3>1, <3>2, <3>3, <3>4 DEF WriterInv, BackupInv
  <2>9. \A u \in Threads \ {t} : th'[u] = th[u]
    BY <1>5 DEF ReadAndChange, TypeOK
  <2>10. \A u \in Threads : ~Idle(u)' => u = t
    BY <2>1, <2>9 DEF Idle
  <2>11. QED
    BY <2>3, <2>8, <2>10 DEF AloneInv
<1>6. ASSUME NEW t \in Threads, Copying(t)
      PROVE  AloneInv'
  <2>1. ~Idle(t) /\ WriterInv(t) /\ \A u \in Threads \ {t} : Idle(u)
    BY <1>3, <1>6, CopyingEffect
  <2>2. UNCHANGED <<path, tmp, text, default, acked, existed, requests>>
    BY <1>6, CopyingEffect
  <2>3. Shown' = Shown
    BY <2>2, ShownKept
  <2>4. DiskInv'
    BY <1>2, <2>2, <2>3 DEF DiskInv, Whole
  <2>5. BackupInv(t)' /\ th'[t] # NoWrite
    BY <1>6, <2>1, CopyStep DEF WriterInv
  <2>6. /\ th'[t].req = th[t].req /\ th'[t].data = th[t].data
        /\ th'[t].shared = th[t].shared
        /\ th'[t].pc \notin {"head", "tail", "replace"}
        /\ Others(t)
    BY <1>6, <2>5, CopyingEffect DEF Others
  <2>7. WriterInv(t)'
    BY <2>1, <2>2, <2>3, <2>5, <2>6 DEF WriterInv
  <2>8. QED
    BY <2>1, <2>4, <2>6, <2>7 DEF AloneInv, Others, Idle
<1>7. ASSUME NEW t \in Threads, OpenTmp(t)
      PROVE  AloneInv'
  <2>1. ~Idle(t) /\ WriterInv(t) /\ \A u \in Threads \ {t} : Idle(u)
    BY <1>3, <1>7 DEF OpenTmp, Idle
  <2>2. UNCHANGED <<path, backups, default, acked, existed, requests>>
    BY <1>7 DEF OpenTmp
  <2>3. PICK i \in Inodes :
          /\ IF tmp = 0 THEN Unused(i) ELSE i = tmp
          /\ tmp' = i
          /\ text' = [text EXCEPT ![i] = Blank]
          /\ th[t].pc = "open" /\ th'[t].pc = "head" /\ th'[t].file = i
          /\ th'[t].req = th[t].req /\ th'[t].data = th[t].data
          /\ th'[t].shared = th[t].shared
          /\ Others(t)
    BY <1>7, OpenTmpEffect
  <2>4. i # 0
    BY StoreAssumption DEF StoreAssumption
  <2>5. path # 0 => i # path
    BY <1>2, <2>3 DEF DiskInv, Unused
  <2>6. path # 0 => text'[path] = text[path]
    BY <2>3, <2>5 DEF TypeOK
  <2>7. Shown' = Shown
    BY <2>2, <2>6, ShownKept
  <2>8. DiskInv'
    BY <1>2, <2>2, <2>3, <2>5, <2>6, <2>7 DEF DiskInv, Whole
  <2>9. WriterInv(t)'
    BY <2>1, <2>2, <2>3, <2>4, <2>6, <2>7 DEF WriterInv, BackupInv
  <2>10. QED
    BY <2>1, <2>3, <2>8, <2>9 DEF AloneInv, Others, Idle
<1>8. ASSUME NEW t \in Threads, WriteHead(t)
      PROVE  AloneInv'
  <2>1. ~Idle(t) /\ WriterInv(t) /\ \A u \in Threads \ {t} : Idle(u)
    BY <1>3, <1>8 DEF WriteHead, Idle
  <2>2. UNCHANGED <<path, tmp, backups, default, acked, existed, requests>>
    BY <1>8 DEF WriteHead
  <2>3. PICK d \in Document :
          /\ d = IF th[t].shared THEN default ELSE th[t].data
          /\ text' = [text EXCEPT ![th[t].file].head = {d}]
          /\ th[t].pc = "head" /\ th'[t].pc = "tail"
          /\ th'[t].file = th[t].file
          /\ th'[t].req = th[t].req /\ th'[t].data = d
          /\ th'[t].shared = th[t].shared
          /\ Others(t)
    BY <1>8, WriteHeadEffect
  <2>4. tmp = th[t].file /\ tmp # 0 /\ tmp \in Inodes
    BY <2>1, <2>3 DEF WriterInv, TypeOK
  <2>5. path # 0 => text'[path] = text[path]
    BY <1>2, <2>3, <2>4 DEF DiskInv, TypeOK
  <2>6. Shown' = Shown
    BY <2>2, <2>5, ShownKept
  <2>7. DiskInv'
    BY <1>2, <2>2, <2>5, <2>6 DEF DiskInv, Whole
  <2>8. text'[tmp].head = {d}
    BY <2>3, <2>4 DEF TypeOK, Text, TextSet
  <2>9. /\ th[t].shared => d = default
        /\ ~th[t].shared => d = th[t].data
    BY <2>3
  <2>10. WriterInv(t)'
    <3>1. th'[t].req \in th'[t].data \ acked'
      BY <2>1, <2>2, <2>3, <2>9 DEF WriterInv
    <3>2. th'[t].shared => path' = 0 /\ th'[t].req \in default'
      BY <2>1, <2>2, <2>3 DEF WriterInv
    <3>3. ~th'[t].shared => acked' \subseteq th'[t].data
      BY <2>1, <2>2, <2>3, <2>9 DEF WriterInv
    <3>4. existed' => ~th'[t].shared /\ th'[t].data = Shown' \union {th'[t].req}
      BY <2>1, <2>2, <2>3, <2>6, <2>9 DEF WriterInv
    <3>5. BackupInv(t)'
      BY <2>1, <2>2, <2>3, <2>5 DEF WriterInv, BackupInv
    <3>6. QED
      BY <2>2, <2>3, <2>4, <2>8, <3>1, <3>2, <3>3, <3>4, <3>5 DEF WriterInv
  <2>11. QED
    BY <2>1, <2>3, <2>7, <2>10 DEF AloneInv, Others, Idle
<1>9. ASSUME NEW t \in Threads, WriteTail(t)
      PROVE  AloneInv'
  <2>1. ~Idle(t) /\ WriterInv(t) /\ \A u \in Threads \ {t} : Idle(u)
    BY <1>3, <1>9 DEF WriteTail, Idle
  <2>2. UNCHANGED <<path, tmp, backups, default, acked, existed, requests>>
    BY <1>9 DEF WriteTail
  <2>3. /\ th[t].pc = "tail" /\ th'[t].pc = "replace"
        /\ text' = [text EXCEPT ![th[t].file].tail = {th[t].data}]
        /\ th'[t].req = th[t].req /\ th'[t].data = th[t].data
        /\ th'[t].shared = th[t].shared
        /\ Others(t)
    BY <1>9, WriteTailEffect
  <2>4. /\ tmp = th[t].file /\ tmp # 0 /\ tmp \in Inodes
        /\ text[tmp].head = {th[t].data}
    BY <2>1, <2>3 DEF WriterInv, TypeOK
  <2>5. path # 0 => text'[path] = text[path]
    BY <1>2, <2>3, <2>4 DEF DiskInv, TypeOK
  <2>6. Shown' = Shown
    BY <2>2, <2>5, ShownKept
  <2>7. DiskInv'
    BY <1>2, <2>2, <2>5, <2>6 DEF DiskInv, Whole
  <2>8. text'[tmp] = TextOf(th[t].data)
    <3>1. text[tmp] \in Text
      BY <2>4 DEF TypeOK
    <3>2. text'[tmp] = [text[tmp] EXCEPT !.tail = {th[t].data}]
      BY <2>3, <2>4 DEF TypeOK
    <3>3. QED
      BY <2>4, <3>1, <3>2 DEF Text, TextSet, TextOf
  <2>9. WriterInv(t)'
    BY <2>1, <2>2, <2>3, <2>4, <2>5, <2>6, <2>8 DEF WriterInv, BackupInv
  <2>10. QED
    BY <2>1, <2>3, <2>7, <2>9 DEF AloneInv, Others, Idle
<1>10. ASSUME NEW t \in Threads, Replace(t)
       PROVE  AloneInv'
  <2>1. ~Idle(t) /\ WriterInv(t) /\ \A u \in Threads \ {t} : Idle(u)
    BY <1>3, <1>10 DEF Replace, Idle
  <2>2. /\ tmp # 0 /\ text[tmp] = TextOf(th[t].data)
        /\ path' = tmp /\ tmp' = 0 /\ acked' = acked \union {th[t].req}
        /\ UNCHANGED <<text, existed, requests, default>>
    BY <1>10, <2>1 DEF Replace, WriterInv
  <2>3. th[t].data \in Document
    BY DEF TypeOK, Thread
  <2>4. Shown' = th[t].data
    BY <2>2 DEF Shown, TextOf, Parse
  <2>5. acked \subseteq th[t].data
    BY <1>2, <2>1 DEF DiskInv, WriterInv
  <2>6. th[t].req \in 1..requests
    BY <2>1 DEF Numbered
  <2>7. DiskInv'
    <3>1. path' # 0 => Whole(path)' /\ tmp' # path'
      BY <2>2, <2>3 DEF Whole
    <3>2. acked' \subseteq Shown'
      BY <2>1, <2>2, <2>4, <2>5 DEF WriterInv
    <3>3. existed' => path' # 0 /\ Shown' \subseteq acked'
      BY <1>2, <2>1, <2>2, <2>4 DEF DiskInv, WriterInv
    <3>4. acked' \subseteq 1..requests'
      BY <1>2, <2>2, <2>6 DEF DiskInv
    <3>5. QED
      BY <2>2, <3>1, <3>2, <3>3, <3>4 DEF DiskInv
  <2>8. \A u \in Threads : Idle(u)'
    BY <1>10, <2>1 DEF Replace, Idle, NoWrite, TypeOK
  <2>9. QED
    BY <2>7, <2>8 DEF AloneInv
<1>11. ASSUME NEW t \in Threads, WriteFails(t)
       PROVE  AloneInv'
  <2>1. UNCHANGED <<path, tmp, text, default, acked, existed, requests>>
    BY <1>11 DEF WriteFails
  <2>2. DiskInv'
    BY <1>2, <2>1, ShownKept DEF DiskInv, Whole
  <2>3. \A u \in Threads : Idle(u)'
    BY <1>3, <1>11 DEF WriteFails, Idle, NoWrite, TypeOK
  <2>4. QED
    BY <2>2, <2>3 DEF AloneInv
<1>12. CASE Crash
  <2>1. UNCHANGED <<path, tmp, text, acked, existed, requests>>
    BY <1>12 DEF Crash
  <2>2. path # 0 => Shown' = Shown
    BY <2>1, ShownKept
  <2>3. DiskInv'
    BY <1>2, <2>1, <2>2 DEF DiskInv, Whole
  <2>4. \A u \in Threads : Idle(u)'
    BY <1>12 DEF Crash, Idle, NoWrite
  <2>5. QED
    BY <2>3, <2>4 DEF AloneInv
<1>13. CASE Tick \/ UNCHANGED vars
  <2>1. UNCHANGED <<path, tmp, text, backups, default, th, requests, acked,
                    existed>>
    BY <1>13 DEF Tick, vars
  <2>2. Shown' = Shown
    BY <2>1, ShownKept
  <2>3. DiskInv'
    BY <1>2, <2>1, <2>2 DEF DiskInv, Whole
  <2>4. \A u \in Threads : Idle(u)' <=> Idle(u)
    BY <2>1 DEF Idle
  <2>5. \A u \in Threads : WriterInv(u) => WriterInv(u)'
    BY <2>1, <2>2 DEF WriterInv, BackupInv
  <2>6. QED
    BY <1>1, <2>3, <2>4, <2>5 DEF AloneInv
<1>14. QED
  BY <1>5, <1>6, <1>7, <1>8, <1>9, <1>10, <1>11, <1>12, <1>13
     DEF Next, Write, Copying

LEMMA AloneInvariant ==
  Spec => [](TypeOK /\ Numbered /\ CopiesPast /\ AloneInv)
<1>1. Init => CopiesPast /\ AloneInv
  <2> SUFFICES ASSUME Init
               PROVE  CopiesPast /\ AloneInv
    OBVIOUS
  <2>1. \A t \in Threads : Idle(t)
    BY DEF Init, NoWrite, Idle
  <2>2. path # 0 => text[path] = TextOf({})
    BY DEF Init
  <2>3. Shown = {}
    <3>1. CASE path = 0
      BY <3>1 DEF Init, Shown
    <3>2. CASE path # 0
      BY <2>2, <3>2, ShownWhole
    <3>3. QED
      BY <3>1, <3>2
  <2>4. {} \in Document
    BY DEF Document
  <2>5. DiskInv
    BY <2>2, <2>3, <2>4 DEF Init, DiskInv, Whole
  <2>6. QED
    BY <2>1, <2>5 DEF Init, CopiesPast, AloneInv
<1>2. QED
  BY <1>1, TypeInvariant, CopiesStep, AloneStep, PTL DEF Spec

\* As long as writes do not overlap, readers get one whole document at every
\* moment, wherever writes fail or the process dies (write_json's "atomic
\* replace").
THEOREM WholeAlone == Spec => []WholeWhileAlone
<1>1. AloneInv => WholeWhileAlone
  <2> SUFFICES ASSUME AloneInv, ~overlapped, path # 0
               PROVE  Parse(text[path]) # {}
    BY DEF WholeWhileAlone, Readable
  <2>1. PICK d \in Document : text[path] = TextOf(d)
    BY DEF AloneInv, DiskInv, Whole
  <2>2. d \in Parse(text[path])
    BY <2>1 DEF Parse, TextOf
  <2>3. QED
    BY <2>2
<1>2. QED
  BY <1>1, AloneInvariant, PTL

\* As long as writes do not overlap, no request that was answered with success
\* is lost from the file.
THEOREM AckedKeptAlone == Spec => []AckedKeptWhileAlone
<1>1. AloneInv => AckedKeptWhileAlone
  BY DEF AloneInv, DiskInv, AckedKeptWhileAlone
<1>2. QED
  BY <1>1, AloneInvariant, PTL

\* As long as writes do not overlap, a request that failed leaves no trace in a
\* file that was there.
THEOREM FailuresLeaveNoTrace == Spec => []NoTraceOfFailures
<1>1. AloneInv => NoTraceOfFailures
  BY DEF AloneInv, DiskInv, NoTraceOfFailures
<1>2. QED
  BY <1>1, AloneInvariant, PTL

-----------------------------------------------------------------------------
(* Refinement.                                                             *)

LEMMA FileStep ==
  /\ TypeOK /\ Numbered /\ CopiesPast /\ AloneInv
  /\ [Next]_vars
  => (~overlapped' /\ existed => [File!Next]_(File!vars))
<1> SUFFICES ASSUME TypeOK, Numbered, CopiesPast, AloneInv, [Next]_vars,
                    ~overlapped', existed
             PROVE  File!Next \/ UNCHANGED File!vars
  OBVIOUS
<1> DEFINE kept == UNION {Parse(b.text) : b \in backups}
<1>1. ~overlapped
  BY DEF Next, Write, ReadAndChange, CopyOpen, CopyHead, CopyTail, ListOld, Unlink,
         OpenTmp, WriteHead, WriteTail, Replace, WriteFails, Crash, Tick, vars
<1>2. DiskInv /\ path # 0 /\ \A t \in Threads : ~Idle(t) => WriterInv(t)
  BY <1>1 DEF AloneInv, DiskInv
<1>3. PICK d \in Document : text[path] = TextOf(d) /\ Shown = d
  BY <1>2, ShownWhole DEF DiskInv, Whole
<1>4. Parse(text[path]) = {Shown}
  BY <1>3 DEF Parse, TextOf
<1>5. ASSUME path' = path, text'[path] = text[path], UNCHANGED <<acked, backups>>
      PROVE  UNCHANGED File!vars
  BY <1>2, <1>5, ShownKept DEF File!vars
<1>6. ASSUME NEW t \in Threads, Copying(t)
      PROVE  File!Backup
  <2>1. UNCHANGED <<path, text, acked, default>>
    BY <1>6, CopyingEffect
  <2>2. UNCHANGED <<Shown, acked>>
    BY <2>1, ShownKept
  <2>3. BackupInv(t)
    BY <1>2, <1>6, CopyingEffect DEF WriterInv
  <2>4. \A b \in backups : b.text \in Text
    BY DEF TypeOK
  <2>5. text[path].head = {Shown} /\ text[path].tail = {Shown}
    BY <1>3 DEF TextOf
  <2>6. \A b \in backups' : b \in backups \/ Parse(b.text) \subseteq {Shown}
    <3>1. CASE CopyOpen(t)
      BY <3>1 DEF CopyOpen, Created, Blank, Parse
    <3>2. CASE CopyHead(t)
      <4>1. th[t].file = path
        BY <2>3, <3>2 DEF CopyHead, BackupInv
      <4>2. \A b \in backups :
              [b EXCEPT !.text.head = text[path].head].text.head = {Shown}
        BY <2>4, <2>5 DEF TypeOK, Text, TextSet
      <4>3. QED
        BY <3>2, <4>1, <4>2 DEF CopyHead, Parse
    <3>3. CASE CopyTail(t)
      <4>1. th[t].file = path
        BY <2>3, <3>3 DEF CopyTail, BackupInv
      <4>2. \A b \in backups :
              [b EXCEPT !.text.tail = text[path].tail].text.tail = {Shown}
        BY <2>4, <2>5 DEF TypeOK, Text, TextSet
      <4>3. QED
        BY <3>3, <4>1, <4>2 DEF CopyTail, Parse
    <3>4. CASE ListOld(t) \/ Unlink(t)
      BY <3>4 DEF ListOld, Unlink
    <3>5. QED
      BY <1>6, <3>1, <3>2, <3>3, <3>4 DEF Copying
  <2>7. kept' \subseteq kept \union {Shown}
    BY <2>6
  <2>8. QED
    BY <2>2, <2>7 DEF File!Backup
<1>7. ASSUME NEW t \in Threads, OpenTmp(t)
      PROVE  UNCHANGED File!vars
  <2>1. PICK i \in Inodes : (IF tmp = 0 THEN Unused(i) ELSE i = tmp)
                             /\ text' = [text EXCEPT ![i] = Blank]
    BY <1>7 DEF OpenTmp
  <2>2. text'[path] = text[path]
    BY <1>2, <2>1 DEF DiskInv, Unused, TypeOK
  <2>3. QED
    BY <1>5, <1>7, <2>2 DEF OpenTmp
<1>8. ASSUME NEW t \in Threads, WriteHead(t) \/ WriteTail(t)
      PROVE  UNCHANGED File!vars
  <2>1. th[t].file = tmp
    BY <1>2, <1>8 DEF WriteHead, WriteTail, WriterInv, Idle
  <2>2. text'[path] = text[path]
    BY <1>2, <1>8, <2>1 DEF WriteHead, WriteTail, DiskInv, TypeOK
  <2>3. UNCHANGED <<path, acked, backups>>
    BY <1>8 DEF WriteHead, WriteTail
  <2>4. QED
    BY <1>5, <2>2, <2>3
<1>9. ASSUME NEW t \in Threads, Replace(t)
      PROVE  File!Next
  <2>1. ~Idle(t) /\ WriterInv(t) /\ th[t].pc = "replace"
    BY <1>2, <1>9 DEF Replace, Idle
  <2>2. /\ tmp # 0 /\ text[tmp] = TextOf(th[t].data)
        /\ path' = tmp /\ acked' = acked \union {th[t].req}
        /\ UNCHANGED <<text, backups>>
    BY <1>9, <2>1 DEF Replace, WriterInv
  <2>3. Shown' = Shown \union {th[t].req}
    BY <2>1, <2>2 DEF Shown, TextOf, Parse, WriterInv
  <2>4. th[t].req \in Updates
    BY <2>1, StoreAssumption DEF Numbered, TypeOK, Updates, StoreAssumption
  <2>5. th[t].req \notin Shown
    BY <1>2, <2>1 DEF DiskInv, WriterInv
  <2>6. Shown \in kept
    BY <1>2, <1>4, <2>1 DEF WriterInv, BackupInv
  <2>7. kept' = kept
    BY <2>2
  <2>8. File!Save(th[t].req)
    BY <2>2, <2>3, <2>5, <2>6, <2>7 DEF File!Save
  <2>9. QED
    BY <2>4, <2>8 DEF File!Next
<1>10. CASE \/ \E t \in Threads : ReadAndChange(t) \/ WriteFails(t)
            \/ Crash \/ Tick \/ UNCHANGED vars
  BY <1>5, <1>10 DEF ReadAndChange, WriteFails, Crash, Tick, vars
<1>11. QED
  BY <1>6, <1>7, <1>8, <1>9, <1>10 DEF Next, Write, Copying, File!Next

\* As long as writes do not overlap on a file that was there, write_json
\* implements AtomicFile: a save replaces one whole document by the next, and
\* the replaced one is in a backup.
THEOREM StoreImplementsAtomicFile == Spec => ImplementsAtomicFile
<1>1. Init => File!Init
  <2> SUFFICES ASSUME Init
               PROVE  File!Init
    OBVIOUS
  <2>1. Shown = {}
    <3>1. CASE path = 0
      BY <3>1 DEF Init, Shown
    <3>2. CASE path # 0
      <4>1. text[path] = TextOf({})
        BY <3>2 DEF Init
      <4>2. QED
        BY <3>2, <4>1, ShownWhole
    <3>3. QED
      BY <3>1, <3>2
  <2>2. QED
    BY <2>1 DEF Init, File!Init
<1>2. QED
  BY <1>1, AloneInvariant, FileStep, PTL DEF Spec, ImplementsAtomicFile

=============================================================================
