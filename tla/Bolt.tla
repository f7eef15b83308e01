-------------------------------- MODULE Bolt --------------------------------
(***************************************************************************)
(* The transactions, the freelist and the file of bolt:                    *)
(* src/bolt-master/db.go, tx.go, freelist.go and node.go's spill.          *)
(*                                                                         *)
(* The file is a set of pages.  Pages 0 and 1 hold the two metas; the      *)
(* higher valid one names the root page, the freelist page and the high    *)
(* water mark.  A write transaction never changes a page that is in use:   *)
(* Commit frees the pages it replaces, allocates new ones, writes them,    *)
(* syncs, and only then writes and syncs the older meta page.  A freed     *)
(* page waits in freelist.pending until no read transaction can need it.   *)
(* Read transactions look at the mapped file without any lock.             *)
(*                                                                         *)
(* The tree is represented by two levels: a root page with one leaf per    *)
(* key; the value of a leaf is the stamp of the transaction that wrote it. *)
(* `file' is what the mapping shows, `disk' what a crash cannot take away. *)
(* The single writer stands for all callers of Update: rwlock lets one of  *)
(* them in at a time.                                                      *)
(***************************************************************************)
EXTENDS Integers, FiniteSets, FiniteSetsExt

CONSTANTS
  Keys,        \* keys; a leaf page holds one of them
  Readers,     \* goroutines that run read transactions
  MaxTx,       \* write transactions begun (bound)
  MaxCrashes,  \* crashes (bound)
  MapSizes,    \* the sizes, in pages, mmapSize can return
  Faults       \* subset of {"write", "metatorn", "metasync"}: calls that may fail

ASSUME BoltAssumption ==
  /\ Keys \subseteq Nat /\ IsFiniteSet(Keys)
  /\ MaxTx \in Nat /\ MaxCrashes \in Nat /\ MapSizes \subseteq Nat
  /\ Faults \subseteq {"write", "metatorn", "metasync"}

VARIABLES
  file,        \* [pages -> content]: the data pages, as the mapping shows them
  disk,        \* the data pages as last synced
  meta,        \* [0..1 -> meta]: the two meta pages, as the mapping shows them
  dmeta,       \* the meta pages as last synced
  ids,         \* freelist.ids
  pending,     \* [txid -> SUBSET pages]: freelist.pending
  mapped,      \* db.datasz, in pages
  metalock,    \* a reader, or "free"
  remapping,   \* the writer waits for mmaplock.Lock(): no new RLock is granted
  rd,          \* [Readers -> [pc, meta]]: the read transactions
  wpc,         \* the write transaction: "idle", "open", "spill", "alloc", "write",
               \* "sync", "meta", "metatorn", "metasync"
  item,        \* what it spills: "leaf", "root", "freelist"
  wtx,         \* its private meta: txid, root, freelist, pgid
  dirty,       \* keys it has changed and not yet spilled
  fresh,       \* [page -> content]: tx.pages, allocated and not yet written
  kids         \* [Keys -> page]: the children of its root node

VARIABLES      \* history and bounds
  stamp,       \* number of write transactions begun
  crashes,
  wrote,       \* [Keys -> Nat]: what the Commit under way is to leave; else acked
  acked        \* [Keys -> Nat]: what the last Commit that returned nil was to leave

fileVars   == <<file, disk, meta, dmeta>>
freeVars   == <<ids, pending>>
lockVars   == <<metalock, remapping>>
writerVars == <<wpc, item, wtx, dirty, fresh, kids>>
vars == <<fileVars, freeVars, mapped, lockVars, rd, writerVars, stamp, crashes, wrote, acked>>

-----------------------------------------------------------------------------
(* Pages and metas.                                                        *)

NPages == 4 + MaxTx * (Cardinality(Keys) + 2)
Pages  == 2..(NPages - 1)
Txids  == 0..(MaxTx + 1)
NoKids == [k \in Keys |-> 0]

\* The mapping can be made large enough for the pages of MaxTx transactions.
ASSUME MapAssumption == \E s \in MapSizes : s > NPages

Blank       == [kind |-> "none",     val |-> 0, kids |-> NoKids, ids |-> {}]
Leaf(v)     == [kind |-> "leaf",     val |-> v, kids |-> NoKids, ids |-> {}]
Branch(c)   == [kind |-> "branch",   val |-> 0, kids |-> c,      ids |-> {}]
FreeList(s) == [kind |-> "freelist", val |-> 0, kids |-> NoKids, ids |-> s]

\* A meta page that was half written fails its checksum.
Torn(m) == [m EXCEPT !.valid = FALSE]

\* db.meta(): the valid meta page with the higher txid.
MetaOf(mt) ==
  LET a == IF mt[1].txid > mt[0].txid THEN 1 ELSE 0
  IN  IF mt[a].valid THEN mt[a] ELSE mt[1 - a]

DbMeta == MetaOf(meta)

\* What a transaction with meta m finds for each key: the leaf's value, Absent, or
\* Garbage when a page is not what it should be.
Absent  == 0
Garbage == 999
ContentsOf(f, m) ==
  [k \in Keys |->
     LET c == f[m.root].kids[k] IN
     IF f[m.root].kind # "branch" THEN Garbage
     ELSE IF c = 0 THEN Absent
     ELSE IF f[c].kind = "leaf" THEN f[c].val ELSE Garbage]

Contents(m) == ContentsOf(file, m)

\* The tree pages a transaction with meta m may look at.
ReachOf(f, m) == {m.root} \cup ({f[m.root].kids[k] : k \in Keys} \ {0})

Reach(m) == ReachOf(file, m)

AllPending  == UNION {pending[t] : t \in DOMAIN pending}
mmapSize(n) == Min({s \in MapSizes : s >= n})

NoTx == [txid |-> 0, root |-> 0, freelist |-> 0, pgid |-> 0, valid |-> FALSE]

\* Open on a new file: db.init writes two metas, an empty freelist and an empty
\* root, and syncs them.
Init ==
  /\ file = [p \in Pages |-> IF p = 2 THEN FreeList({})
                             ELSE IF p = 3 THEN Branch(NoKids) ELSE Blank]
  /\ disk = file
  /\ meta = [i \in 0..1 |-> [txid |-> i, root |-> 3, freelist |-> 2, pgid |-> 4, valid |-> TRUE]]
  /\ dmeta = meta
  /\ ids = {} /\ pending = [t \in Txids |-> {}]
  /\ mapped = mmapSize(4)
  /\ metalock = "free" /\ remapping = FALSE
  /\ rd = [r \in Readers |-> [pc |-> "idle", meta |-> NoTx]]
  /\ wpc = "idle" /\ item = "leaf" /\ wtx = NoTx /\ dirty = {} /\ fresh = <<>> /\ kids = NoKids
  /\ stamp = 0 /\ crashes = 0
  /\ acked = [k \in Keys |-> Absent] /\ wrote = acked

-----------------------------------------------------------------------------
(* Read transactions: beginTx and removeTx.                                *)

ReaderUnchanged == UNCHANGED <<fileVars, freeVars, mapped, remapping, writerVars,
                               stamp, crashes, wrote, acked>>

BeginTxLock(r) ==
  /\ rd[r].pc = "idle" /\ metalock = "free"
  /\ metalock' = r
  /\ rd' = [rd EXCEPT ![r].pc = "locked"]
  /\ ReaderUnchanged

\* mmaplock.RLock, which waits for a writer that wants to remap; then the meta is
\* copied, the transaction listed, and metalock released.
BeginTx(r) ==
  /\ rd[r].pc = "locked" /\ ~ remapping
  /\ rd' = [rd EXCEPT ![r] = [pc |-> "open", meta |-> DbMeta]]
  /\ metalock' = "free"
  /\ ReaderUnchanged

\* removeTx gives the mapping back before it asks for metalock ...
RemoveTxUnlock(r) ==
  /\ rd[r].pc = "open"
  /\ rd' = [rd EXCEPT ![r].pc = "closing"]
  /\ UNCHANGED metalock /\ ReaderUnchanged

\* ... under which it leaves db.txs.
RemoveTx(r) ==
  /\ rd[r].pc = "closing" /\ metalock = "free"
  /\ rd' = [rd EXCEPT ![r] = [pc |-> "idle", meta |-> NoTx]]
  /\ UNCHANGED metalock /\ ReaderUnchanged

Txs     == {r \in Readers : rd[r].pc \in {"open", "closing"}}   \* db.txs
RLocked == {r \in Readers : rd[r].pc = "open"}                  \* holders of mmaplock

-----------------------------------------------------------------------------
(* The write transaction: beginRWTx, Commit, spill, allocate, rollback.    *)

WriterUnchanged == UNCHANGED <<metalock, rd, crashes>>

\* Mutant: pages are released whoever is reading.
ReleasedAlways == DOMAIN pending

\* freelist.release(minid - 1): pages freed by transactions older than every open
\* read transaction become available.
Released == {t \in DOMAIN pending : \A r \in Txs : t < rd[r].meta.txid}

BeginRWTx ==
  /\ wpc = "idle" /\ metalock = "free" /\ stamp < MaxTx
  /\ wpc' = "open"
  /\ wtx' = [DbMeta EXCEPT !.txid = @ + 1]
  /\ kids' = file[DbMeta.root].kids
  /\ dirty' = {} /\ fresh' = <<>> /\ item' = "leaf"
  /\ stamp' = stamp + 1
  /\ ids' = ids \cup UNION {pending[t] : t \in Released}
  /\ pending' = [t \in DOMAIN pending |-> IF t \in Released THEN {} ELSE pending[t]]
  /\ UNCHANGED <<fileVars, mapped, remapping, wrote, acked>> /\ WriterUnchanged

\* Put of the keys in D, then Commit.  An empty transaction writes a new freelist
\* and a new meta all the same.
Commit(D) ==
  /\ wpc = "open"
  /\ dirty' = D
  /\ wrote' = [k \in Keys |-> IF k \in D THEN stamp ELSE Contents(DbMeta)[k]]
  /\ wpc' = "spill" /\ item' = IF D = {} THEN "freelist" ELSE "leaf"
  /\ UNCHANGED <<fileVars, freeVars, mapped, remapping, wtx, fresh, kids, stamp, acked>>
  /\ WriterUnchanged

\* Mutant: a node that has no page yet is freed as page 0.
ReplacedUnchecked ==
  CASE item = "leaf"     -> {kids[Min(dirty)]}
    [] item = "root"     -> {wtx.root}
    [] item = "freelist" -> {wtx.freelist}

\* node.spill, children first, then the root; then Commit for the freelist page:
\* the page that is replaced is freed, under this transaction's id, before the new
\* one is allocated.  A node that is not on a page yet has nothing to free.
Replaced ==
  CASE item = "leaf"     -> {kids[Min(dirty)]} \ {0}
    [] item = "root"     -> {wtx.root}
    [] item = "freelist" -> {wtx.freelist}

Spill ==
  /\ wpc = "spill"
  /\ pending' = [pending EXCEPT ![wtx.txid] = @ \cup Replaced]
  /\ wpc' = "alloc"
  /\ UNCHANGED <<fileVars, ids, mapped, remapping, item, wtx, dirty, fresh, kids, stamp, wrote, acked>>
  /\ WriterUnchanged

\* The page p goes to the item that is being spilled.  The freelist page gets the
\* free and the pending pages, as they are after its own allocation.
Place(p, left, pgid) ==
  LET k == Min(dirty) IN
  /\ ids' = left
  /\ CASE item = "leaf" ->
            /\ fresh' = [q \in DOMAIN fresh \cup {p} |-> IF q = p THEN Leaf(stamp) ELSE fresh[q]]
            /\ kids' = [kids EXCEPT ![k] = p]
            /\ dirty' = dirty \ {k}
            /\ item' = IF dirty = {k} THEN "root" ELSE "leaf"
            /\ wtx' = [wtx EXCEPT !.pgid = pgid]
            /\ wpc' = "spill"
       [] item = "root" ->
            /\ fresh' = [q \in DOMAIN fresh \cup {p} |-> IF q = p THEN Branch(kids) ELSE fresh[q]]
            /\ item' = "freelist"
            /\ wtx' = [wtx EXCEPT !.pgid = pgid, !.root = p]
            /\ wpc' = "spill"
            /\ UNCHANGED <<kids, dirty>>
       [] item = "freelist" ->
            /\ fresh' = [q \in DOMAIN fresh \cup {p} |->
                           IF q = p THEN FreeList(left \cup AllPending) ELSE fresh[q]]
            /\ wtx' = [wtx EXCEPT !.pgid = pgid, !.freelist = p]
            /\ wpc' = "write"
            /\ UNCHANGED <<kids, dirty, item>>
  /\ UNCHANGED <<fileVars, pending, stamp, wrote, acked>> /\ WriterUnchanged

\* db.allocate: the first free page; else the page at the high water mark, when
\* the mapping is large enough.
AllocFree ==
  /\ wpc = "alloc" /\ ids # {}
  /\ Place(Min(ids), ids \ {Min(ids)}, wtx.pgid)
  /\ UNCHANGED <<mapped, remapping>>

MustGrow == wtx.pgid + 2 >= mapped

AllocEnd ==
  /\ wpc = "alloc" /\ ids = {} /\ ~ MustGrow
  /\ Place(wtx.pgid, ids, wtx.pgid + 1)
  /\ UNCHANGED <<mapped, remapping>>

\* Else the mapping must grow: mmaplock.Lock keeps new readers out and waits for
\* the open ones.
RemapWait ==
  /\ wpc = "alloc" /\ ids = {} /\ MustGrow /\ ~ remapping
  /\ remapping' = TRUE
  /\ UNCHANGED <<fileVars, freeVars, mapped, writerVars, stamp, wrote, acked>> /\ WriterUnchanged

Remap ==
  /\ remapping /\ RLocked = {}
  /\ mapped' = mmapSize(wtx.pgid + 2)
  /\ remapping' = FALSE
  /\ Place(wtx.pgid, ids, wtx.pgid + 1)

\* Mutant: the freelist is not read again.
RollbackNoReload(f, mt) ==
  /\ pending' = [pending EXCEPT ![wtx.txid] = {}]
  /\ ids' = ids
  /\ wpc' = "idle" /\ wtx' = NoTx /\ dirty' = {} /\ fresh' = <<>> /\ kids' = NoKids
  /\ item' = "leaf" /\ wrote' = acked
  /\ UNCHANGED <<mapped, stamp, acked>> /\ WriterUnchanged

\* Mutant: the transaction's pending pages stay.
RollbackKeepsPending(f, mt) ==
  /\ pending' = pending
  /\ ids' = f[MetaOf(mt).freelist].ids \ AllPending
  /\ wpc' = "idle" /\ wtx' = NoTx /\ dirty' = {} /\ fresh' = <<>> /\ kids' = NoKids
  /\ item' = "leaf" /\ wrote' = acked
  /\ UNCHANGED <<mapped, stamp, acked>> /\ WriterUnchanged

\* tx.rollback: the transaction's pending pages are forgotten and the free ones
\* read again from the freelist page of the current meta.  rwlock is released.
RollbackTo(f, mt) ==
  LET kept == [pending EXCEPT ![wtx.txid] = {}] IN
  /\ pending' = kept
  /\ ids' = f[MetaOf(mt).freelist].ids \ UNION {kept[t] : t \in DOMAIN kept}
  /\ wpc' = "idle" /\ wtx' = NoTx /\ dirty' = {} /\ fresh' = <<>> /\ kids' = NoKids
  /\ item' = "leaf" /\ wrote' = acked
  /\ UNCHANGED <<mapped, stamp, acked>> /\ WriterUnchanged

\* Rollback by the caller, or because the function given to Update failed.
Rollback ==
  /\ wpc = "open"
  /\ RollbackTo(file, meta)
  /\ UNCHANGED <<fileVars, remapping>>

\* mmap refuses ("mmap too large").
RemapFails ==
  /\ remapping /\ RLocked = {} /\ "write" \in Faults
  /\ remapping' = FALSE
  /\ RollbackTo(file, meta)
  /\ UNCHANGED fileVars

Written(S) == [p \in Pages |-> IF p \in S THEN fresh[p] ELSE file[p]]

\* tx.write: all the new pages, then fdatasync.
WritePages ==
  /\ wpc = "write"
  /\ file' = Written(DOMAIN fresh)
  /\ wpc' = "sync"
  /\ UNCHANGED <<disk, meta, dmeta, freeVars, mapped, remapping, item, wtx, dirty, fresh, kids,
                 stamp, wrote, acked>>
  /\ WriterUnchanged

\* Mutant: the pages are not synced before the meta is written.
SyncPagesSkipped ==
  /\ wpc = "sync"
  /\ wpc' = "meta"
  /\ UNCHANGED <<fileVars, freeVars, mapped, remapping, item, wtx, dirty, fresh, kids,
                 stamp, wrote, acked>>
  /\ WriterUnchanged

SyncPages ==
  /\ wpc = "sync"
  /\ disk' = file /\ dmeta' = meta
  /\ wpc' = "meta"
  /\ UNCHANGED <<file, meta, freeVars, mapped, remapping, item, wtx, dirty, fresh, kids,
                 stamp, wrote, acked>>
  /\ WriterUnchanged

\* grow, a write or the sync fails: some of the pages may have been written.
WriteFails(S) ==
  /\ wpc = "write" /\ "write" \in Faults
  /\ file' = Written(S)
  /\ RollbackTo(file', meta)
  /\ UNCHANGED <<disk, meta, dmeta, remapping>>

\* tx.writeMeta overwrites the older meta page, which readers may be looking at.
Slot    == wtx.txid % 2
NewMeta == [wtx EXCEPT !.valid = TRUE]

WriteMeta ==
  /\ wpc = "meta"
  /\ meta' = [meta EXCEPT ![Slot] = Torn(NewMeta)]
  /\ wpc' = "metatorn"
  /\ UNCHANGED <<file, disk, dmeta, freeVars, mapped, remapping, item, wtx, dirty, fresh, kids,
                 stamp, wrote, acked>>
  /\ WriterUnchanged

WriteMetaEnd ==
  /\ wpc = "metatorn"
  /\ meta' = [meta EXCEPT ![Slot] = NewMeta]
  /\ wpc' = "metasync"
  /\ UNCHANGED <<file, disk, dmeta, freeVars, mapped, remapping, item, wtx, dirty, fresh, kids,
                 stamp, wrote, acked>>
  /\ WriterUnchanged

\* The sync succeeds and Commit returns nil ...
SyncMeta ==
  /\ wpc = "metasync"
  /\ disk' = file /\ dmeta' = meta
  /\ acked' = wrote
  /\ wpc' = "idle" /\ item' = "leaf" /\ wtx' = NoTx /\ dirty' = {} /\ fresh' = <<>> /\ kids' = NoKids
  /\ UNCHANGED <<file, meta, freeVars, mapped, remapping, stamp, wrote>> /\ WriterUnchanged

\* ... or writeMeta fails: the page is half written, or written and not synced.
WriteMetaFails ==
  /\ wpc \in {"metatorn", "metasync"} /\ wpc \in Faults
  /\ RollbackTo(file, meta)
  /\ UNCHANGED <<fileVars, remapping>>

-----------------------------------------------------------------------------
(* A crash at any point, and Open on what it left.                         *)

\* Of the pages written since the last sync any may be lost; a meta page may also
\* be left half written.
Lost == {p \in Pages : file[p] # disk[p]}
MetaLeft(i) ==
  IF meta[i] = dmeta[i] THEN {meta[i]} ELSE {meta[i], dmeta[i], Torn(meta[i])}

Crash(S, m0, m1) ==
  LET f == [p \in Pages |-> IF p \in S THEN disk[p] ELSE file[p]]
      m == [i \in 0..1 |-> IF i = 0 THEN m0 ELSE m1]
  IN  /\ crashes < MaxCrashes /\ crashes' = crashes + 1
      /\ file' = f /\ disk' = f /\ meta' = m /\ dmeta' = m
      /\ ids' = f[MetaOf(m).freelist].ids
      /\ pending' = [t \in DOMAIN pending |-> {}]
      /\ mapped' = mmapSize(MetaOf(m).pgid)
      /\ metalock' = "free" /\ remapping' = FALSE
      /\ rd' = [r \in Readers |-> [pc |-> "idle", meta |-> NoTx]]
      /\ wpc' = "idle" /\ item' = "leaf" /\ wtx' = NoTx /\ dirty' = {} /\ fresh' = <<>>
      /\ kids' = NoKids
      /\ acked' = ContentsOf(f, MetaOf(m)) /\ wrote' = acked'
      /\ UNCHANGED stamp

-----------------------------------------------------------------------------
Reader(r) == BeginTx(r) \/ RemoveTxUnlock(r) \/ RemoveTx(r)

Writer ==
  \/ Spill \/ AllocFree \/ AllocEnd \/ RemapWait \/ Remap \/ RemapFails
  \/ WritePages \/ SyncPages \/ (\E S \in SUBSET DOMAIN fresh : WriteFails(S))
  \/ WriteMeta \/ WriteMetaEnd \/ SyncMeta \/ WriteMetaFails

Next ==
  \/ \E r \in Readers : BeginTxLock(r) \/ Reader(r)
  \/ BeginRWTx \/ Rollback \/ (\E D \in SUBSET Keys : Commit(D)) \/ Writer
  \/ \E S \in SUBSET Lost, m0 \in MetaLeft(0), m1 \in MetaLeft(1) : Crash(S, m0, m1)

Spec == Init /\ [][Next]_vars

-----------------------------------------------------------------------------
(* Properties.                                                             *)

Content == [kind : {"none", "leaf", "branch", "freelist"}, val : Nat,
            kids : [Keys -> Pages \cup {0}], ids : SUBSET Pages]
Meta    == [txid : Txids, root : Pages \cup {0}, freelist : Pages \cup {0},
            pgid : 0..NPages, valid : BOOLEAN]

\* Every variable has its type: no transaction runs out of pages, none frees or
\* allocates a page that is not a data page.
TypeOK ==
  /\ file \in [Pages -> Content] /\ disk \in [Pages -> Content]
  /\ meta \in [0..1 -> Meta] /\ dmeta \in [0..1 -> Meta]
  /\ ids \in SUBSET Pages /\ pending \in [Txids -> SUBSET Pages]
  /\ mapped \in MapSizes /\ metalock \in Readers \cup {"free"} /\ remapping \in BOOLEAN
  /\ rd \in [Readers -> [pc : {"idle", "locked", "open", "closing"}, meta : Meta]]
  /\ wpc \in {"idle", "open", "spill", "alloc", "write", "sync", "meta", "metatorn", "metasync"}
  /\ item \in {"leaf", "root", "freelist"} /\ wtx \in Meta /\ dirty \in SUBSET Keys
  /\ DOMAIN fresh \subseteq Pages /\ \A p \in DOMAIN fresh : fresh[p] \in Content
  /\ kids \in [Keys -> Pages \cup {0}]
  /\ stamp \in 0..MaxTx /\ crashes \in 0..MaxCrashes
  /\ wrote \in [Keys -> Nat] /\ acked \in [Keys -> Nat]

\* A page that a read transaction may look at, or that the current meta leads to,
\* is never available for allocation nor about to be overwritten.
NoPageReuse ==
  \A m \in {DbMeta} \cup {rd[r].meta : r \in RLocked} :
    /\ Reach(m) \cap ids = {}
    /\ wpc \in {"spill", "alloc", "write"} => Reach(m) \cap DOMAIN fresh = {}

\* What tx.Check looks for, whenever no write transaction is open: every page
\* below the high water mark is in the tree, is the freelist page, or is free or
\* pending, and in one of them only; and one meta page is valid.
CheckClean ==
  wpc = "idle" =>
    LET m == DbMeta IN
    /\ m.valid
    /\ 2..(m.pgid - 1) = Reach(m) \cup {m.freelist} \cup ids \cup AllPending
    /\ (Reach(m) \cup {m.freelist}) \cap (ids \cup AllPending) = {}
    /\ m.freelist \notin Reach(m)
    /\ ids \cap AllPending = {}

\* freelist.free never meets a page that is already free ("page %d already freed").
NoDoubleFree ==
  wpc = "spill" => Replaced \cap (ids \cup AllPending) = {}

\* The abstract store: what the current meta shows, what the last successful
\* Commit was to leave, and what each open read transaction sees through its own
\* meta.
Store == INSTANCE BoltStore WITH
  db      <- Contents(DbMeta),
  durable <- acked,
  snap    <- [r \in Readers |-> IF rd[r].pc = "open" THEN Contents(rd[r].meta) ELSE <<>>]

\* Page reuse, failed commits and crashes included, bolt is the abstract store:
\* commits are atomic, a Commit that returns nil has left all it was given to
\* write, read transactions keep their snapshot, and a crash loses nothing that
\* Commit has acknowledged.
ImplementsStore == Store!Spec
=============================================================================
