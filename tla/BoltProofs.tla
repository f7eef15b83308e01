----------------------------- MODULE BoltProofs -----------------------------
(***************************************************************************)
(* bolt is the abstract store, for every number of keys, readers,          *)
(* transactions and crashes: no page is reused while somebody may read it, *)
(* and Bolt implements BoltStore.                                          *)
(*                                                                         *)
(* The argument is about `Old', the meta page that a crash would bring     *)
(* back.  Its tree, its freelist page and the pages on that freelist       *)
(* partition the file.  An open write transaction takes its new pages from *)
(* that freelist or from the end of the file, and puts the pages it        *)
(* replaces under its own id; so nothing it writes is seen by a reader or  *)
(* by a crash until the new meta page is there.                            *)
(***************************************************************************)
EXTENDS Bolt, FiniteSetTheorems, WellFoundedInduction, TLAPS

Old     == MetaOf(dmeta)
OldKids == file[Old.root].kids
T       == wtx.txid

(* The two meta pages: mt[i] is the one that counts.                       *)
Counts(mt, i) == mt[i].valid /\ (mt[1 - i].txid < mt[i].txid \/ ~mt[1 - i].valid)

MetaInv ==
  /\ \A i \in 0..1 : meta[i].txid % 2 = i /\ dmeta[i].txid % 2 = i
  /\ \E i \in 0..1 :
       /\ Counts(dmeta, i) /\ meta[i] = dmeta[i]
       /\ wpc # "metasync" => Counts(meta, i)
  /\ wpc # "idle" => T = Old.txid + 1
  /\ wpc = "idle" => T = 0
  /\ wpc = "metasync" => meta[Slot] = NewMeta
  /\ Old.txid <= stamp + 1 /\ Old.txid > 0
  /\ wpc # "idle" => Old.txid <= stamp

(* The tree and the freelist of meta page m make up the file f.            *)
TreeOf(f, m) ==
  /\ m.root \in Pages /\ m.freelist \in Pages /\ m.freelist \notin ReachOf(f, m)
  /\ f[m.root].kind = "branch"
  /\ \A k \in Keys : f[m.root].kids[k] # m.root
  /\ \A j, k \in Keys : f[m.root].kids[j] = f[m.root].kids[k] => j = k \/ f[m.root].kids[k] = 0
  /\ \A k \in Keys : f[m.root].kids[k] # 0 => f[f[m.root].kids[k]].kind = "leaf"
  /\ \A p \in Pages : p < m.pgid <=> p \in ReachOf(f, m) \/ p = m.freelist \/ p \in f[m.freelist].ids
  /\ \A p \in f[m.freelist].ids : p \notin ReachOf(f, m) /\ p # m.freelist

(* Free, pending and newly allocated pages.                                *)
PendingBefore(p) == \E t \in Txids : t # T /\ p \in pending[t]

FreeInv ==
  /\ \A p \in Pages :
       p \in file[Old.freelist].ids <=>
         p \in ids \/ PendingBefore(p) \/ (p \in DOMAIN fresh /\ p < Old.pgid)
  /\ \A p \in Pages : p \in ids => p \notin DOMAIN fresh /\ ~PendingBefore(p)
  /\ \A p \in DOMAIN fresh : ~PendingBefore(p)
  /\ wpc # "idle" => Old.pgid <= wtx.pgid
  /\ \A p \in Pages : p >= Old.pgid => (p \in DOMAIN fresh <=> p < wtx.pgid)
  /\ pending[0] = {}
  /\ \A t, u \in Txids : t # u => pending[t] \cap pending[u] = {}
  /\ \A t \in Txids : t > Old.txid /\ t # T => pending[t] = {}
  /\ pending[T] \subseteq Reach(Old) \cup {Old.freelist}

Finished == wpc \in {"write", "sync", "meta", "metatorn", "metasync"}
Synced   == wpc \in {"meta", "metatorn", "metasync"}

(* What the write transaction has replaced so far.                         *)
KidInv(k) ==
  \/ /\ kids[k] = OldKids[k]
     /\ kids[k] \in pending[T] => wpc = "alloc" /\ item = "leaf" /\ k = Min(dirty)
  \/ /\ kids[k] \in DOMAIN fresh /\ fresh[kids[k]] = Leaf(stamp) /\ k \notin dirty
     /\ OldKids[k] \in pending[T] \cup {0}

OldRoot == wtx.root = Old.root
NewRoot == /\ wtx.root \in DOMAIN fresh /\ fresh[wtx.root] = Branch(kids)
           /\ Old.root \in pending[T] /\ \A k \in Keys : kids[k] # wtx.root

RootInv ==
  /\ item = "leaf" => OldRoot /\ Old.root \notin pending[T]
  /\ item = "root" => OldRoot /\ (Old.root \in pending[T] => wpc = "alloc")
  /\ item = "freelist" => NewRoot \/ (OldRoot /\ Old.root \notin pending[T] /\ kids = OldKids)

FreelistInv ==
  /\ Finished =>
       /\ wtx.freelist \in DOMAIN fresh /\ fresh[wtx.freelist] = FreeList(ids \cup AllPending)
       /\ Old.freelist \in pending[T]
       /\ wtx.freelist # wtx.root /\ \A k \in Keys : kids[k] # wtx.freelist
  /\ ~Finished =>
       /\ wtx.freelist = Old.freelist
       /\ Old.freelist \in pending[T] => item = "freelist" /\ wpc = "alloc"

TxInv ==
  /\ \A k \in Keys : KidInv(k)
  /\ \A j, k \in Keys : kids[j] = kids[k] => j = k \/ kids[k] = 0
  /\ RootInv /\ FreelistInv
  /\ \A p \in DOMAIN fresh : \/ p = wtx.root \/ (Finished /\ p = wtx.freelist)
                             \/ \E k \in Keys : kids[k] = p
  /\ Finished => item = "freelist"
  /\ wpc = "open" => item = "leaf" /\ dirty = {} /\ DOMAIN fresh = {} /\ pending[T] = {}
  /\ wpc # "open" => (dirty # {} <=> item = "leaf")
  /\ wpc = "alloc" => Replaced \subseteq pending[T]
  /\ wpc \in {"sync", "meta", "metatorn", "metasync"} =>
        \A p \in DOMAIN fresh : file[p] = fresh[p]

IdleInv == DOMAIN fresh = {} /\ wtx = NoTx

(* What a crash would leave.                                               *)
DurableInv ==
  /\ \A p \in Reach(Old) \cup {Old.freelist} : disk[p] = file[p]
  /\ Synced => disk = file
  /\ acked = Contents(Old)

(* What the open read transactions look at.                                *)
ReaderInv(r) ==
  LET m == rd[r].meta IN
  /\ m.txid <= DbMeta.txid
  /\ m.root \in Pages
  /\ \A p \in Reach(m) :
       /\ p \notin ids /\ p < DbMeta.pgid
       /\ wpc # "metasync" => p \notin DOMAIN fresh
       /\ \A t \in Txids : p \in pending[t] => t > m.txid

(* The file grows by at most one page for each leaf, the root and the      *)
(* freelist.                                                               *)
PerTx == Cardinality(Keys) + 2
Spilling == wpc \in {"spill", "alloc"}
Todo == IF wpc = "open" THEN PerTx
        ELSE IF Spilling /\ item = "leaf" THEN Cardinality(dirty) + 2
        ELSE IF Spilling /\ item = "root" THEN 2
        ELSE IF Spilling THEN 1 ELSE 0
SizeInv ==
  /\ Old.pgid >= 4
  /\ IF wpc = "idle" THEN Old.pgid <= 4 + stamp * PerTx
                     ELSE /\ Old.pgid <= 4 + (stamp - 1) * PerTx /\ stamp > 0
                          /\ wtx.pgid + Todo <= 4 + stamp * PerTx

(* What does not depend on the readers, and all of it.                     *)
WInv ==
  /\ MetaInv /\ TreeOf(file, Old) /\ FreeInv /\ DurableInv /\ SizeInv
  /\ IF wpc = "idle" THEN IdleInv ELSE TxInv

RemapInv == remapping => wpc = "alloc" /\ ids = {} /\ MustGrow

IInv == TypeOK /\ WInv /\ RemapInv /\ \A r \in Txs : ReaderInv(r)

(* What Commit was asked to leave: its own stamp where a leaf is still to  *)
(* be spilled or is on a new page, what was there before everywhere else.  *)
WroteInv ==
  wpc \notin {"idle", "open"} =>
    \A k \in Keys : wrote[k] = IF k \in dirty \/ kids[k] \in DOMAIN fresh THEN stamp ELSE acked[k]

AInv == IInv /\ WroteInv

-----------------------------------------------------------------------------
(* Numbers.                                                                *)

LEMMA MinProperty ==
  ASSUME NEW S \in SUBSET Nat, S # {}
  PROVE  Min(S) \in S /\ \A y \in S : Min(S) <= y
<1> DEFINE R == {ss \in Nat \X Nat : ss[1] < ss[2]}
<1>1. R = OpToRel(<, Nat)
  BY Zenon DEF OpToRel
<1>2. IsWellFoundedOn(R, Nat)
  BY <1>1, NatLessThanWellFounded, Zenon
<1> HIDE DEF R
<1>3. PICK x \in S : \A y \in S : ~(<<y, x>> \in R)
  BY <1>2, WFMin, Zenon
<1>4. \A y \in Nat : y < x => <<y, x>> \in R
  BY DEF R
<1>5. \A y \in S : ~(y < x)
  BY <1>3, <1>4
<1>6. \E z \in S : \A y \in S : z <= y
  BY <1>5
<1>7. QED
  BY <1>6 DEF Min

LEMMA Parity ==
  ASSUME NEW n \in Nat
  PROVE  n % 2 \in 0..1 /\ (n + 1) % 2 = 1 - (n % 2)
OBVIOUS

LEMMA Times ==
  ASSUME NEW a \in Nat, NEW b \in Nat, NEW n \in Nat
  PROVE  /\ a * n \in Nat
         /\ (a + 1) * n = a * n + n
         /\ a <= b => a * n <= b * n
<1>1. a <= b => a * n <= b * n
  <2> HAVE a <= b
  <2>1. b - a \in Nat /\ n * (b - a) >= 0
    OBVIOUS
  <2>2. QED
    BY <2>1
<1>2. QED
  BY <1>1

LEMMA Constants ==
  /\ PerTx \in Nat /\ PerTx >= 2 /\ IsFiniteSet(Keys) /\ NPages = 4 + MaxTx * PerTx
  /\ NPages \in Nat /\ NPages >= 4 /\ MaxTx \in Nat
  /\ Pages \subseteq Nat /\ 0 \notin Pages /\ \A n \in Nat : n \in Pages <=> n >= 2 /\ n < NPages
  /\ Txids \subseteq Nat /\ \A n \in Nat : n \in Txids <=> n <= MaxTx + 1
<1>1. IsFiniteSet(Keys) /\ Cardinality(Keys) \in Nat /\ MaxTx \in Nat
  BY BoltAssumption, FS_CardinalityType
<1>2. MaxTx * PerTx \in Nat
  BY <1>1, Times DEF PerTx
<1>3. QED
  BY <1>1, <1>2 DEF PerTx, NPages, Pages, Txids

(* mmapSize finds a size that is large enough.                             *)
LEMMA MapGrows ==
  ASSUME NEW n \in Nat, n <= NPages + 1
  PROVE  mmapSize(n) \in MapSizes
<1> DEFINE S == {s \in MapSizes : s >= n}
<1>1. PICK s \in MapSizes : s > NPages
  BY MapAssumption
<1>2. MapSizes \subseteq Nat /\ NPages \in Nat
  BY BoltAssumption, Constants
<1>3. S \in SUBSET Nat /\ s \in S
  <2>1. s \in Nat /\ s >= n
    BY <1>1, <1>2
  <2>2. QED
    BY <1>2, <2>1
<1>4. Min(S) \in S
  BY <1>3, MinProperty
<1>5. QED
  BY <1>4 DEF mmapSize

-----------------------------------------------------------------------------
(* Meta pages.                                                             *)

LEMMA CountsMeta ==
  ASSUME NEW mt \in [0..1 -> Meta], NEW i \in 0..1, Counts(mt, i)
  PROVE  MetaOf(mt) = mt[i]
<1>1. \A j \in 0..1 : mt[j].txid \in Nat
  BY Constants DEF Meta
<1>2. i = 0 \/ i = 1
  OBVIOUS
<1>3. QED
  BY <1>1, <1>2 DEF MetaOf, Counts

LEMMA MetaFacts ==
  ASSUME TypeOK, MetaInv
  PROVE  \E i \in 0..1 :
           /\ Old = dmeta[i] /\ Old = meta[i] /\ Old.valid /\ Counts(dmeta, i)
           /\ Old.txid % 2 = i
           /\ wpc # "metasync" => Counts(meta, i) /\ DbMeta = Old
           /\ wpc = "metasync" => meta[1 - i] = NewMeta /\ Counts(meta, 1 - i) /\ DbMeta = NewMeta
           /\ wpc # "idle" => Slot = 1 - i
           /\ 1 - i \in 0..1 /\ 1 - (1 - i) = i
<1>1. PICK i \in 0..1 : /\ Counts(dmeta, i) /\ meta[i] = dmeta[i]
                        /\ wpc # "metasync" => Counts(meta, i)
  BY DEF MetaInv
<1>2. Old = dmeta[i] /\ Old \in Meta
  BY <1>1, CountsMeta DEF Old, TypeOK
<1>3. wpc # "metasync" => DbMeta = Old
  BY <1>1, <1>2, CountsMeta DEF DbMeta, TypeOK
<1>4. Old.txid % 2 = i /\ Old.txid \in Nat
  BY <1>1, <1>2, Constants DEF MetaInv, Meta
<1>5. wpc # "idle" => Slot = 1 - i
  BY <1>4, Parity DEF MetaInv, Slot, T
<1>6. 1 - i \in 0..1 /\ 1 - (1 - i) = i
  OBVIOUS
<1>7. ASSUME wpc = "metasync"
      PROVE  meta[1 - i] = NewMeta /\ Counts(meta, 1 - i) /\ DbMeta = NewMeta
  <2>1. meta[1 - i] = NewMeta
    BY <1>5, <1>7 DEF MetaInv
  <2>2. NewMeta.valid /\ NewMeta.txid = T
    BY DEF NewMeta, T, TypeOK, Meta
  <2>3. Counts(meta, 1 - i)
    BY <2>1, <2>2, <1>1, <1>2, <1>4, <1>6, <1>7 DEF Counts, MetaInv
  <2>4. QED
    BY <2>1, <2>3, <1>6, CountsMeta DEF DbMeta, TypeOK
<1>8. Old.valid
  BY <1>1, <1>2 DEF Counts
<1>9. QED
  BY <1>1, <1>2, <1>3, <1>4, <1>5, <1>6, <1>7, <1>8

LEMMA MetaTypes ==
  \A m \in Meta : m.pgid \in Nat /\ m.pgid <= NPages /\ m.txid \in Txids /\ m.txid \in Nat
<1>1. 0..NPages \subseteq Nat /\ Txids \subseteq Nat /\ \A n \in 0..NPages : n <= NPages
  BY Constants
<1>2. QED
  BY <1>1 DEF Meta

LEMMA Sizes ==
  ASSUME TypeOK, MetaInv
  PROVE  /\ Old \in Meta /\ Old.pgid \in Nat /\ wtx.pgid \in Nat /\ T \in Txids /\ T \in Nat
         /\ Old.txid \in Nat /\ Old.txid \in Txids
<1>1. Old \in Meta
  BY MetaFacts DEF TypeOK
<1>2. wtx \in Meta
  BY DEF TypeOK
<1>3. QED
  BY <1>1, <1>2, MetaTypes DEF T

-----------------------------------------------------------------------------
(* Trees.                                                                  *)

(* A file that agrees with another one on the pages of a tree has the same *)
(* tree.                                                                   *)
LEMMA SameReach ==
  ASSUME NEW f, NEW g, NEW m, \A p \in ReachOf(f, m) : g[p] = f[p]
  PROVE  ReachOf(g, m) = ReachOf(f, m) /\ ContentsOf(g, m) = ContentsOf(f, m)
<1>1. g[m.root] = f[m.root]
  BY DEF ReachOf
<1>2. \A k \in Keys : f[m.root].kids[k] # 0 => g[f[m.root].kids[k]] = f[f[m.root].kids[k]]
  BY DEF ReachOf
<1>3. ReachOf(g, m) = ReachOf(f, m)
  BY <1>1 DEF ReachOf
<1>4. ContentsOf(g, m) = ContentsOf(f, m)
  BY <1>1, <1>2 DEF ContentsOf
<1>5. QED
  BY <1>3, <1>4

LEMMA SameTree ==
  ASSUME NEW f, NEW g, NEW m, TreeOf(f, m), g[m.freelist] = f[m.freelist],
         \A p \in ReachOf(f, m) : g[p] = f[p]
  PROVE  TreeOf(g, m)
<1>1. g[m.root] = f[m.root]
  BY DEF ReachOf
<1>2. \A k \in Keys : f[m.root].kids[k] # 0 => g[f[m.root].kids[k]] = f[f[m.root].kids[k]]
  BY DEF ReachOf
<1>3. ReachOf(g, m) = ReachOf(f, m)
  BY SameReach
<1>4. QED
  BY <1>1, <1>2, <1>3 DEF TreeOf

LEMMA ReachPages ==
  ASSUME NEW f \in [Pages -> Content], NEW m, m.root \in Pages
  PROVE  ReachOf(f, m) \subseteq Pages
BY DEF ReachOf, Content

(* The tree that a crash would bring back is neither free nor pending for  *)
(* an earlier transaction nor being written.                               *)
LEMMA Apart ==
  ASSUME TypeOK, MetaInv, TreeOf(file, Old), FreeInv,
         NEW p \in Reach(Old) \cup {Old.freelist}
  PROVE  p \in Pages /\ p < Old.pgid /\ p \notin ids /\ ~PendingBefore(p) /\ p \notin DOMAIN fresh
<1>1. p \in Pages /\ p < Old.pgid /\ p \notin file[Old.freelist].ids
  BY ReachPages DEF TypeOK, TreeOf, Reach
<1>2. QED
  BY <1>1 DEF FreeInv, TypeOK

-----------------------------------------------------------------------------
(* Steps of the readers.                                                   *)

Writers == <<fileVars, freeVars, writerVars, stamp, wrote, acked>>

LEMMA WriterKept ==
  ASSUME WInv, UNCHANGED Writers
  PROVE  WInv' /\ \A r \in Readers : rd'[r].meta = rd[r].meta /\ ReaderInv(r) => ReaderInv(r)'
<1> USE DEF Writers, fileVars, freeVars, writerVars
<1>1. Old' = Old /\ DbMeta' = DbMeta
  BY DEF Old, DbMeta, MetaOf
<1>2. MetaInv'
  BY <1>1 DEF WInv, MetaInv, T, Counts, Slot, NewMeta
<1>3. TreeOf(file, Old)'
  BY <1>1 DEF WInv, TreeOf, ReachOf
<1>4. FreeInv'
  BY <1>1 DEF WInv, FreeInv, T, PendingBefore, Reach, ReachOf
<1>5. DurableInv'
  BY <1>1 DEF WInv, DurableInv, Reach, ReachOf, Synced, Contents, ContentsOf
<1>6. SizeInv'
  BY <1>1 DEF WInv, SizeInv, Todo, Spilling
<1>7. wpc' = "idle" => IdleInv'
  BY <1>1 DEF WInv, IdleInv
<1>8. wpc' # "idle" => TxInv'
  <2>1. T' = T /\ OldKids' = OldKids /\ AllPending' = AllPending /\ Finished' = Finished /\ Replaced' = Replaced
    BY <1>1 DEF T, OldKids, AllPending, Finished, Replaced
  <2>2. \A k \in Keys : KidInv(k)' <=> KidInv(k)
    BY <1>1, <2>1 DEF KidInv
  <2>3. RootInv' <=> RootInv
    BY <1>1, <2>1 DEF RootInv, OldRoot, NewRoot
  <2>4. FreelistInv' <=> FreelistInv
    BY <1>1, <2>1 DEF FreelistInv
  <2>5. QED
    BY <1>1, <2>1, <2>2, <2>3, <2>4 DEF WInv, TxInv
<1>9. \A r \in Readers : rd'[r].meta = rd[r].meta /\ ReaderInv(r) => ReaderInv(r)'
  BY <1>1 DEF ReaderInv, Reach, ReachOf
<1>10. QED
  BY <1>2, <1>3, <1>4, <1>5, <1>6, <1>7, <1>8, <1>9 DEF WInv

-----------------------------------------------------------------------------
(* The tree of the write transaction, once its pages are written.          *)

LEMMA NewTree ==
  ASSUME TypeOK, WInv, wpc \in {"sync", "meta", "metatorn", "metasync"}
  PROVE  /\ TreeOf(file, NewMeta)
         /\ file[NewMeta.freelist].ids = ids \cup AllPending
         /\ \A p \in Reach(NewMeta) : p \notin ids /\ p < NewMeta.pgid
                                      /\ \A t \in Txids : p \notin pending[t]
         /\ \A k \in Keys :
              Contents(NewMeta)[k] = IF kids[k] \in DOMAIN fresh THEN stamp ELSE Contents(Old)[k]
<1> DEFINE n == NewMeta
<1>1. /\ n.root = wtx.root /\ n.freelist = wtx.freelist /\ n.pgid = wtx.pgid
      /\ Finished /\ item = "freelist" /\ T \in Txids
  BY DEF NewMeta, TypeOK, Meta, WInv, TxInv, Finished, T
<1>2. /\ \A p \in DOMAIN fresh : file[p] = fresh[p]
      /\ MetaInv /\ TreeOf(file, Old) /\ FreeInv /\ TxInv /\ FreelistInv /\ RootInv
  BY DEF WInv, TxInv
<1>3. /\ file[n.root].kids = kids /\ file[n.root].kind = "branch" /\ n.root \in Pages
      /\ \A k \in Keys : kids[k] # n.root
      /\ n.root \in DOMAIN fresh \/ n.root = Old.root
      /\ n.root \notin pending[T]
      /\ Old.root = n.root \/ Old.root \in pending[T]
  <2>1. CASE NewRoot
    <3>1. n.root \in DOMAIN fresh /\ file[n.root] = Branch(kids) /\ \A k \in Keys : kids[k] # n.root
      BY <1>1, <1>2, <2>1 DEF NewRoot
    <3>2. n.root \notin Reach(Old) \cup {Old.freelist}
      BY <1>2, <3>1, Apart
    <3>3. n.root \notin pending[T]
      BY <1>2, <3>2 DEF FreeInv
    <3>4. QED
      BY <2>1, <3>1, <3>3 DEF NewRoot, Branch, TypeOK
  <2>2. CASE OldRoot /\ Old.root \notin pending[T] /\ kids = OldKids
    BY <1>1, <1>2, <2>2 DEF OldRoot, OldKids, TreeOf
  <2>3. QED
    BY <1>1, <1>2, <2>1, <2>2 DEF RootInv
<1>4. \A k \in Keys :
         /\ kids[k] = 0 \/ kids[k] \in Reach(Old) \/ kids[k] \in DOMAIN fresh
         /\ kids[k] \notin pending[T]
         /\ kids[k] # 0 => file[kids[k]].kind = "leaf"
         /\ OldKids[k] = 0 \/ OldKids[k] = kids[k] \/ OldKids[k] \in pending[T]
         /\ kids[k] = OldKids[k] \/ file[kids[k]] = Leaf(stamp)
  <2> SUFFICES ASSUME NEW k \in Keys
      PROVE  /\ kids[k] = 0 \/ kids[k] \in Reach(Old) \/ kids[k] \in DOMAIN fresh
             /\ kids[k] \notin pending[T]
             /\ kids[k] # 0 => file[kids[k]].kind = "leaf"
             /\ OldKids[k] = 0 \/ OldKids[k] = kids[k] \/ OldKids[k] \in pending[T]
             /\ kids[k] = OldKids[k] \/ file[kids[k]] = Leaf(stamp)
    OBVIOUS
  <2>1. KidInv(k)
    BY <1>2 DEF TxInv
  <2>2. CASE kids[k] = OldKids[k] /\ kids[k] \notin pending[T]
    BY <1>2, <2>2 DEF OldKids, Reach, ReachOf, TreeOf
  <2>3. CASE kids[k] \in DOMAIN fresh /\ fresh[kids[k]] = Leaf(stamp) /\ OldKids[k] \in pending[T] \cup {0}
    <3>1. kids[k] \notin Reach(Old) \cup {Old.freelist}
      BY <1>2, <2>3, Apart
    <3>2. kids[k] \notin pending[T]
      BY <1>2, <3>1 DEF FreeInv
    <3>3. file[kids[k]] = Leaf(stamp)
      BY <1>2, <2>3
    <3>4. QED
      BY <2>3, <3>2, <3>3 DEF Leaf
  <2>4. QED
    BY <1>1, <2>1, <2>2, <2>3 DEF KidInv, Finished
<1>5. \A p : p \in Reach(n) <=> p = n.root \/ \E k \in Keys : p = kids[k] /\ kids[k] # 0
  BY <1>3 DEF Reach, ReachOf
<1>6. \A p \in Reach(n) : p \in Pages /\ p < n.pgid /\ p \notin ids /\ p \notin pending[T] /\ ~PendingBefore(p)
                          /\ (p \in DOMAIN fresh \/ p \in Reach(Old))
  <2> SUFFICES ASSUME NEW p \in Reach(n)
      PROVE  p \in Pages /\ p < n.pgid /\ p \notin ids /\ p \notin pending[T] /\ ~PendingBefore(p)
             /\ (p \in DOMAIN fresh \/ p \in Reach(Old))
    OBVIOUS
  <2>1. p \notin pending[T] /\ (p \in DOMAIN fresh \/ p \in Reach(Old))
    BY <1>3, <1>4, <1>5 DEF Reach, ReachOf
  <2>2. CASE p \in Reach(Old)
    <3>1. p \in Pages /\ p < Old.pgid /\ p \notin ids /\ ~PendingBefore(p)
      BY <1>2, <2>2, Apart
    <3>2. Old.pgid <= wtx.pgid /\ Old.pgid \in Nat /\ wtx.pgid \in Nat
      BY <1>1, <1>2, Sizes DEF FreeInv, Finished
    <3>3. QED
      BY <1>1, <2>1, <2>2, <3>1, <3>2, Constants
  <2>3. CASE p \in DOMAIN fresh
    <3>1. p \in Pages /\ p \notin ids /\ ~PendingBefore(p)
      BY <1>2, <2>3 DEF FreeInv, TypeOK
    <3>2. Old.pgid <= wtx.pgid /\ Old.pgid \in Nat /\ wtx.pgid \in Nat
      BY <1>1, <1>2, Sizes DEF FreeInv, Finished
    <3>3. p >= Old.pgid => p < wtx.pgid
      BY <1>2, <2>3, <3>1 DEF FreeInv
    <3>4. QED
      BY <1>1, <2>1, <2>3, <3>1, <3>2, <3>3, Constants
  <2>4. QED
    BY <2>1, <2>2, <2>3
<1>7. /\ n.freelist \in DOMAIN fresh /\ n.freelist \in Pages /\ n.freelist \notin Reach(n)
      /\ file[n.freelist].ids = ids \cup AllPending /\ Old.freelist \in pending[T]
  <2>1. /\ n.freelist \in DOMAIN fresh /\ file[n.freelist] = FreeList(ids \cup AllPending)
        /\ n.freelist # n.root /\ \A k \in Keys : kids[k] # n.freelist
        /\ Old.freelist \in pending[T]
    BY <1>1, <1>2 DEF FreelistInv
  <2>2. QED
    BY <1>5, <2>1 DEF FreeList, TypeOK
<1>8. \A p : p \in AllPending <=> p \in pending[T] \/ PendingBefore(p)
  BY <1>1 DEF AllPending, PendingBefore, TypeOK
<1>9. \A p \in Pages : p \in pending[T] => p < Old.pgid /\ p # n.freelist
  <2> SUFFICES ASSUME NEW p \in Pages, p \in pending[T] PROVE p < Old.pgid /\ p # n.freelist
    OBVIOUS
  <2>1. p \in Reach(Old) \cup {Old.freelist}
    BY <1>2 DEF FreeInv
  <2>2. p < Old.pgid /\ p \notin DOMAIN fresh
    BY <1>2, <2>1, Apart
  <2>3. QED
    BY <1>7, <2>2
<1>10. \A p \in Pages : p \in ids \/ PendingBefore(p) => p < Old.pgid /\ p # n.freelist
  BY <1>2, <1>7 DEF FreeInv, TreeOf
<1>11. Old.pgid <= n.pgid /\ Old.pgid \in Nat /\ n.pgid \in Nat
  BY <1>1, <1>2, Sizes DEF FreeInv, Finished
<1>12. \A p \in Pages : p < n.pgid <=> p \in Reach(n) \/ p = n.freelist \/ p \in ids \cup AllPending
  <2> SUFFICES ASSUME NEW p \in Pages
      PROVE  p < n.pgid <=> p \in Reach(n) \/ p = n.freelist \/ p \in ids \cup AllPending
    OBVIOUS
  <2>1. p \in DOMAIN fresh => p < n.pgid /\ (p \in Reach(n) \/ p = n.freelist)
    <3> HAVE p \in DOMAIN fresh
    <3>1. p >= Old.pgid => p < n.pgid
      BY <1>1, <1>2 DEF FreeInv
    <3>2. p = wtx.root \/ p = wtx.freelist \/ \E k \in Keys : kids[k] = p
      BY <1>2 DEF TxInv
    <3>3. p # 0 /\ p \in Nat
      BY Constants
    <3>4. QED
      BY <3>1, <3>2, <3>3, <1>1, <1>5, <1>11
  <2>2. p < n.pgid /\ p >= Old.pgid => p \in DOMAIN fresh
    BY <1>1, <1>2 DEF FreeInv
  <2>3. ASSUME p < Old.pgid
        PROVE  p < n.pgid /\ (p \in DOMAIN fresh \/ p \in Reach(n) \/ p \in ids \cup AllPending)
    <3>1. p < n.pgid
      BY <1>11, <2>3, Constants
    <3>2. p \in ReachOf(file, Old) \/ p = Old.freelist \/ p \in file[Old.freelist].ids
      BY <1>2, <2>3 DEF TreeOf
    <3>3. CASE p \in ReachOf(file, Old)
      <4>1. p = Old.root \/ \E k \in Keys : p = OldKids[k] /\ p # 0
        BY <3>3 DEF ReachOf, OldKids
      <4>2. QED
        BY <1>3, <1>4, <1>5, <1>8, <3>1, <4>1
    <3>4. CASE p = Old.freelist
      BY <1>7, <1>8, <3>1, <3>4
    <3>5. CASE p \in file[Old.freelist].ids
      BY <1>2, <1>8, <3>1, <3>5 DEF FreeInv
    <3>6. QED
      BY <3>2, <3>3, <3>4, <3>5
  <2>4. p \in Nat
    BY Constants
  <2>5. QED
    BY <2>1, <2>2, <2>3, <2>4, <1>6, <1>7, <1>8, <1>9, <1>10, <1>11
<1>13. \A p \in ids \cup AllPending : p \notin Reach(n) /\ p # n.freelist
  <2>1. \A p \in ids \cup AllPending : p \in Pages
    BY DEF AllPending, TypeOK
  <2>2. QED
    BY <1>6, <1>8, <1>9, <1>10, <2>1
<1>14. TreeOf(file, n)
  <2>1. \A j, k \in Keys : kids[j] = kids[k] => j = k \/ kids[k] = 0
    BY <1>2 DEF TxInv
  <2>2. QED
    BY <1>3, <1>4, <1>7, <1>12, <1>13, <2>1 DEF TreeOf, Reach
<1>15. \A k \in Keys : Contents(n)[k] = IF kids[k] \in DOMAIN fresh THEN stamp ELSE Contents(Old)[k]
  <2> SUFFICES ASSUME NEW k \in Keys
      PROVE  Contents(n)[k] = IF kids[k] \in DOMAIN fresh THEN stamp ELSE Contents(Old)[k]
    OBVIOUS
  <2>1. file[Old.root].kind = "branch" /\ file[Old.root].kids = OldKids
    BY <1>2 DEF TreeOf, OldKids
  <2>2. kids[k] # 0 => file[kids[k]].kind = "leaf"
    BY <1>4
  <2>3. CASE kids[k] \in DOMAIN fresh
    <3>1. OldKids[k] = 0 \/ OldKids[k] \in Reach(Old)
      BY <2>1 DEF Reach, ReachOf
    <3>2. kids[k] # 0 /\ kids[k] # OldKids[k]
      BY <1>2, <2>3, <3>1, Apart, Constants DEF TypeOK
    <3>3. file[kids[k]].val = stamp
      BY <1>4, <3>2 DEF Leaf
    <3>4. QED
      BY <1>3, <2>2, <2>3, <3>2, <3>3 DEF Contents, ContentsOf
  <2>4. CASE kids[k] \notin DOMAIN fresh
    <3>1. kids[k] = OldKids[k]
      BY <1>2, <2>4 DEF TxInv, KidInv
    <3>2. QED
      BY <1>3, <2>1, <2>2, <2>4, <3>1 DEF Contents, ContentsOf
  <2>5. QED
    BY <2>3, <2>4
<1>16. \A p \in Reach(n) : \A t \in Txids : p \notin pending[t]
  BY <1>6 DEF PendingBefore
<1>17. QED
  BY <1>6, <1>7, <1>14, <1>15, <1>16

-----------------------------------------------------------------------------
(* Every variable keeps its type.                                          *)

LEMMA NoTxMeta == NoTx \in Meta
BY Constants DEF NoTx, Meta

LEMMA PageTypes ==
  /\ NoKids \in [Keys -> Pages \cup {0}]
  /\ \A v \in Nat : Leaf(v) \in Content
  /\ \A c \in [Keys -> Pages \cup {0}] : Branch(c) \in Content
  /\ \A s \in SUBSET Pages : FreeList(s) \in Content
BY DEF NoKids, Leaf, Branch, FreeList, Content

LEMMA ContentsType ==
  ASSUME NEW f \in [Pages -> Content], NEW m, m.root \in Pages
  PROVE  ContentsOf(f, m) \in [Keys -> Nat]
<1> SUFFICES ASSUME NEW k \in Keys PROVE ContentsOf(f, m)[k] \in Nat
  BY DEF ContentsOf
<1>1. f[m.root].kids[k] \in Pages \cup {0}
  BY DEF Content
<1>2. \A p \in Pages : f[p].val \in Nat
  BY DEF Content
<1>3. QED
  BY <1>1, <1>2 DEF ContentsOf, Garbage, Absent

(* The page at the high water mark is inside the file.                     *)
LEMMA RoomLeft ==
  ASSUME TypeOK, MetaInv, SizeInv, wpc = "alloc"
  PROVE  /\ wtx.pgid + 1 <= NPages
         /\ wtx.pgid >= Old.pgid => wtx.pgid \in Pages
<1>1. Todo >= 1 /\ Todo \in Nat
  <2>1. Cardinality(dirty) \in Nat
    BY BoltAssumption, FS_Subset, FS_CardinalityType DEF TypeOK
  <2>2. QED
    BY <2>1 DEF Todo, Spilling
<1>2. stamp * PerTx <= MaxTx * PerTx /\ stamp * PerTx \in Nat /\ MaxTx * PerTx \in Nat
  BY Constants, Times DEF TypeOK
<1>3. wtx.pgid + Todo <= 4 + stamp * PerTx /\ wtx.pgid \in Nat /\ Old.pgid \in Nat /\ Old.pgid >= 4
  BY Sizes DEF SizeInv
<1>4. wtx.pgid + 1 <= NPages
  BY <1>1, <1>2, <1>3, Constants
<1>5. QED
  BY <1>3, <1>4, Constants

LEMMA PlaceType ==
  ASSUME TypeOK, NEW p \in Pages, NEW left \in SUBSET Pages, NEW pgid \in 0..NPages,
         wpc = "alloc", Place(p, left, pgid), item = "leaf" => dirty # {},
         mapped' \in MapSizes, remapping' \in BOOLEAN
  PROVE  TypeOK'
<1> USE DEF TypeOK
<1>1. UNCHANGED <<file, disk, meta, dmeta, pending, stamp, wrote, acked, metalock, rd, crashes>> /\ ids' = left
  BY DEF Place, WriterUnchanged, fileVars
<1>2. [wtx EXCEPT !.pgid = pgid] \in Meta /\ [wtx EXCEPT !.pgid = pgid, !.root = p] \in Meta
      /\ [wtx EXCEPT !.pgid = pgid, !.freelist = p] \in Meta
  BY DEF Meta
<1>3. AllPending \in SUBSET Pages /\ stamp \in Nat
  BY DEF AllPending
<1>4. CASE item = "leaf"
  <2> DEFINE k == Min(dirty)
  <2>1. k \in dirty /\ k \in Keys
    BY <1>4, MinProperty, BoltAssumption
  <2> HIDE DEF k
  <2>2. /\ fresh' = [q \in DOMAIN fresh \cup {p} |-> IF q = p THEN Leaf(stamp) ELSE fresh[q]]
        /\ kids' = [kids EXCEPT ![k] = p] /\ dirty' = dirty \ {k}
        /\ item' \in {"root", "leaf"} /\ wtx' = [wtx EXCEPT !.pgid = pgid] /\ wpc' = "spill"
    BY <1>4 DEF Place, k
  <2>3. QED
    BY <1>1, <1>2, <1>3, <2>1, <2>2, PageTypes
<1>5. CASE item = "root"
  <2>2. /\ fresh' = [q \in DOMAIN fresh \cup {p} |-> IF q = p THEN Branch(kids) ELSE fresh[q]]
        /\ UNCHANGED <<kids, dirty>>
        /\ item' = "freelist" /\ wtx' = [wtx EXCEPT !.pgid = pgid, !.root = p] /\ wpc' = "spill"
    BY <1>5 DEF Place
  <2>3. QED
    BY <1>1, <1>2, <1>3, <2>2, PageTypes
<1>6. CASE item = "freelist"
  <2>2. /\ fresh' = [q \in DOMAIN fresh \cup {p} |-> IF q = p THEN FreeList(left \cup AllPending) ELSE fresh[q]]
        /\ UNCHANGED <<kids, dirty, item>>
        /\ wtx' = [wtx EXCEPT !.pgid = pgid, !.freelist = p] /\ wpc' = "write"
    BY <1>6 DEF Place
  <2>3. FreeList(left \cup AllPending) \in Content
    BY <1>3, PageTypes
  <2>4. QED
    BY <1>1, <1>2, <1>3, <2>2, <2>3
<1>7. QED
  BY <1>4, <1>5, <1>6

-----------------------------------------------------------------------------
(* What a crash leaves.                                                    *)

LEMMA TornMeta ==
  ASSUME NEW m \in Meta
  PROVE  Torn(m) \in Meta /\ Torn(m).txid = m.txid /\ ~Torn(m).valid
BY DEF Torn, Meta

(* It leaves the old meta page, or the new one when its tree is on disk.   *)
LEMMA CrashMeta ==
  ASSUME TypeOK, WInv, NEW S \in SUBSET Lost, NEW m0 \in MetaLeft(0), NEW m1 \in MetaLeft(1),
         Crash(S, m0, m1)
  PROVE  /\ dmeta' \in [0..1 -> Meta] /\ meta' = dmeta'
         /\ \A i \in 0..1 : dmeta'[i].txid % 2 = i
         /\ \E i \in 0..1 : Counts(dmeta', i) /\ Old' = dmeta'[i]
         /\ Old' = Old \/ (wpc = "metasync" /\ Old' = NewMeta)
         /\ file' \in [Pages -> Content] /\ disk' = file'
         /\ TreeOf(file', Old')
         /\ \/ ContentsOf(file', Old') = Contents(Old)
            \/ wpc = "metasync" /\ ContentsOf(file', Old') = Contents(NewMeta)
<1>1. /\ meta \in [0..1 -> Meta] /\ dmeta \in [0..1 -> Meta] /\ 0 \in 0..1 /\ 1 \in 0..1
      /\ file \in [Pages -> Content] /\ disk \in [Pages -> Content]
  BY DEF TypeOK
<1>2. \A i \in 0..1 : meta[i].txid % 2 = i /\ dmeta[i].txid % 2 = i
  BY DEF WInv, MetaInv
<1>3. \A i \in 0..1 : \A x \in MetaLeft(i) :
         /\ x \in Meta /\ x.txid % 2 = i
         /\ x = meta[i] \/ x = dmeta[i] \/ ~x.valid
         /\ meta[i] = dmeta[i] => x = meta[i]
  BY <1>1, <1>2, TornMeta DEF MetaLeft
<1>4. /\ meta' = dmeta' /\ disk' = file'
      /\ dmeta' = [i \in 0..1 |-> IF i = 0 THEN m0 ELSE m1]
      /\ file' = [p \in Pages |-> IF p \in S THEN disk[p] ELSE file[p]]
  BY DEF Crash
<1>5. dmeta'[0] \in MetaLeft(0) /\ dmeta'[1] \in MetaLeft(1)
  BY <1>4
<1>6. /\ dmeta' \in [0..1 -> Meta]
      /\ \A i \in 0..1 : /\ dmeta'[i].txid % 2 = i
                         /\ dmeta'[i] = meta[i] \/ dmeta'[i] = dmeta[i] \/ ~dmeta'[i].valid
                         /\ meta[i] = dmeta[i] => dmeta'[i] = meta[i]
  <2>1. m0 \in Meta /\ m1 \in Meta
    BY <1>3
  <2>2. dmeta' \in [0..1 -> Meta]
    BY <1>4, <2>1
  <2>3. \A i \in 0..1 : i = 0 \/ i = 1
    OBVIOUS
  <2>4. QED
    BY <1>3, <1>5, <2>2, <2>3
<1>7. file' \in [Pages -> Content]
  BY <1>1, <1>4
<1>8. PICK i \in 0..1 :
         /\ Old = dmeta[i] /\ Old = meta[i] /\ Old.valid /\ Counts(dmeta, i)
         /\ wpc # "metasync" => Counts(meta, i)
         /\ wpc = "metasync" => meta[1 - i] = NewMeta /\ Counts(meta, 1 - i)
         /\ 1 - i \in 0..1 /\ 1 - (1 - i) = i
  BY MetaFacts DEF WInv
<1>9. \A p \in Pages : file[p] = disk[p] => file'[p] = file[p]
  BY <1>1, <1>4
<1>10. dmeta'[i] = Old
  BY <1>6, <1>8
<1>11. CASE wpc = "metasync" /\ dmeta'[1 - i] = NewMeta
  <2>1. Counts(dmeta', 1 - i)
    BY <1>8, <1>10, <1>11 DEF Counts
  <2>2. Old' = NewMeta
    BY <1>6, <1>8, <1>11, <2>1, CountsMeta DEF Old
  <2>3. file' = file
    <3>1. disk = file
      BY <1>11 DEF WInv, DurableInv, Synced
    <3>2. QED
      BY <1>1, <1>4, <3>1
  <2>4. TreeOf(file', NewMeta)
    BY <1>11, <2>3, NewTree
  <2>5. QED
    BY <1>4, <1>6, <1>7, <1>8, <1>11, <2>1, <2>2, <2>3, <2>4 DEF Contents
<1>12. CASE ~(wpc = "metasync" /\ dmeta'[1 - i] = NewMeta)
  <2>1. Counts(dmeta', i)
    BY <1>6, <1>8, <1>10, <1>12 DEF Counts
  <2>2. Old' = Old
    BY <1>6, <1>10, <2>1, CountsMeta DEF Old
  <2>3. \A p \in ReachOf(file, Old) \cup {Old.freelist} : p \in Pages /\ file'[p] = file[p]
    BY <1>9, Apart DEF WInv, DurableInv, Reach
  <2>4. TreeOf(file', Old)
    BY <2>3, SameTree DEF WInv
  <2>5. ContentsOf(file', Old) = Contents(Old)
    BY <2>3, SameReach DEF Contents
  <2>6. QED
    BY <1>4, <1>6, <1>7, <1>10, <2>1, <2>2, <2>4, <2>5
<1>13. QED
  BY <1>11, <1>12

-----------------------------------------------------------------------------
(* Steps of the readers, and the wait for the mapping.                     *)

LEMMA ReaderSteps ==
  ASSUME IInv, NEW r \in Readers, BeginTxLock(r) \/ Reader(r)
  PROVE  IInv'
<1>1. UNCHANGED Writers /\ UNCHANGED <<mapped, remapping, crashes>>
  BY DEF Reader, BeginTxLock, BeginTx, RemoveTxUnlock, RemoveTx, ReaderUnchanged, Writers,
         fileVars, freeVars, writerVars
<1>2. TypeOK /\ WInv /\ RemapInv /\ \A q \in Txs : ReaderInv(q)
  BY DEF IInv
<1>3. WInv' /\ \A q \in Readers : rd'[q].meta = rd[q].meta /\ ReaderInv(q) => ReaderInv(q)'
  BY <1>1, <1>2, WriterKept
<1>4. RemapInv'
  BY <1>1, <1>2 DEF RemapInv, MustGrow, Writers, freeVars, writerVars
<1>5. \A f : f \in [pc : {"idle", "locked", "open", "closing"}, meta : Meta] =>
               [f EXCEPT !.pc = "locked"] \in [pc : {"idle", "locked", "open", "closing"}, meta : Meta]
  OBVIOUS
<1>6. DbMeta \in Meta
  <2>1. MetaOf(meta) \in {meta[0], meta[1]}
    BY DEF MetaOf
  <2>2. meta[0] \in Meta /\ meta[1] \in Meta
    BY <1>2 DEF TypeOK
  <2>3. QED
    BY <2>1, <2>2 DEF DbMeta
<1>7. TypeOK'
  <2>1. rd' \in [Readers -> [pc : {"idle", "locked", "open", "closing"}, meta : Meta]]
        /\ metalock' \in Readers \cup {"free"}
    BY <1>2, <1>6, NoTxMeta DEF TypeOK, Reader, BeginTxLock, BeginTx, RemoveTxUnlock, RemoveTx
  <2>2. QED
    BY <1>1, <1>2, <2>1 DEF TypeOK, Writers, fileVars, freeVars, writerVars
<1>8. \A q \in Txs' : (q # r \/ ~BeginTx(r)) => q \in Txs /\ rd'[q].meta = rd[q].meta
  <2>1. rd \in [Readers -> [pc : {"idle", "locked", "open", "closing"}, meta : Meta]]
    BY <1>2 DEF TypeOK
  <2>2. CASE BeginTxLock(r)
    BY <2>1, <2>2 DEF BeginTxLock, Txs
  <2>3. CASE BeginTx(r)
    BY <2>1, <2>3 DEF BeginTx, Txs
  <2>4. CASE RemoveTxUnlock(r)
    BY <2>1, <2>4 DEF RemoveTxUnlock, Txs
  <2>5. CASE RemoveTx(r)
    BY <2>1, <2>5 DEF RemoveTx, Txs
  <2>6. QED
    BY <2>2, <2>3, <2>4, <2>5 DEF Reader
<1>9. ASSUME BeginTx(r) PROVE ReaderInv(r)'
  <2> DEFINE m == DbMeta
  <2>1. rd'[r].meta = m
    BY <1>2, <1>9 DEF BeginTx, TypeOK
  <2>2. DbMeta' = DbMeta /\ file' = file
    BY <1>1 DEF DbMeta, MetaOf, Writers, fileVars
  <2>3. /\ m.root \in Pages
        /\ \A p \in Reach(m) : /\ p \notin ids /\ p < m.pgid
                               /\ wpc # "metasync" => p \notin DOMAIN fresh
                               /\ \A t \in Txids : p \in pending[t] => t > m.txid
    <3>1. CASE wpc # "metasync"
      <4>1. m = Old /\ TreeOf(file, Old) /\ MetaInv /\ FreeInv
        BY <1>2, <3>1, MetaFacts DEF WInv
      <4>2. \A p \in Reach(Old) : p < Old.pgid /\ p \notin ids /\ ~PendingBefore(p) /\ p \notin DOMAIN fresh
        BY <1>2, <4>1, Apart
      <4>3. pending[T] # {} => T > Old.txid
        BY <1>2, <4>1, Sizes DEF MetaInv, FreeInv
      <4>4. QED
        BY <4>1, <4>2, <4>3 DEF PendingBefore, TreeOf
    <3>2. CASE wpc = "metasync"
      <4>1. m = NewMeta
        BY <1>2, <3>2, MetaFacts DEF WInv
      <4>2. QED
        BY <1>2, <3>2, <4>1, NewTree DEF TreeOf
    <3>3. QED
      BY <3>1, <3>2
  <2>4. m.txid <= m.txid
    BY <1>6, MetaTypes
  <2>5. UNCHANGED <<ids, pending, wpc, fresh>>
    BY <1>1 DEF Writers, freeVars, writerVars
  <2>6. QED
    BY <2>1, <2>2, <2>3, <2>4, <2>5 DEF ReaderInv, Reach
<1>10. \A q \in Txs' : ReaderInv(q)'
  <2>1. Txs' \subseteq Readers
    BY DEF Txs
  <2>2. QED
    BY <1>2, <1>3, <1>8, <1>9, <2>1
<1>11. QED
  BY <1>3, <1>4, <1>7, <1>10 DEF IInv

LEMMA RemapWaitStep ==
  ASSUME IInv, RemapWait
  PROVE  IInv'
<1>1. /\ UNCHANGED Writers /\ UNCHANGED <<mapped, crashes, rd, metalock>> /\ remapping' = TRUE
      /\ wpc = "alloc" /\ ids = {} /\ MustGrow
  BY DEF RemapWait, WriterUnchanged, Writers, fileVars, freeVars, writerVars
<1>2. TypeOK /\ WInv /\ \A q \in Txs : ReaderInv(q)
  BY DEF IInv
<1>3. WInv' /\ \A q \in Readers : rd'[q].meta = rd[q].meta /\ ReaderInv(q) => ReaderInv(q)'
  BY <1>1, <1>2, WriterKept
<1>4. TypeOK' /\ RemapInv'
  BY <1>1, <1>2 DEF TypeOK, RemapInv, MustGrow, Writers, fileVars, freeVars, writerVars
<1>5. Txs' = Txs /\ Txs \subseteq Readers
  BY <1>1 DEF Txs
<1>6. QED
  BY <1>1, <1>2, <1>3, <1>4, <1>5 DEF IInv

-----------------------------------------------------------------------------
(* What the steps of the writer leave alone.                               *)

LEMMA ReadersKept ==
  ASSUME IInv, rd' = rd, DbMeta'.txid >= DbMeta.txid, DbMeta'.pgid >= DbMeta.pgid, DbMeta' \in Meta,
         \A r \in Txs : \A p \in Reach(rd[r].meta) :
           /\ file'[p] = file[p] /\ p \notin ids'
           /\ wpc' # "metasync" => p \notin DOMAIN fresh'
           /\ \A t \in Txids : p \in pending'[t] => t > rd[r].meta.txid
  PROVE  \A r \in Txs' : ReaderInv(r)'
<1> SUFFICES ASSUME NEW r \in Txs' PROVE ReaderInv(r)'
  OBVIOUS
<1> DEFINE m == rd[r].meta
<1>1. r \in Txs /\ r \in Readers /\ rd'[r].meta = m
  BY DEF Txs
<1>2. ReaderInv(r) /\ TypeOK
  BY <1>1 DEF IInv
<1>3. ReachOf(file', m) = ReachOf(file, m)
  BY <1>1, SameReach DEF Reach
<1>4. m.txid \in Nat /\ DbMeta.txid \in Nat /\ DbMeta.pgid \in Nat
      /\ DbMeta'.txid \in Nat /\ DbMeta'.pgid \in Nat
  <2>1. MetaOf(meta) \in {meta[0], meta[1]}
    BY DEF MetaOf
  <2>2. DbMeta \in Meta /\ m \in Meta
    BY <1>1, <1>2, <2>1 DEF TypeOK, DbMeta
  <2>3. QED
    BY <2>2, MetaTypes
<1>5. ReachOf(file, m) \subseteq Nat
  <2>1. m.root \in Pages /\ file \in [Pages -> Content] /\ Pages \subseteq Nat
    BY <1>2, Constants DEF ReaderInv, TypeOK
  <2>2. QED
    BY <2>1, ReachPages
<1>6. m.txid <= DbMeta'.txid
  BY <1>2, <1>4 DEF ReaderInv
<1>7. \A p \in ReachOf(file, m) : p < DbMeta'.pgid
  BY <1>2, <1>4, <1>5 DEF ReaderInv, Reach
<1>8. QED
  BY <1>1, <1>2, <1>3, <1>6, <1>7 DEF ReaderInv, Reach

LEMMA OldSame ==
  ASSUME TreeOf(file, Old), Old' = Old,
         \A p \in Reach(Old) \cup {Old.freelist} : file'[p] = file[p]
  PROVE  /\ OldKids' = OldKids /\ Reach(Old)' = Reach(Old) /\ TreeOf(file', Old')
         /\ file'[Old.freelist] = file[Old.freelist] /\ Contents(Old)' = Contents(Old)
<1>1. \A p \in ReachOf(file, Old) : file'[p] = file[p]
  BY DEF Reach
<1>2. ReachOf(file', Old) = ReachOf(file, Old) /\ ContentsOf(file', Old) = ContentsOf(file, Old)
  BY <1>1, SameReach
<1>3. TreeOf(file', Old)
  BY <1>1, SameTree
<1>4. file'[Old.root] = file[Old.root]
  BY <1>1 DEF ReachOf
<1>5. QED
  BY <1>2, <1>3, <1>4 DEF Reach, Contents, OldKids

(* In a step of the writer before it writes the meta page.                 *)
LEMMA MetaKept ==
  ASSUME TypeOK, MetaInv, UNCHANGED <<meta, dmeta, stamp>>, wtx'.txid = wtx.txid,
         wpc \notin {"idle", "metasync"}, wpc' \notin {"idle", "metasync"}
  PROVE  MetaInv' /\ Old' = Old /\ DbMeta' = DbMeta /\ DbMeta = Old /\ T' = T /\ DbMeta \in Meta
<1>1. Old' = Old /\ DbMeta' = DbMeta /\ T' = T
  BY DEF Old, DbMeta, T, MetaOf
<1>2. DbMeta = Old /\ Old \in Meta
  BY MetaFacts, Sizes
<1>3. MetaInv'
  BY <1>1 DEF MetaInv, Counts
<1>4. QED
  BY <1>1, <1>2, <1>3

-----------------------------------------------------------------------------
(* The write transaction begins.                                           *)

LEMMA BeginRWTxStep ==
  ASSUME IInv, BeginRWTx
  PROVE  IInv'
<1>1. /\ TypeOK /\ WInv /\ RemapInv /\ MetaInv /\ TreeOf(file, Old) /\ FreeInv /\ DurableInv /\ SizeInv
      /\ wpc = "idle" /\ IdleInv /\ \A r \in Txs : ReaderInv(r)
  BY DEF IInv, WInv, BeginRWTx
<1>2. /\ UNCHANGED <<file, disk, meta, dmeta, mapped, remapping, wrote, acked, metalock, rd, crashes>>
      /\ wpc' = "open" /\ dirty' = {} /\ fresh' = <<>> /\ item' = "leaf" /\ stamp' = stamp + 1
      /\ stamp < MaxTx
  BY DEF BeginRWTx, fileVars, WriterUnchanged
<1>3. Old' = Old /\ DbMeta' = DbMeta /\ DbMeta = Old /\ Old \in Meta /\ T = 0
  <2>1. Old' = Old /\ DbMeta' = DbMeta
    BY <1>2 DEF Old, DbMeta, MetaOf
  <2>2. QED
    BY <1>1, <2>1, MetaFacts, Sizes DEF MetaInv
<1>4. /\ wtx' = [Old EXCEPT !.txid = @ + 1] /\ kids' = OldKids
      /\ ids' = ids \cup UNION {pending[t] : t \in Released}
      /\ pending' = [t \in Txids |-> IF t \in Released THEN {} ELSE pending[t]]
  BY <1>1, <1>3 DEF BeginRWTx, OldKids, TypeOK
<1>5. Released \subseteq Txids /\ \A t \in Released : \A r \in Txs : t < rd[r].meta.txid
  BY <1>1 DEF Released, TypeOK
<1>6. /\ Old.txid \in Nat /\ stamp \in Nat /\ MaxTx \in Nat /\ Old.txid <= stamp + 1 /\ Old.txid > 0
      /\ Old.txid + 1 \in Txids
  <2>1. Old.txid \in Nat /\ stamp \in Nat /\ MaxTx \in Nat /\ Old.txid <= stamp + 1 /\ Old.txid > 0
    BY <1>1, Sizes, Constants DEF MetaInv, TypeOK
  <2>2. QED
    BY <1>2, <2>1, Constants
<1>7. /\ wtx' \in Meta /\ T' = Old.txid + 1 /\ wtx'.pgid = Old.pgid /\ wtx'.root = Old.root
      /\ wtx'.freelist = Old.freelist
  BY <1>3, <1>4, <1>6 DEF Meta, T
<1>8. OldKids' = OldKids /\ OldKids \in [Keys -> Pages \cup {0}] /\ DOMAIN fresh' = {}
  BY <1>1, <1>2, <1>3 DEF OldKids, TreeOf, TypeOK, Content
<1>9. TypeOK'
  <2>1. ids' \in SUBSET Pages /\ pending' \in [Txids -> SUBSET Pages]
    BY <1>1, <1>4, <1>5 DEF TypeOK
  <2>2. stamp' \in 0..MaxTx
    BY <1>2, <1>6
  <2>3. QED
    BY <1>1, <1>2, <1>4, <1>7, <1>8, <2>1, <2>2 DEF TypeOK
<1>10. MetaInv'
  BY <1>1, <1>2, <1>3, <1>6, <1>7 DEF MetaInv, Counts
<1>11. /\ pending[T'] = {} /\ pending'[T'] = {} /\ T' \in Txids /\ T' # 0
       /\ \A p : PendingBefore(p) <=> \E t \in Txids : p \in pending[t]
  BY <1>1, <1>3, <1>4, <1>6, <1>7 DEF FreeInv, PendingBefore
<1>12. \A p : PendingBefore(p)' <=> \E t \in Txids : p \in pending[t] /\ t \notin Released
  <2>1. \A p : PendingBefore(p)' <=> \E t \in Txids : t # T' /\ p \in pending'[t]
    BY DEF PendingBefore
  <2>2. QED
    BY <1>4, <1>11, <2>1
<1>13. \A p : p \in ids' <=> p \in ids \/ \E t \in Released : p \in pending[t]
  BY <1>4
<1>14. FreeInv'
  <2>1. \A p \in Pages :
          p \in file[Old.freelist].ids <=> p \in ids' \/ PendingBefore(p)'
    <3>1. \A p \in Pages : p \in file[Old.freelist].ids <=> p \in ids \/ PendingBefore(p)
      BY <1>1 DEF FreeInv, IdleInv
    <3>2. QED
      BY <1>5, <1>11, <1>12, <1>13, <3>1
  <2>2. \A t, u \in Txids : t # u => pending[t] \cap pending[u] = {}
    BY <1>1 DEF FreeInv
  <2>3. \A p \in Pages : p \in ids' => ~PendingBefore(p)'
    <3>1. \A p \in Pages : p \in ids => ~PendingBefore(p)
      BY <1>1 DEF FreeInv
    <3>2. QED
      BY <1>5, <1>11, <1>12, <1>13, <2>2, <3>1
  <2>4. \A t, u \in Txids : t # u => pending'[t] \cap pending'[u] = {}
    BY <1>4, <2>2
  <2>5. pending'[0] = {} /\ \A t \in Txids : t > Old.txid /\ t # T' => pending'[t] = {}
    <3>1. pending[0] = {} /\ 0 \in Txids
      BY <1>1, Constants DEF FreeInv
    <3>2. \A t \in Txids : t > Old.txid => pending[t] = {}
      BY <1>1, <1>3, <1>6 DEF FreeInv
    <3>3. QED
      BY <1>4, <3>1, <3>2
  <2>6. \A p \in Pages : p >= Old.pgid => ~(p < Old.pgid)
    BY <1>1, Sizes, Constants
  <2>7. Old.pgid <= Old.pgid
    BY <1>1, Sizes
  <2>8. QED
    BY <1>2, <1>3, <1>7, <1>8, <1>11, <2>1, <2>3, <2>4, <2>5, <2>6, <2>7 DEF FreeInv
<1>15. DurableInv' /\ TreeOf(file', Old')
  BY <1>1, <1>2, <1>3 DEF DurableInv, Reach, Contents, Synced
<1>16. SizeInv'
  <2>1. (stamp + 1) * PerTx = stamp * PerTx + PerTx /\ stamp * PerTx \in Nat /\ PerTx \in Nat
    BY <1>6, Times, Constants
  <2>2. Old.pgid \in Nat /\ Old.pgid >= 4 /\ Old.pgid <= 4 + stamp * PerTx
    BY <1>1, Sizes DEF SizeInv
  <2>3. Todo' = PerTx
    BY <1>2 DEF Todo, PerTx
  <2>4. stamp' - 1 = stamp
    BY <1>2, <1>6
  <2>5. Old'.pgid <= 4 + (stamp' - 1) * PerTx /\ wtx'.pgid + Todo' <= 4 + stamp' * PerTx /\ stamp' > 0
    BY <1>2, <1>3, <1>6, <1>7, <2>1, <2>2, <2>3, <2>4
  <2>6. QED
    BY <1>2, <1>3, <2>2, <2>5 DEF SizeInv
<1>17. TxInv'
  <2>1. \A j, k \in Keys : OldKids[j] = OldKids[k] => j = k \/ OldKids[k] = 0
    BY <1>1 DEF TreeOf, OldKids
  <2>2. ~Finished'
    BY <1>2 DEF Finished
  <2>3. \A k \in Keys : KidInv(k)'
    BY <1>4, <1>8, <1>11 DEF KidInv
  <2>4. RootInv' /\ FreelistInv'
    BY <1>2, <1>3, <1>7, <1>11, <2>2 DEF RootInv, OldRoot, FreelistInv
  <2>5. QED
    BY <1>2, <1>4, <1>8, <1>11, <2>1, <2>2, <2>3, <2>4 DEF TxInv
<1>18. RemapInv'
  BY <1>1, <1>2 DEF RemapInv
<1>19. \A r \in Txs' : ReaderInv(r)'
  <2>1. \A r \in Txs : \A p \in Reach(rd[r].meta) :
           /\ p \notin ids'
           /\ \A t \in Txids : p \in pending'[t] => t > rd[r].meta.txid
    <3> SUFFICES ASSUME NEW r \in Txs, NEW p \in Reach(rd[r].meta)
                 PROVE  p \notin ids' /\ \A t \in Txids : p \in pending'[t] => t > rd[r].meta.txid
      OBVIOUS
    <3>1. p \notin ids /\ \A t \in Txids : p \in pending[t] => t > rd[r].meta.txid
      BY <1>1 DEF ReaderInv
    <3>2. rd[r].meta.txid \in Nat
      BY <1>1, MetaTypes DEF Txs, TypeOK
    <3>3. \A t \in Released : p \notin pending[t]
      BY <1>5, <3>1, <3>2, Constants
    <3>4. QED
      BY <1>4, <1>13, <3>1, <3>3
  <2>2. DbMeta.txid >= DbMeta.txid /\ DbMeta.pgid >= DbMeta.pgid
    BY <1>3, MetaTypes
  <2>3. QED
    BY <1>2, <1>3, <1>8, <2>1, <2>2, ReadersKept
<1>20. QED
  BY <1>2, <1>9, <1>10, <1>14, <1>15, <1>16, <1>17, <1>18, <1>19 DEF IInv, WInv

LEMMA CommitStep ==
  ASSUME IInv, NEW D \in SUBSET Keys, Commit(D)
  PROVE  IInv'
<1>1. /\ TypeOK /\ RemapInv /\ MetaInv /\ TreeOf(file, Old) /\ FreeInv /\ DurableInv /\ SizeInv
      /\ wpc = "open" /\ TxInv /\ \A r \in Txs : ReaderInv(r)
  BY DEF IInv, WInv, Commit
<1>2. /\ UNCHANGED <<file, disk, meta, dmeta, ids, pending, mapped, remapping, wtx, fresh, kids,
                     stamp, acked, metalock, rd, crashes>>
      /\ wpc' = "spill" /\ dirty' = D
      /\ D = {} => item' = "freelist"
      /\ D # {} => item' = "leaf"
  BY DEF Commit, fileVars, freeVars, WriterUnchanged
<1>3. TypeOK'
  <2>1. Contents(DbMeta) \in [Keys -> Nat] /\ stamp \in Nat
    BY <1>1, MetaFacts, ContentsType DEF Contents, TypeOK, TreeOf
  <2>2. wrote' \in [Keys -> Nat]
    BY <2>1 DEF Commit
  <2>3. QED
    BY <1>1, <1>2, <2>2 DEF TypeOK
<1>4. MetaInv' /\ Old' = Old /\ DbMeta' = DbMeta /\ DbMeta = Old /\ T' = T /\ DbMeta \in Meta
  BY <1>1, <1>2, MetaKept
<1>5. TreeOf(file', Old') /\ DurableInv'
  BY <1>1, <1>2, <1>4 DEF DurableInv, Reach, Contents, Synced
<1>6. FreeInv'
  <2>1. \A p : PendingBefore(p)' <=> PendingBefore(p)
    BY <1>2, <1>4 DEF PendingBefore
  <2>2. QED
    BY <1>1, <1>2, <1>4, <2>1 DEF FreeInv, Reach
<1>7. SizeInv'
  <2>1. Cardinality(D) \in Nat /\ Cardinality(D) + 2 <= PerTx /\ PerTx \in Nat /\ PerTx >= 2
    BY Constants, FS_Subset, FS_CardinalityType DEF PerTx
  <2>2. Todo' \in Nat /\ Todo' <= PerTx
    BY <1>2, <2>1 DEF Todo, Spilling
  <2>3. /\ Old.pgid >= 4 /\ Old.pgid <= 4 + (stamp - 1) * PerTx /\ stamp > 0
        /\ wtx.pgid + PerTx <= 4 + stamp * PerTx
    BY <1>1 DEF SizeInv, Todo
  <2>4. wtx.pgid \in Nat /\ stamp * PerTx \in Nat
    BY <1>1, <2>1, Sizes, Times DEF TypeOK
  <2>5. wtx'.pgid + Todo' <= 4 + stamp * PerTx
    BY <1>2, <2>1, <2>2, <2>3, <2>4
  <2>6. QED
    BY <1>2, <1>4, <2>3, <2>5 DEF SizeInv
<1>8. TxInv'
  <2>1. /\ ~Finished /\ ~Finished' /\ OldKids' = OldKids /\ item = "leaf" /\ DOMAIN fresh = {}
        /\ pending[T] = {} /\ RootInv /\ FreelistInv
    BY <1>1, <1>2, <1>4 DEF Finished, OldKids, TxInv
  <2>2. \A k \in Keys : kids[k] = OldKids[k]
    BY <1>1, <2>1 DEF TxInv, KidInv
  <2>3. kids = OldKids
    <3>1. kids \in [Keys -> Pages \cup {0}] /\ OldKids \in [Keys -> Pages \cup {0}]
      BY <1>1 DEF TypeOK, OldKids, TreeOf, Content
    <3>2. QED
      BY <2>2, <3>1
  <2>4. \A k \in Keys : KidInv(k)'
    BY <1>2, <1>4, <2>1, <2>2 DEF KidInv
  <2>5. RootInv' /\ FreelistInv'
    BY <1>2, <1>4, <2>1, <2>3 DEF RootInv, OldRoot, FreelistInv
  <2>6. QED
    BY <1>1, <1>2, <2>1, <2>4, <2>5 DEF TxInv
<1>9. RemapInv'
  BY <1>1, <1>2 DEF RemapInv
<1>10. \A r \in Txs' : ReaderInv(r)'
  <2>1. DbMeta.txid >= DbMeta.txid /\ DbMeta.pgid >= DbMeta.pgid
    BY <1>4, MetaTypes
  <2>2. QED
    BY <1>1, <1>2, <1>4, <2>1, ReadersKept DEF ReaderInv
<1>11. QED
  BY <1>2, <1>3, <1>4, <1>5, <1>6, <1>7, <1>8, <1>9, <1>10 DEF IInv, WInv

-----------------------------------------------------------------------------
(* The page that is replaced belongs to the old tree, and was not replaced *)
(* before.                                                                 *)

LEMMA ReplacedOld ==
  ASSUME TypeOK, WInv, wpc = "spill"
  PROVE  /\ Replaced \subseteq Reach(Old) \cup {Old.freelist}
         /\ Replaced \cap pending[T] = {}
         /\ \A k \in Keys : kids[k] \in Replaced => item = "leaf" /\ k = Min(dirty)
         /\ Old.root \in Replaced => item = "root"
         /\ Old.freelist \in Replaced => item = "freelist"
         /\ \A k \in Keys : kids[k] \in pending[T] => kids[k] \in DOMAIN fresh
<1>1. /\ MetaInv /\ TreeOf(file, Old) /\ FreeInv /\ TxInv /\ RootInv /\ FreelistInv /\ ~Finished
      /\ \A j, k \in Keys : kids[j] = kids[k] => j = k \/ kids[k] = 0
  BY DEF WInv, TxInv, Finished
<1>2. Old.root \in Pages /\ Old.freelist \in Pages /\ Old.freelist \notin Reach(Old) /\ Old.root \in Reach(Old)
      /\ Old.root # Old.freelist
  BY <1>1 DEF TreeOf, Reach, ReachOf
<1>3. \A k \in Keys : OldKids[k] # Old.root /\ OldKids[k] # Old.freelist
                      /\ (OldKids[k] = 0 \/ OldKids[k] \in Reach(Old))
  BY <1>1, <1>2, Constants DEF TreeOf, OldKids, Reach, ReachOf
<1>4. \A k \in Keys : \/ kids[k] = OldKids[k] /\ kids[k] \notin pending[T]
                      \/ kids[k] \in DOMAIN fresh /\ k \notin dirty
  BY <1>1 DEF TxInv, KidInv
<1>5. \A p \in DOMAIN fresh : p \notin Reach(Old) \cup {Old.freelist}
  BY <1>1, Apart
<1>6. CASE item = "leaf"
  <2> DEFINE i == Min(dirty)
  <2>1. i \in dirty /\ i \in Keys
    <3>1. dirty # {} /\ dirty \subseteq Nat /\ dirty \subseteq Keys
      BY <1>1, <1>6, BoltAssumption DEF TxInv, TypeOK
    <3>2. QED
      BY <3>1, MinProperty
  <2> HIDE DEF i
  <2>2. Replaced = {kids[i]} \ {0}
    BY <1>6 DEF Replaced, i
  <2>3. kids[i] = OldKids[i] /\ kids[i] \notin pending[T]
    BY <1>4, <2>1
  <2>4. \A k \in Keys : kids[k] \in Replaced => k = i
    BY <1>1, <2>1, <2>2
  <2>5. QED
    BY <1>2, <1>3, <1>4, <1>6, <2>1, <2>2, <2>3, <2>4 DEF i
<1>7. CASE item = "root"
  <2>1. Replaced = {Old.root} /\ Old.root \notin pending[T]
    BY <1>1, <1>7 DEF Replaced, RootInv, OldRoot
  <2>2. QED
    BY <1>2, <1>3, <1>4, <1>5, <1>7, <2>1
<1>8. CASE item = "freelist"
  <2>1. Replaced = {Old.freelist} /\ Old.freelist \notin pending[T]
    BY <1>1, <1>8 DEF Replaced, FreelistInv
  <2>2. QED
    BY <1>2, <1>3, <1>4, <1>5, <1>8, <2>1
<1>9. QED
  BY <1>6, <1>7, <1>8 DEF TypeOK

LEMMA SpillStep ==
  ASSUME IInv, Spill
  PROVE  IInv'
<1>1. /\ TypeOK /\ WInv /\ RemapInv /\ MetaInv /\ TreeOf(file, Old) /\ FreeInv /\ DurableInv /\ SizeInv
      /\ wpc = "spill" /\ TxInv /\ \A r \in Txs : ReaderInv(r)
  BY DEF IInv, WInv, Spill
<1>2. /\ UNCHANGED <<file, disk, meta, dmeta, ids, mapped, remapping, wtx, fresh, kids, dirty, item,
                     stamp, wrote, acked, metalock, rd, crashes>>
      /\ wpc' = "alloc" /\ pending' = [pending EXCEPT ![T] = @ \cup Replaced]
  BY DEF Spill, fileVars, WriterUnchanged, T
<1>3. MetaInv' /\ Old' = Old /\ DbMeta' = DbMeta /\ DbMeta = Old /\ T' = T /\ DbMeta \in Meta
  BY <1>1, <1>2, MetaKept
<1>4. T \in Txids /\ T = Old.txid + 1 /\ Old.txid \in Nat /\ T # 0
  BY <1>1, Sizes DEF MetaInv
<1>5. \A p \in Reach(Old) \cup {Old.freelist} : p \in Pages /\ ~PendingBefore(p) /\ p \notin DOMAIN fresh
  BY <1>1, Apart
<1>6. \A p \in Replaced : p \in Reach(Old) \cup {Old.freelist}
  BY <1>1, ReplacedOld
<1>7. /\ pending'[T] = pending[T] \cup Replaced /\ pending' \in [Txids -> SUBSET Pages]
      /\ \A t \in Txids : t # T => pending'[t] = pending[t]
  BY <1>1, <1>2, <1>4, <1>5, <1>6 DEF TypeOK
<1>8. TypeOK'
  BY <1>1, <1>2, <1>7 DEF TypeOK
<1>9. TreeOf(file', Old') /\ DurableInv'
  BY <1>1, <1>2, <1>3 DEF DurableInv, Reach, Contents, Synced
<1>10. FreeInv'
  <2>1. \A p : PendingBefore(p)' <=> PendingBefore(p)
    BY <1>3, <1>7 DEF PendingBefore
  <2>2. \A t, u \in Txids : t # u => pending'[t] \cap pending'[u] = {}
    <3>1. \A t, u \in Txids : t # u => pending[t] \cap pending[u] = {}
      BY <1>1 DEF FreeInv
    <3>2. \A t \in Txids : t # T => Replaced \cap pending[t] = {}
      BY <1>5, <1>6 DEF PendingBefore
    <3>3. QED
      BY <1>4, <1>7, <3>1, <3>2
  <2>3. pending'[T] \subseteq Reach(Old) \cup {Old.freelist}
    BY <1>1, <1>6, <1>7 DEF FreeInv
  <2>4. pending'[0] = {} /\ 0 \in Txids
    BY <1>1, <1>4, <1>7, Constants DEF FreeInv
  <2>5. \A t \in Txids : t > Old.txid /\ t # T => pending'[t] = {}
    BY <1>1, <1>7 DEF FreeInv
  <2>6. QED
    BY <1>1, <1>2, <1>3, <2>1, <2>2, <2>3, <2>4, <2>5 DEF FreeInv, Reach
<1>11. SizeInv'
  BY <1>1, <1>2, <1>3 DEF SizeInv, Todo, Spilling
<1>12. TxInv'
  <2>1. ~Finished /\ ~Finished' /\ OldKids' = OldKids /\ RootInv /\ FreelistInv
    BY <1>1, <1>2, <1>3 DEF Finished, OldKids, TxInv
  <2>2. \A k \in Keys : KidInv(k)'
    <3> SUFFICES ASSUME NEW k \in Keys PROVE KidInv(k)'
      OBVIOUS
    <3>1. KidInv(k)
      BY <1>1 DEF TxInv
    <3>2. kids[k] \in Replaced => item = "leaf" /\ k = Min(dirty)
      BY <1>1, ReplacedOld
    <3>3. QED
      BY <1>1, <1>2, <1>3, <1>7, <2>1, <3>1, <3>2 DEF KidInv
  <2>3. RootInv'
    <3>1. Old.root \in Replaced => item = "root"
      BY <1>1, ReplacedOld
    <3>2. NewRoot => NewRoot'
      BY <1>2, <1>3, <1>7 DEF NewRoot
    <3>3. QED
      BY <1>1, <1>2, <1>3, <1>7, <2>1, <3>1, <3>2 DEF RootInv, OldRoot
  <2>4. FreelistInv'
    <3>1. Old.freelist \in Replaced => item = "freelist"
      BY <1>1, ReplacedOld
    <3>2. QED
      BY <1>1, <1>2, <1>3, <1>7, <2>1, <3>1 DEF FreelistInv
  <2>5. Replaced' = Replaced
    BY <1>2 DEF Replaced
  <2>6. QED
    BY <1>1, <1>2, <1>3, <1>7, <2>1, <2>2, <2>3, <2>4, <2>5 DEF TxInv
<1>13. RemapInv'
  BY <1>1, <1>2 DEF RemapInv
<1>14. \A r \in Txs' : ReaderInv(r)'
  <2>1. DbMeta.txid >= DbMeta.txid /\ DbMeta.pgid >= DbMeta.pgid
    BY <1>3, MetaTypes
  <2>2. \A r \in Txs : rd[r].meta.txid < T
    <3> SUFFICES ASSUME NEW r \in Txs PROVE rd[r].meta.txid < T
      OBVIOUS
    <3>1. rd[r].meta.txid \in Nat
      BY <1>1, MetaTypes DEF Txs, TypeOK
    <3>2. rd[r].meta.txid <= Old.txid
      BY <1>1, <1>3 DEF ReaderInv
    <3>3. QED
      BY <1>4, <3>1, <3>2
  <2>3. \A r \in Txs : \A p \in Reach(rd[r].meta) :
           \A t \in Txids : p \in pending'[t] => t > rd[r].meta.txid
    BY <1>1, <1>7, <2>2 DEF ReaderInv
  <2>4. QED
    BY <1>1, <1>2, <1>3, <2>1, <2>3, ReadersKept DEF ReaderInv
<1>15. QED
  BY <1>2, <1>3, <1>8, <1>9, <1>10, <1>11, <1>12, <1>13, <1>14 DEF IInv, WInv

-----------------------------------------------------------------------------
(* The pages, and then the meta page, are written and synced.              *)

LEMMA WritePagesStep ==
  ASSUME IInv, WritePages
  PROVE  IInv'
<1>1. /\ TypeOK /\ WInv /\ RemapInv /\ MetaInv /\ TreeOf(file, Old) /\ FreeInv /\ DurableInv /\ SizeInv
      /\ wpc = "write" /\ TxInv /\ \A r \in Txs : ReaderInv(r)
  BY DEF IInv, WInv, WritePages
<1>2. /\ UNCHANGED <<disk, meta, dmeta, ids, pending, mapped, remapping, wtx, fresh, kids, dirty, item,
                     stamp, wrote, acked, metalock, rd, crashes>>
      /\ wpc' = "sync"
      /\ file' = [p \in Pages |-> IF p \in DOMAIN fresh THEN fresh[p] ELSE file[p]]
  BY DEF WritePages, freeVars, WriterUnchanged, Written
<1>3. MetaInv' /\ Old' = Old /\ DbMeta' = DbMeta /\ DbMeta = Old /\ T' = T /\ DbMeta \in Meta
  BY <1>1, <1>2, MetaKept
<1>4. /\ \A p \in Pages : p \notin DOMAIN fresh => file'[p] = file[p]
      /\ \A p \in DOMAIN fresh : file'[p] = fresh[p]
      /\ file' \in [Pages -> Content]
  BY <1>1, <1>2 DEF TypeOK
<1>5. TypeOK'
  BY <1>1, <1>2, <1>4 DEF TypeOK
<1>6. \A p \in Reach(Old) \cup {Old.freelist} : file'[p] = file[p]
  BY <1>1, <1>4, Apart
<1>7. /\ OldKids' = OldKids /\ Reach(Old)' = Reach(Old) /\ TreeOf(file', Old')
      /\ file'[Old.freelist] = file[Old.freelist] /\ Contents(Old)' = Contents(Old)
  BY <1>1, <1>3, <1>6, OldSame
<1>8. DurableInv'
  BY <1>1, <1>2, <1>3, <1>6, <1>7 DEF DurableInv, Synced
<1>9. FreeInv'
  <2>1. \A p : PendingBefore(p)' <=> PendingBefore(p)
    BY <1>2, <1>3 DEF PendingBefore
  <2>2. QED
    BY <1>1, <1>2, <1>3, <1>7, <2>1 DEF FreeInv
<1>10. SizeInv'
  BY <1>1, <1>2, <1>3 DEF SizeInv, Todo, Spilling
<1>11. TxInv'
  <2>1. Finished /\ Finished' /\ RootInv /\ FreelistInv /\ item = "freelist" /\ AllPending' = AllPending
    BY <1>1, <1>2 DEF Finished, TxInv, AllPending
  <2>2. \A k \in Keys : KidInv(k)'
    BY <1>1, <1>2, <1>3, <1>7, <2>1 DEF TxInv, KidInv
  <2>3. RootInv' /\ FreelistInv'
    BY <1>2, <1>3, <1>7, <2>1 DEF RootInv, OldRoot, NewRoot, FreelistInv
  <2>4. QED
    BY <1>1, <1>2, <1>4, <2>1, <2>2, <2>3 DEF TxInv
<1>12. RemapInv'
  BY <1>1, <1>2 DEF RemapInv
<1>13. \A r \in Txs' : ReaderInv(r)'
  <2>1. DbMeta.txid >= DbMeta.txid /\ DbMeta.pgid >= DbMeta.pgid
    BY <1>3, MetaTypes
  <2>2. \A r \in Txs : \A p \in Reach(rd[r].meta) : p \notin DOMAIN fresh /\ p \in Pages
    <3> SUFFICES ASSUME NEW r \in Txs PROVE \A p \in Reach(rd[r].meta) : p \notin DOMAIN fresh /\ p \in Pages
      OBVIOUS
    <3>1. ReaderInv(r)
      BY <1>1
    <3>2. Reach(rd[r].meta) \subseteq Pages
      BY <1>1, <3>1, ReachPages DEF ReaderInv, Reach, TypeOK
    <3>3. QED
      BY <1>1, <3>1, <3>2 DEF ReaderInv
  <2>3. QED
    BY <1>1, <1>2, <1>3, <1>4, <2>1, <2>2, ReadersKept DEF ReaderInv
<1>14. QED
  BY <1>2, <1>3, <1>5, <1>7, <1>8, <1>9, <1>10, <1>11, <1>12, <1>13 DEF IInv, WInv

(* The transaction keeps its invariant when only the sync moves on.        *)
LEMMA FinishedKept ==
  ASSUME TypeOK, FreeInv, SizeInv, TxInv, Finished, TreeOf(file, Old),
         wpc \in {"sync", "meta", "metatorn"}, wpc' \in {"meta", "metatorn", "metasync"},
         UNCHANGED <<file, ids, pending, wtx, fresh, kids, dirty, item, stamp>>, Old' = Old
  PROVE  FreeInv' /\ SizeInv' /\ TxInv' /\ TreeOf(file', Old')
<1>1. T' = T /\ OldKids' = OldKids /\ Finished' /\ AllPending' = AllPending
  BY DEF T, OldKids, Finished, AllPending
<1>2. FreeInv'
  <2>1. \A p : PendingBefore(p)' <=> PendingBefore(p)
    BY <1>1 DEF PendingBefore
  <2>2. QED
    BY <1>1, <2>1 DEF FreeInv, Reach
<1>3. SizeInv'
  BY DEF SizeInv, Todo, Spilling
<1>4. TxInv'
  <2>1. \A k \in Keys : KidInv(k)'
    BY <1>1 DEF TxInv, KidInv, Finished
  <2>2. RootInv' /\ FreelistInv'
    BY <1>1 DEF TxInv, RootInv, OldRoot, NewRoot, FreelistInv
  <2>3. QED
    BY <1>1, <2>1, <2>2 DEF TxInv
<1>5. TreeOf(file', Old')
  OBVIOUS
<1>6. QED
  BY <1>2, <1>3, <1>4, <1>5

LEMMA SyncPagesStep ==
  ASSUME IInv, SyncPages
  PROVE  IInv'
<1>1. /\ TypeOK /\ RemapInv /\ MetaInv /\ TreeOf(file, Old) /\ FreeInv /\ DurableInv /\ SizeInv
      /\ wpc = "sync" /\ TxInv /\ \A r \in Txs : ReaderInv(r)
  BY DEF IInv, WInv, SyncPages
<1>2. /\ UNCHANGED <<file, meta, ids, pending, mapped, remapping, wtx, fresh, kids, dirty, item,
                     stamp, wrote, acked, metalock, rd, crashes>>
      /\ wpc' = "meta" /\ disk' = file /\ dmeta' = meta
  BY DEF SyncPages, freeVars, WriterUnchanged
<1>3. DbMeta = Old /\ Old \in Meta
  BY <1>1, MetaFacts, Sizes
<1>4. Old' = Old /\ DbMeta' = DbMeta /\ T' = T
  BY <1>2, <1>3 DEF Old, DbMeta, MetaOf, T
<1>5. TypeOK'
  BY <1>1, <1>2 DEF TypeOK
<1>6. MetaInv'
  BY <1>1, <1>2, <1>4 DEF MetaInv, Counts
<1>7. FreeInv' /\ SizeInv' /\ TxInv' /\ TreeOf(file', Old')
  BY <1>1, <1>2, <1>4, FinishedKept DEF Finished
<1>8. DurableInv'
  BY <1>1, <1>2, <1>4 DEF DurableInv, Contents
<1>9. RemapInv'
  BY <1>1, <1>2 DEF RemapInv
<1>10. \A r \in Txs' : ReaderInv(r)'
  <2>1. DbMeta.txid >= DbMeta.txid /\ DbMeta.pgid >= DbMeta.pgid
    BY <1>3, MetaTypes
  <2>2. QED
    BY <1>1, <1>2, <1>3, <1>4, <2>1, ReadersKept DEF ReaderInv
<1>11. QED
  BY <1>2, <1>5, <1>6, <1>7, <1>8, <1>9, <1>10 DEF IInv, WInv

LEMMA NewMetaType ==
  ASSUME TypeOK
  PROVE  /\ NewMeta \in Meta /\ NewMeta.valid /\ NewMeta.txid = T /\ NewMeta.root = wtx.root
         /\ NewMeta.freelist = wtx.freelist /\ NewMeta.pgid = wtx.pgid
BY DEF TypeOK, Meta, NewMeta, T

LEMMA WriteMetaStep ==
  ASSUME IInv, WriteMeta
  PROVE  IInv' /\ DbMeta' = DbMeta
<1>1. /\ TypeOK /\ RemapInv /\ MetaInv /\ TreeOf(file, Old) /\ FreeInv /\ DurableInv /\ SizeInv
      /\ wpc = "meta" /\ TxInv /\ \A r \in Txs : ReaderInv(r)
  BY DEF IInv, WInv, WriteMeta
<1>2. /\ UNCHANGED <<file, disk, dmeta, ids, pending, mapped, remapping, wtx, fresh, kids, dirty, item,
                     stamp, wrote, acked, metalock, rd, crashes>>
      /\ wpc' = "metatorn" /\ meta' = [meta EXCEPT ![Slot] = Torn(NewMeta)]
  BY DEF WriteMeta, freeVars, WriterUnchanged
<1>3. PICK i \in 0..1 :
           /\ Old = dmeta[i] /\ Old = meta[i] /\ Old.valid /\ Counts(dmeta, i)
           /\ Old.txid % 2 = i /\ Counts(meta, i) /\ DbMeta = Old
           /\ Slot = 1 - i /\ 1 - i \in 0..1 /\ 1 - (1 - i) = i
  BY <1>1, MetaFacts
<1>4. Old \in Meta /\ Torn(NewMeta) \in Meta /\ Torn(NewMeta).txid = T /\ ~Torn(NewMeta).valid
  BY <1>1, Sizes, NewMetaType, TornMeta
<1>5. meta'[i] = Old /\ meta'[1 - i] = Torn(NewMeta) /\ meta' \in [0..1 -> Meta]
  BY <1>1, <1>2, <1>3, <1>4 DEF TypeOK
<1>6. TypeOK'
  BY <1>1, <1>2, <1>5 DEF TypeOK
<1>7. Counts(meta', i)
  BY <1>3, <1>4, <1>5 DEF Counts
<1>8. Old' = Old /\ DbMeta' = Old /\ T' = T
  BY <1>2, <1>5, <1>7, CountsMeta DEF Old, DbMeta, MetaOf, T
<1>9. MetaInv'
  <2>1. T % 2 = 1 - i
    BY <1>3 DEF Slot, T
  <2>2. \A j \in 0..1 : meta'[j].txid % 2 = j
    <3>1. \A j \in 0..1 : j = i \/ j = 1 - i
      BY <1>3
    <3>2. QED
      BY <1>3, <1>4, <1>5, <2>1, <3>1
  <2>3. QED
    BY <1>1, <1>2, <1>3, <1>5, <1>7, <1>8, <2>2 DEF MetaInv
<1>10. FreeInv' /\ SizeInv' /\ TxInv' /\ TreeOf(file', Old')
  BY <1>1, <1>2, <1>8, FinishedKept DEF Finished
<1>11. DurableInv'
  BY <1>1, <1>2, <1>8 DEF DurableInv, Contents, Synced, Reach
<1>12. RemapInv'
  BY <1>1, <1>2 DEF RemapInv
<1>13. \A r \in Txs' : ReaderInv(r)'
  <2>1. DbMeta.txid >= DbMeta.txid /\ DbMeta.pgid >= DbMeta.pgid
    BY <1>3, <1>4, MetaTypes
  <2>2. QED
    BY <1>1, <1>2, <1>3, <1>4, <1>8, <2>1, ReadersKept DEF ReaderInv
<1>14. QED
  BY <1>2, <1>3, <1>6, <1>8, <1>9, <1>10, <1>11, <1>12, <1>13 DEF IInv, WInv

LEMMA WriteMetaEndStep ==
  ASSUME IInv, WriteMetaEnd
  PROVE  IInv' /\ DbMeta' = NewMeta /\ DbMeta = Old
<1>1. /\ TypeOK /\ RemapInv /\ MetaInv /\ TreeOf(file, Old) /\ FreeInv /\ DurableInv /\ SizeInv
      /\ wpc = "metatorn" /\ TxInv /\ \A r \in Txs : ReaderInv(r)
  BY DEF IInv, WInv, WriteMetaEnd
<1>2. /\ UNCHANGED <<file, disk, dmeta, ids, pending, mapped, remapping, wtx, fresh, kids, dirty, item,
                     stamp, wrote, acked, metalock, rd, crashes>>
      /\ wpc' = "metasync" /\ meta' = [meta EXCEPT ![Slot] = NewMeta]
  BY DEF WriteMetaEnd, freeVars, WriterUnchanged
<1>3. PICK i \in 0..1 :
           /\ Old = dmeta[i] /\ Old = meta[i] /\ Old.valid /\ Counts(dmeta, i)
           /\ Old.txid % 2 = i /\ Counts(meta, i) /\ DbMeta = Old
           /\ Slot = 1 - i /\ 1 - i \in 0..1 /\ 1 - (1 - i) = i
  BY <1>1, MetaFacts
<1>4. Old \in Meta /\ NewMeta \in Meta /\ NewMeta.txid = T /\ NewMeta.valid /\ NewMeta.pgid = wtx.pgid
  BY <1>1, Sizes, NewMetaType
<1>5. meta'[i] = Old /\ meta'[1 - i] = NewMeta /\ meta' \in [0..1 -> Meta]
  BY <1>1, <1>2, <1>3, <1>4 DEF TypeOK
<1>6. TypeOK'
  BY <1>1, <1>2, <1>5 DEF TypeOK
<1>7. T = Old.txid + 1 /\ Old.txid \in Nat /\ wtx.pgid >= Old.pgid /\ wtx.pgid \in Nat /\ Old.pgid \in Nat
  BY <1>1, Sizes DEF MetaInv, FreeInv
<1>8. Counts(meta', 1 - i)
  BY <1>3, <1>4, <1>5, <1>7, SMTT(40) DEF Counts
<1>9. Old' = Old /\ DbMeta' = NewMeta /\ T' = T /\ Slot' = Slot /\ NewMeta' = NewMeta
  <2>1. Old' = Old
    BY <1>2 DEF Old
  <2>2. DbMeta' = NewMeta
    BY <1>3, <1>5, <1>8, CountsMeta DEF DbMeta
  <2>3. T' = T /\ Slot' = Slot /\ NewMeta' = NewMeta
    BY <1>2 DEF T, Slot, NewMeta
  <2>4. QED
    BY <2>1, <2>2, <2>3
<1>10. MetaInv'
  <2>1. T % 2 = 1 - i
    BY <1>3 DEF Slot, T
  <2>2. \A j \in 0..1 : meta'[j].txid % 2 = j
    <3>1. \A j \in 0..1 : j = i \/ j = 1 - i
      BY <1>3
    <3>2. QED
      BY <1>3, <1>4, <1>5, <2>1, <3>1
  <2>3. QED
    BY <1>1, <1>2, <1>3, <1>5, <1>9, <2>2 DEF MetaInv
<1>11. FreeInv' /\ SizeInv' /\ TxInv' /\ TreeOf(file', Old')
  BY <1>1, <1>2, <1>9, FinishedKept DEF Finished
<1>12. DurableInv'
  BY <1>1, <1>2, <1>9 DEF DurableInv, Contents, Synced, Reach
<1>13. RemapInv'
  BY <1>1, <1>2 DEF RemapInv
<1>14. \A r \in Txs' : ReaderInv(r)'
  <2>1. DbMeta'.txid >= DbMeta.txid /\ DbMeta'.pgid >= DbMeta.pgid
    BY <1>3, <1>4, <1>7, <1>9
  <2>2. QED
    BY <1>1, <1>2, <1>4, <1>9, <2>1, ReadersKept DEF ReaderInv
<1>15. QED
  BY <1>2, <1>3, <1>6, <1>9, <1>10, <1>11, <1>12, <1>13, <1>14 DEF IInv, WInv

(* Commit returns nil: the new meta page shows all that was written.       *)
LEMMA AllWritten ==
  ASSUME IInv, WroteInv, wpc = "metasync"
  PROVE  wrote = Contents(DbMeta)
<1>1. TypeOK /\ WInv /\ MetaInv /\ TxInv /\ acked = Contents(Old)
  BY DEF IInv, WInv, DurableInv
<1>2. DbMeta = NewMeta
  BY <1>1, MetaFacts
<1>3. dirty = {}
  BY <1>1 DEF TxInv, Finished
<1>4. \A k \in Keys : wrote[k] = Contents(NewMeta)[k]
  BY <1>1, <1>3, NewTree DEF WroteInv
<1>5. wrote \in [Keys -> Nat] /\ DOMAIN Contents(NewMeta) = Keys /\ Contents(NewMeta) = [k \in Keys |-> Contents(NewMeta)[k]]
  BY <1>1 DEF TypeOK, Contents, ContentsOf
<1>6. QED
  BY <1>2, <1>4, <1>5

LEMMA SyncMetaStep ==
  ASSUME IInv, WroteInv, SyncMeta
  PROVE  IInv' /\ DbMeta' = DbMeta /\ acked' = Contents(DbMeta)
<1>1. /\ TypeOK /\ WInv /\ RemapInv /\ MetaInv /\ TreeOf(file, Old) /\ FreeInv /\ DurableInv /\ SizeInv
      /\ wpc = "metasync" /\ TxInv /\ \A r \in Txs : ReaderInv(r)
  BY DEF IInv, WInv, SyncMeta
<1>2. /\ UNCHANGED <<file, meta, ids, pending, mapped, remapping, stamp, metalock, rd, crashes>>
      /\ wpc' = "idle" /\ item' = "leaf" /\ wtx' = NoTx /\ dirty' = {} /\ fresh' = <<>> /\ kids' = NoKids
      /\ acked' = Contents(DbMeta) /\ disk' = file /\ dmeta' = meta /\ wrote' = wrote
  BY <1>1, AllWritten DEF SyncMeta, freeVars, WriterUnchanged
<1>3. PICK i \in 0..1 :
           /\ meta[1 - i] = NewMeta /\ Counts(meta, 1 - i) /\ DbMeta = NewMeta /\ 1 - i \in 0..1
  BY <1>1, MetaFacts
<1>4. /\ NewMeta \in Meta /\ NewMeta.txid = T /\ NewMeta.pgid = wtx.pgid /\ NewMeta.pgid \in Nat
      /\ T = Old.txid + 1 /\ Old.txid \in Nat /\ Old.txid <= stamp /\ T \in Txids /\ stamp \in Nat
      /\ Old.pgid \in Nat /\ Old.pgid >= 4 /\ Old.pgid <= wtx.pgid
  BY <1>1, NewMetaType, Sizes DEF MetaInv, TypeOK, SizeInv, FreeInv
<1>5. Old' = NewMeta /\ DbMeta' = DbMeta /\ T' = 0 /\ DOMAIN fresh' = {} /\ wtx'.pgid = 0
  BY <1>2, <1>3 DEF Old, DbMeta, MetaOf, T, NoTx
<1>6. /\ TreeOf(file, NewMeta) /\ file[NewMeta.freelist].ids = ids \cup AllPending
      /\ \A p \in Reach(NewMeta) : p \notin ids /\ \A t \in Txids : p \notin pending[t]
  BY <1>1, NewTree
<1>7. Contents(NewMeta) \in [Keys -> Nat]
  BY <1>1, <1>6, ContentsType DEF Contents, TypeOK, TreeOf
<1>8. TypeOK'
  BY <1>1, <1>2, <1>3, <1>5, <1>7, NoTxMeta, PageTypes DEF TypeOK
<1>9. MetaInv'
  BY <1>1, <1>2, <1>3, <1>4, <1>5 DEF MetaInv
<1>10. DurableInv' /\ TreeOf(file', Old') /\ IdleInv'
  BY <1>2, <1>3, <1>5, <1>6 DEF DurableInv, Contents, Synced, IdleInv
<1>11. SizeInv'
  <2>1. wtx.pgid <= 4 + stamp * PerTx
    BY <1>1, <1>4, Times, Constants DEF SizeInv, Todo, Spilling
  <2>2. QED
    BY <1>2, <1>4, <1>5, <2>1 DEF SizeInv
<1>12. FreeInv'
  <2>1. pending[0] = {} /\ 0 \in Txids
    BY <1>1, Constants DEF FreeInv
  <2>2. \A p : PendingBefore(p)' <=> p \in AllPending
    BY <1>1, <1>2, <1>5, <2>1 DEF PendingBefore, AllPending, TypeOK
  <2>3. \A p \in Pages : p \in ids => p \notin AllPending
    <3>1. \A p : p \in AllPending => p \in pending[T] \/ PendingBefore(p)
      BY <1>1 DEF AllPending, PendingBefore, TypeOK
    <3>2. \A p \in pending[T] : p \notin ids
      BY <1>1, Apart DEF FreeInv
    <3>3. QED
      BY <1>1, <3>1, <3>2 DEF FreeInv
  <2>4. \A t \in Txids : t > T => pending[t] = {}
    BY <1>1, <1>4, Constants DEF FreeInv
  <2>5. \A p \in Pages : ~(p < 0)
    BY Constants
  <2>6. QED
    BY <1>1, <1>2, <1>4, <1>5, <1>6, <2>1, <2>2, <2>3, <2>4, <2>5 DEF FreeInv
<1>13. RemapInv'
  BY <1>1, <1>2 DEF RemapInv
<1>14. \A r \in Txs' : ReaderInv(r)'
  <2>1. DbMeta.txid >= DbMeta.txid /\ DbMeta.pgid >= DbMeta.pgid
    BY <1>3, <1>4, MetaTypes
  <2>2. QED
    BY <1>1, <1>2, <1>3, <1>4, <1>5, <2>1, ReadersKept DEF ReaderInv
<1>15. QED
  BY <1>2, <1>5, <1>8, <1>9, <1>10, <1>11, <1>12, <1>13, <1>14 DEF IInv, WInv

-----------------------------------------------------------------------------
(* A transaction that is rolled back leaves what it found.                 *)

LEMMA RollbackStep ==
  ASSUME IInv, wpc # "idle", wpc # "metasync", UNCHANGED <<disk, meta, dmeta>>, remapping' = FALSE,
         NEW f \in [Pages -> Content], file' = f, \A p \in Pages : p \notin DOMAIN fresh => f[p] = file[p],
         RollbackTo(f, meta)
  PROVE  /\ IInv' /\ DbMeta' = DbMeta /\ DbMeta = Old /\ acked' = acked
         /\ \A r \in Txs : \A p \in Reach(rd[r].meta) : file'[p] = file[p]
         /\ \A p \in Reach(Old) : file'[p] = file[p]
<1>1. /\ TypeOK /\ WInv /\ RemapInv /\ MetaInv /\ TreeOf(file, Old) /\ FreeInv /\ DurableInv /\ SizeInv
      /\ TxInv /\ \A r \in Txs : ReaderInv(r)
  BY DEF IInv, WInv
<1>2. /\ UNCHANGED <<mapped, stamp, acked, metalock, rd, crashes>> /\ wrote' = acked
      /\ wpc' = "idle" /\ item' = "leaf" /\ wtx' = NoTx /\ dirty' = {} /\ fresh' = <<>> /\ kids' = NoKids
  BY DEF RollbackTo, WriterUnchanged
<1>3. DbMeta = Old /\ Old \in Meta /\ T = Old.txid + 1 /\ T \in Txids /\ Old.txid \in Nat
  BY <1>1, MetaFacts, Sizes DEF MetaInv
<1>4. Old' = Old /\ DbMeta' = DbMeta /\ T' = 0 /\ DOMAIN fresh' = {} /\ wtx'.pgid = 0
  BY <1>2 DEF Old, DbMeta, MetaOf, T, NoTx
<1>5. /\ pending' = [pending EXCEPT ![T] = {}]
      /\ ids' = f[Old.freelist].ids \ UNION {pending'[t] : t \in DOMAIN pending'}
  BY <1>3 DEF RollbackTo, DbMeta, T
<1>6. /\ pending' \in [Txids -> SUBSET Pages] /\ pending'[T] = {}
      /\ \A t \in Txids : t # T => pending'[t] = pending[t]
  BY <1>1, <1>3, <1>5 DEF TypeOK
<1>7. \A p : PendingBefore(p) <=> \E t \in Txids : p \in pending'[t]
  BY <1>6 DEF PendingBefore
<1>8. \A p : p \in ids' <=> p \in f[Old.freelist].ids /\ ~PendingBefore(p)
  BY <1>5, <1>6, <1>7
<1>9. \A p \in Reach(Old) \cup {Old.freelist} : file'[p] = file[p]
  BY <1>1, Apart
<1>10. /\ TreeOf(file', Old') /\ Contents(Old)' = Contents(Old) /\ Reach(Old)' = Reach(Old)
       /\ f[Old.freelist] = file[Old.freelist]
  BY <1>1, <1>4, <1>9, OldSame
<1>11. TypeOK'
  <2>1. ids' \in SUBSET Pages
    BY <1>1, <1>8 DEF TreeOf, Content
  <2>2. QED
    BY <1>1, <1>2, <1>4, <1>6, <2>1, NoTxMeta, PageTypes DEF TypeOK
<1>12. MetaInv'
  BY <1>1, <1>2, <1>3, <1>4 DEF MetaInv, Counts, TypeOK
<1>13. FreeInv'
  <2>1. pending[0] = {} /\ 0 \in Txids /\ pending'[0] = {}
    BY <1>1, <1>6, Constants DEF FreeInv
  <2>2. \A p : PendingBefore(p)' <=> PendingBefore(p)
    <3>1. \A p : PendingBefore(p)' <=> \E t \in Txids : t # T' /\ p \in pending'[t]
      BY DEF PendingBefore
    <3>2. QED
      BY <1>4, <1>7, <2>1, <3>1
  <2>3. \A p \in Pages : PendingBefore(p) => p \in file[Old.freelist].ids
    BY <1>1 DEF FreeInv
  <2>4. \A p \in Pages : ~(p < 0)
    BY Constants
  <2>5. \A t, u \in Txids : t # u => pending'[t] \cap pending'[u] = {}
    BY <1>1, <1>6 DEF FreeInv
  <2>6. \A t \in Txids : t > Old.txid => pending'[t] = {}
    BY <1>1, <1>6 DEF FreeInv
  <2>7. QED
    BY <1>2, <1>4, <1>8, <1>10, <2>1, <2>2, <2>3, <2>4, <2>5, <2>6 DEF FreeInv
<1>14. DurableInv' /\ IdleInv'
  BY <1>1, <1>2, <1>4, <1>9, <1>10 DEF DurableInv, Synced, IdleInv
<1>15. SizeInv'
  <2>1. Old.pgid >= 4 /\ Old.pgid <= 4 + (stamp - 1) * PerTx /\ stamp > 0 /\ stamp \in Nat
    BY <1>1 DEF SizeInv, TypeOK
  <2>2. (stamp - 1) * PerTx <= stamp * PerTx /\ (stamp - 1) * PerTx \in Nat /\ stamp * PerTx \in Nat
    BY <2>1, Times, Constants
  <2>3. Old.pgid <= 4 + stamp * PerTx
    BY <1>1, <2>1, <2>2, Sizes
  <2>4. QED
    BY <1>2, <1>4, <2>1, <2>3 DEF SizeInv
<1>16. RemapInv'
  BY DEF RemapInv
<1>17. \A r \in Txs : \A p \in Reach(rd[r].meta) :
         file'[p] = file[p] /\ p \notin ids' /\ \A t \in Txids : p \in pending'[t] => t > rd[r].meta.txid
  <2> SUFFICES ASSUME NEW r \in Txs, NEW p \in Reach(rd[r].meta)
               PROVE  /\ file'[p] = file[p] /\ p \notin ids'
                      /\ \A t \in Txids : p \in pending'[t] => t > rd[r].meta.txid
    OBVIOUS
  <2>1. ReaderInv(r)
    BY <1>1
  <2>2. p \in Pages
    BY <1>1, <2>1, ReachPages DEF ReaderInv, Reach, TypeOK
  <2>3. p \notin ids /\ p \notin DOMAIN fresh /\ \A t \in Txids : p \in pending[t] => t > rd[r].meta.txid
    BY <1>1, <2>1 DEF ReaderInv
  <2>4. p \notin ids'
    BY <1>1, <1>8, <1>10, <2>2, <2>3 DEF FreeInv
  <2>5. QED
    BY <1>6, <2>2, <2>3, <2>4
<1>18. \A r \in Txs' : ReaderInv(r)'
  <2>1. DbMeta.txid >= DbMeta.txid /\ DbMeta.pgid >= DbMeta.pgid
    BY <1>3, MetaTypes
  <2>2. QED
    BY <1>2, <1>3, <1>4, <1>17, <2>1, ReadersKept
<1>19. IInv'
  BY <1>2, <1>10, <1>11, <1>12, <1>13, <1>14, <1>15, <1>16, <1>18 DEF IInv, WInv
<1>20. QED
  BY <1>2, <1>3, <1>4, <1>9, <1>17, <1>19

(* The steps that roll back.  A meta page that was written and not synced  *)
(* is not rolled back by the code: see the README.                         *)
RollsBack ==
  \/ Rollback \/ RemapFails
  \/ \E S \in SUBSET DOMAIN fresh : WriteFails(S)
  \/ (WriteMetaFails /\ wpc = "metatorn")

LEMMA RollsBackStep ==
  ASSUME IInv, RollsBack
  PROVE  /\ IInv' /\ DbMeta' = DbMeta /\ DbMeta = Old /\ UNCHANGED <<acked, rd>>
         /\ \A r \in Txs : \A p \in Reach(rd[r].meta) : file'[p] = file[p]
         /\ \A p \in Reach(Old) : file'[p] = file[p]
<1>1. TypeOK /\ RemapInv
  BY DEF IInv
<1>2. rd' = rd
  BY DEF RollsBack, Rollback, RemapFails, WriteFails, WriteMetaFails, RollbackTo, WriterUnchanged
<1>3. CASE Rollback \/ RemapFails \/ (WriteMetaFails /\ wpc = "metatorn")
  <2>1. /\ UNCHANGED <<file, disk, meta, dmeta>> /\ RollbackTo(file, meta)
        /\ wpc \in {"open", "alloc", "metatorn"} /\ remapping' = FALSE
    BY <1>1, <1>3 DEF Rollback, RemapFails, WriteMetaFails, fileVars, RemapInv, TypeOK
  <2>2. QED
    BY <1>1, <1>2, <2>1, RollbackStep DEF TypeOK
<1>4. CASE \E S \in SUBSET DOMAIN fresh : WriteFails(S)
  <2>1. PICK S \in SUBSET DOMAIN fresh : WriteFails(S)
    BY <1>4
  <2>2. /\ file' = [p \in Pages |-> IF p \in S THEN fresh[p] ELSE file[p]] /\ RollbackTo(file', meta)
        /\ UNCHANGED <<disk, meta, dmeta>> /\ remapping' = FALSE /\ wpc = "write"
    BY <1>1, <2>1 DEF WriteFails, Written, RemapInv, TypeOK
  <2>3. file' \in [Pages -> Content] /\ \A p \in Pages : p \notin DOMAIN fresh => file'[p] = file[p]
    BY <1>1, <2>2 DEF TypeOK
  <2>4. QED
    BY <1>2, <2>2, <2>3, RollbackStep
<1>5. QED
  BY <1>3, <1>4 DEF RollsBack

-----------------------------------------------------------------------------
(* Open finds a whole database after a crash.                              *)

LEMMA CrashStep ==
  ASSUME IInv, NEW S \in SUBSET Lost, NEW m0 \in MetaLeft(0), NEW m1 \in MetaLeft(1), Crash(S, m0, m1)
  PROVE  IInv' /\ DbMeta' = Old' /\ acked' = Contents(Old)'
<1>1. TypeOK /\ WInv /\ MetaInv /\ FreeInv /\ SizeInv
  BY DEF IInv, WInv
<1>2. /\ dmeta' \in [0..1 -> Meta] /\ meta' = dmeta'
      /\ \A i \in 0..1 : dmeta'[i].txid % 2 = i
      /\ Old' = Old \/ (wpc = "metasync" /\ Old' = NewMeta)
      /\ file' \in [Pages -> Content] /\ disk' = file'
      /\ TreeOf(file', Old')
  BY <1>1, CrashMeta
<1>3. PICK i \in 0..1 : Counts(dmeta', i) /\ Old' = dmeta'[i]
  BY <1>1, CrashMeta
<1>4. /\ ids' = file'[Old'.freelist].ids /\ pending' = [t \in Txids |-> {}]
      /\ mapped' = mmapSize(Old'.pgid) /\ metalock' = "free" /\ remapping' = FALSE
      /\ rd' = [r \in Readers |-> [pc |-> "idle", meta |-> NoTx]]
      /\ wpc' = "idle" /\ item' = "leaf" /\ wtx' = NoTx /\ dirty' = {} /\ fresh' = <<>> /\ kids' = NoKids
      /\ acked' = ContentsOf(file', Old') /\ wrote' = acked' /\ stamp' = stamp /\ crashes < MaxCrashes /\ crashes' = crashes + 1
  BY <1>1 DEF Crash, Old, TypeOK
<1>5. T' = 0 /\ wtx'.pgid = 0 /\ DOMAIN fresh' = {} /\ Txs' = {} /\ DbMeta' = Old'
  BY <1>2, <1>4 DEF T, NoTx, Txs, DbMeta, Old, MetaOf
<1>6. /\ Old'.txid \in Nat /\ Old'.txid > 0 /\ Old'.txid <= stamp + 1
      /\ Old'.pgid \in Nat /\ Old'.pgid >= 4 /\ Old'.pgid <= 4 + stamp * PerTx /\ Old'.pgid <= NPages
  <2>1. Old \in Meta /\ Old.txid \in Nat /\ Old.txid > 0 /\ Old.txid <= stamp + 1 /\ Old.pgid \in Nat /\ Old.pgid >= 4
        /\ wtx.pgid \in Nat /\ stamp \in Nat
    BY <1>1, Sizes DEF MetaInv, SizeInv, TypeOK
  <2>2. wpc # "idle" => T = Old.txid + 1 /\ Old.txid <= stamp /\ Old.pgid <= wtx.pgid
    BY <1>1 DEF MetaInv, FreeInv
  <2>3. stamp * PerTx \in Nat
    BY <2>1, Times, Constants
  <2>4. Old.pgid <= 4 + stamp * PerTx
    <3>1. CASE wpc = "idle"
      BY <1>1, <3>1 DEF SizeInv
    <3>2. CASE wpc # "idle"
      <4>1. stamp - 1 \in Nat /\ Old.pgid <= 4 + (stamp - 1) * PerTx
        BY <1>1, <2>1, <3>2 DEF SizeInv
      <4>2. (stamp - 1) * PerTx <= stamp * PerTx /\ (stamp - 1) * PerTx \in Nat
        BY <2>1, <4>1, Times, Constants
      <4>3. QED
        BY <2>1, <2>3, <4>1, <4>2
    <3>3. QED
      BY <3>1, <3>2
  <2>5. wpc = "metasync" => wtx.pgid <= 4 + stamp * PerTx
    BY <1>1, <2>1, <2>3 DEF SizeInv, Todo, Spilling
  <2>6. NewMeta \in Meta /\ NewMeta.txid = T /\ NewMeta.pgid = wtx.pgid
    BY <1>1, NewMetaType
  <2>7. Old'.pgid <= NPages
    BY <1>2, <2>1, <2>6, MetaTypes
  <2>8. QED
    BY <1>2, <2>1, <2>2, <2>3, <2>4, <2>5, <2>6, <2>7
<1>7. TypeOK'
  <2>1. mapped' \in MapSizes
    BY <1>4, <1>6, MapGrows, Constants
  <2>2. ids' \in SUBSET Pages
    BY <1>2, <1>4 DEF TreeOf, Content
  <2>3. acked' \in [Keys -> Nat]
    BY <1>2, <1>4, ContentsType DEF TreeOf
  <2>4. crashes' \in 0..MaxCrashes
    BY <1>1, <1>4, BoltAssumption DEF TypeOK
  <2>5. rd' \in [Readers -> [pc : {"idle", "locked", "open", "closing"}, meta : Meta]]
    BY <1>4, NoTxMeta
  <2>6. QED
    BY <1>1, <1>2, <1>4, <1>5, <2>1, <2>2, <2>3, <2>4, <2>5, NoTxMeta, PageTypes DEF TypeOK
<1>8. MetaInv'
  BY <1>2, <1>3, <1>4, <1>5, <1>6 DEF MetaInv
<1>9. DurableInv' /\ IdleInv'
  BY <1>2, <1>4, <1>5 DEF DurableInv, Synced, IdleInv, Contents
<1>10. FreeInv'
  <2>1. \A p : ~PendingBefore(p)'
    BY <1>4 DEF PendingBefore
  <2>2. 0 \in Txids /\ \A t \in Txids : pending'[t] = {}
    BY <1>4, Constants
  <2>3. \A p \in Pages : ~(p < 0)
    BY Constants
  <2>4. QED
    BY <1>4, <1>5, <2>1, <2>2, <2>3 DEF FreeInv
<1>11. SizeInv' /\ RemapInv'
  BY <1>4, <1>6 DEF SizeInv, RemapInv
<1>12. QED
  BY <1>2, <1>4, <1>5, <1>7, <1>8, <1>9, <1>10, <1>11 DEF IInv, WInv, Contents

-----------------------------------------------------------------------------
(* A page is allocated: the first free one, or the one after the last.     *)

Allocated(p, left, pgid) ==
  \/ ids # {} /\ p = Min(ids) /\ left = ids \ {p} /\ pgid = wtx.pgid
  \/ ids = {} /\ p = wtx.pgid /\ left = ids /\ pgid = wtx.pgid + 1

(* Nobody has it.                                                          *)
LEMMA AllocatedPage ==
  ASSUME IInv, wpc = "alloc", NEW p, NEW left, NEW pgid, Allocated(p, left, pgid)
  PROVE  /\ p \in Pages /\ left \in SUBSET Pages /\ pgid \in 0..NPages
         /\ pgid \in Nat /\ wtx.pgid <= pgid /\ pgid <= wtx.pgid + 1
         /\ p \notin DOMAIN fresh /\ p \notin Reach(Old) \cup {Old.freelist}
         /\ \A t \in Txids : p \notin pending[t]
         /\ \A r \in Txs : p \notin Reach(rd[r].meta)
         /\ left \subseteq ids /\ p \notin left /\ \A q \in ids : q \in left \/ q = p
         /\ p >= Old.pgid => p = wtx.pgid /\ pgid = wtx.pgid + 1 /\ p \notin file[Old.freelist].ids
         /\ p < Old.pgid => pgid = wtx.pgid /\ p \in file[Old.freelist].ids
<1>1. /\ TypeOK /\ MetaInv /\ TreeOf(file, Old) /\ FreeInv /\ SizeInv /\ \A r \in Txs : ReaderInv(r)
  BY DEF IInv, WInv
<1>2. /\ Old.pgid \in Nat /\ wtx.pgid \in Nat /\ Old.pgid <= wtx.pgid /\ wtx.pgid + 1 <= NPages /\ wtx.pgid \in Pages
      /\ DbMeta = Old /\ T \in Txids /\ NPages \in Nat
  BY <1>1, Sizes, RoomLeft, MetaFacts, Constants DEF FreeInv
<1>3. ids \subseteq Pages /\ Pages \subseteq Nat
  BY <1>1, Constants DEF TypeOK
<1>4. \A q \in Reach(Old) \cup {Old.freelist} : q < Old.pgid /\ q \notin ids
  BY <1>1, Apart
<1>5. pending[T] \subseteq Reach(Old) \cup {Old.freelist}
  BY <1>1 DEF FreeInv
<1>6. \A r \in Txs : \A q \in Reach(rd[r].meta) : q \notin ids /\ q < Old.pgid
  BY <1>1, <1>2 DEF ReaderInv
<1>7. CASE ids # {} /\ p = Min(ids) /\ left = ids \ {p} /\ pgid = wtx.pgid
  <2>1. p \in ids
    BY <1>3, <1>7, MinProperty
  <2>2. p \in Pages /\ p \notin DOMAIN fresh /\ ~PendingBefore(p) /\ p \in file[Old.freelist].ids
    BY <1>1, <1>3, <2>1 DEF FreeInv
  <2>3. p < Old.pgid
    BY <1>1, <2>2 DEF TreeOf
  <2>4. \A t \in Txids : p \notin pending[t]
    BY <1>4, <1>5, <2>1, <2>2 DEF PendingBefore
  <2>5. pgid \in 0..NPages /\ pgid \in Nat /\ wtx.pgid <= pgid /\ pgid <= wtx.pgid + 1
    BY <1>2, <1>7
  <2>6. ~(p >= Old.pgid)
    BY <1>2, <1>3, <2>1, <2>3
  <2>7. p \notin Reach(Old) \cup {Old.freelist} /\ \A r \in Txs : p \notin Reach(rd[r].meta)
    BY <1>4, <1>6, <2>1
  <2>8. left \in SUBSET Pages /\ left \subseteq ids /\ p \notin left /\ \A q \in ids : q \in left \/ q = p
    BY <1>3, <1>7
  <2>9. QED
    BY <1>7, <2>2, <2>3, <2>4, <2>5, <2>6, <2>7, <2>8
<1>8. CASE ids = {} /\ p = wtx.pgid /\ left = ids /\ pgid = wtx.pgid + 1
  <2>1. p >= Old.pgid /\ ~(p < Old.pgid) /\ p \in Pages /\ p \notin DOMAIN fresh
    BY <1>1, <1>2, <1>8 DEF FreeInv
  <2>2. p \notin file[Old.freelist].ids
    BY <1>1, <2>1 DEF TreeOf
  <2>3. ~PendingBefore(p)
    BY <1>1, <2>1, <2>2 DEF FreeInv
  <2>4. p \notin Reach(Old) \cup {Old.freelist}
    BY <1>4, <2>1
  <2>5. \A t \in Txids : p \notin pending[t]
    BY <1>5, <2>3, <2>4 DEF PendingBefore
  <2>6. \A r \in Txs : p \notin Reach(rd[r].meta)
    BY <1>6, <2>1
  <2>7. /\ pgid \in 0..NPages /\ pgid \in Nat /\ wtx.pgid <= pgid /\ pgid <= wtx.pgid + 1
    BY <1>2, <1>8
  <2>8. left = {} /\ ids = {} /\ p = wtx.pgid /\ pgid = wtx.pgid + 1
    BY <1>8
  <2>9. QED
    BY <2>1, <2>2, <2>4, <2>5, <2>6, <2>7, <2>8
<1>9. QED
  BY <1>7, <1>8 DEF Allocated

LEMMA PlaceStep ==
  ASSUME IInv, wpc = "alloc", NEW p, NEW left, NEW pgid, Allocated(p, left, pgid),
         Place(p, left, pgid), mapped' \in MapSizes, remapping' = FALSE
  PROVE  IInv'
<1>1. /\ TypeOK /\ RemapInv /\ MetaInv /\ TreeOf(file, Old) /\ FreeInv /\ DurableInv /\ SizeInv
      /\ TxInv /\ RootInv /\ FreelistInv /\ Replaced \subseteq pending[T] /\ \A r \in Txs : ReaderInv(r)
      /\ ~Finished /\ (dirty # {} <=> item = "leaf")
  BY DEF IInv, WInv, TxInv, Finished
<1>2. /\ p \in Pages /\ left \in SUBSET Pages /\ pgid \in 0..NPages
      /\ pgid \in Nat /\ wtx.pgid <= pgid /\ pgid <= wtx.pgid + 1
      /\ p \notin DOMAIN fresh /\ p \notin Reach(Old) \cup {Old.freelist}
      /\ \A t \in Txids : p \notin pending[t]
      /\ \A r \in Txs : p \notin Reach(rd[r].meta)
      /\ left \subseteq ids /\ p \notin left /\ \A q \in ids : q \in left \/ q = p
      /\ p >= Old.pgid => p = wtx.pgid /\ pgid = wtx.pgid + 1 /\ p \notin file[Old.freelist].ids
      /\ p < Old.pgid => pgid = wtx.pgid /\ p \in file[Old.freelist].ids
  BY AllocatedPage
<1>3. TypeOK'
  BY <1>1, <1>2, PlaceType
<1>4. /\ UNCHANGED <<file, disk, meta, dmeta, pending, stamp, wrote, acked, metalock, rd, crashes>> /\ ids' = left
  BY DEF Place, WriterUnchanged, fileVars
<1>5. /\ DOMAIN fresh' = DOMAIN fresh \cup {p} /\ \A q \in DOMAIN fresh : fresh'[q] = fresh[q]
      /\ wtx'.txid = wtx.txid /\ wtx'.pgid = pgid /\ wpc' \in {"spill", "write"}
  <2>1. wtx \in Meta /\ item \in {"leaf", "root", "freelist"}
    BY <1>1 DEF TypeOK
  <2>2. QED
    BY <1>2, <2>1 DEF Place, Meta
<1>6. MetaInv' /\ Old' = Old /\ DbMeta' = DbMeta /\ DbMeta = Old /\ T' = T /\ DbMeta \in Meta
  BY <1>1, <1>4, <1>5, MetaKept
<1>7. TreeOf(file', Old') /\ DurableInv' /\ OldKids' = OldKids
  BY <1>1, <1>4, <1>5, <1>6 DEF DurableInv, Reach, Contents, Synced, OldKids
<1>8. FreeInv'
  <2>1. \A q : PendingBefore(q)' <=> PendingBefore(q)
    BY <1>4, <1>6 DEF PendingBefore
  <2>2. ~PendingBefore(p)
    BY <1>2 DEF PendingBefore
  <2>3. Old.pgid \in Nat /\ wtx.pgid \in Nat /\ Old.pgid <= wtx.pgid /\ Pages \subseteq Nat
    BY <1>1, Sizes, Constants DEF FreeInv
  <2>4. \A q \in Pages :
          q \in file[Old.freelist].ids <=>
            q \in left \/ PendingBefore(q) \/ (q \in DOMAIN fresh \cup {p} /\ q < Old.pgid)
    <3>1. \A q \in Pages :
          q \in file[Old.freelist].ids <=>
            q \in ids \/ PendingBefore(q) \/ (q \in DOMAIN fresh /\ q < Old.pgid)
      BY <1>1 DEF FreeInv
    <3>2. p < Old.pgid \/ p >= Old.pgid
      BY <1>2, <2>3
    <3>3. p \in ids => p \in file[Old.freelist].ids
      BY <1>2, <3>1
    <3>4. QED
      BY <1>2, <3>1, <3>2, <3>3
  <2>5. \A q \in Pages : q \in left => q \notin DOMAIN fresh \cup {p} /\ ~PendingBefore(q)
    BY <1>1, <1>2 DEF FreeInv
  <2>6. \A q \in DOMAIN fresh \cup {p} : ~PendingBefore(q)
    BY <1>1, <2>2 DEF FreeInv
  <2>7. \A q \in Pages : q >= Old.pgid => (q \in DOMAIN fresh \cup {p} <=> q < pgid)
    <3> SUFFICES ASSUME NEW q \in Pages, q >= Old.pgid PROVE q \in DOMAIN fresh \cup {p} <=> q < pgid
      OBVIOUS
    <3>1. q \in DOMAIN fresh <=> q < wtx.pgid
      BY <1>1 DEF FreeInv
    <3>2. p \in Nat /\ q \in Nat
      BY <1>2, <2>3
    <3>3. CASE p >= Old.pgid
      BY <1>2, <2>3, <3>1, <3>2, <3>3
    <3>4. CASE p < Old.pgid
      BY <1>2, <2>3, <3>1, <3>2, <3>4
    <3>5. QED
      BY <2>3, <3>2, <3>3, <3>4
  <2>8. Old.pgid <= pgid
    BY <1>2, <2>3
  <2>9. QED
    BY <1>1, <1>4, <1>5, <1>6, <2>1, <2>4, <2>5, <2>6, <2>7, <2>8 DEF FreeInv, Reach
<1>9. SizeInv'
  <2>1. IsFiniteSet(dirty) /\ Cardinality(dirty) \in Nat
    BY <1>1, Constants, FS_Subset, FS_CardinalityType DEF TypeOK
  <2>2. Todo' \in Nat /\ Todo' + 1 <= Todo /\ Todo \in Nat
    <3>1. CASE item = "leaf"
      <4> DEFINE k == Min(dirty)
      <4>1. k \in dirty
        BY <1>1, <3>1, MinProperty, BoltAssumption DEF TypeOK
      <4> HIDE DEF k
      <4>2. dirty' = dirty \ {k} /\ wpc' = "spill" /\ item' = IF dirty = {k} THEN "root" ELSE "leaf"
        BY <3>1 DEF Place, k
      <4>3. Cardinality(dirty \ {k}) = Cardinality(dirty) - 1 /\ Cardinality(dirty \ {k}) \in Nat
        BY <2>1, <4>1, FS_RemoveElement, FS_CardinalityType, FS_Subset
      <4>4. QED
        BY <2>1, <3>1, <4>2, <4>3 DEF Todo, Spilling
    <3>2. CASE item = "root"
      <4>1. wpc' = "spill" /\ item' = "freelist"
        BY <3>2 DEF Place
      <4>2. QED
        BY <3>2, <4>1 DEF Todo, Spilling
    <3>3. CASE item = "freelist"
      <4>1. wpc' = "write"
        BY <3>3 DEF Place
      <4>2. QED
        BY <3>3, <4>1 DEF Todo, Spilling
    <3>4. QED
      BY <1>1, <3>1, <3>2, <3>3 DEF TypeOK
  <2>3. /\ Old.pgid >= 4 /\ Old.pgid <= 4 + (stamp - 1) * PerTx /\ stamp > 0
        /\ wtx.pgid + Todo <= 4 + stamp * PerTx /\ wtx.pgid \in Nat
    BY <1>1, Sizes DEF SizeInv
  <2>4. stamp * PerTx \in Nat
    BY <1>1, Times, Constants DEF TypeOK
  <2>5. pgid + Todo' <= 4 + stamp * PerTx
    <3>1. pgid \in Nat /\ pgid <= wtx.pgid + 1
      BY <1>2
    <3> DEFINE n == stamp * PerTx
               x == Todo'
               y == Todo
    <3>2. n \in Nat /\ x \in Nat /\ y \in Nat /\ x + 1 <= y /\ wtx.pgid + y <= 4 + n /\ wtx.pgid \in Nat
      BY <2>2, <2>3, <2>4
    <3> HIDE DEF n, x, y
    <3>3. pgid + x <= 4 + n
      BY <3>1, <3>2
    <3>4. QED
      BY <3>3 DEF n, x
  <2>6. QED
    BY <1>4, <1>5, <1>6, <2>3, <2>5 DEF SizeInv
<1>10. /\ \A k \in Keys : kids[k] # p
       /\ wtx.root # p
       /\ \A k \in Keys : OldKids[k] \notin DOMAIN fresh
       /\ Old.root \notin DOMAIN fresh
  <2>1. \A k \in Keys : OldKids[k] = 0 \/ OldKids[k] \in Reach(Old)
    BY DEF OldKids, Reach, ReachOf
  <2>2. Old.root \in Reach(Old)
    BY DEF Reach, ReachOf
  <2>3. \A q \in Reach(Old) : q \notin DOMAIN fresh
    BY <1>1, Apart
  <2>4. 0 \notin Pages /\ DOMAIN fresh \subseteq Pages
    BY <1>1, Constants DEF TypeOK
  <2>5. wtx.root \in DOMAIN fresh \/ wtx.root = Old.root
    BY <1>1 DEF RootInv, OldRoot, NewRoot, TypeOK
  <2>6. \A k \in Keys : kids[k] \in DOMAIN fresh \/ kids[k] = OldKids[k]
    BY <1>1 DEF TxInv, KidInv
  <2>7. QED
    BY <1>2, <2>1, <2>2, <2>3, <2>4, <2>5, <2>6
<1>11. TxInv'
  <2>1. /\ \A j, k \in Keys : kids[j] = kids[k] => j = k \/ kids[k] = 0
        /\ \A q \in DOMAIN fresh : q = wtx.root \/ \E k \in Keys : kids[k] = q
        /\ \A k \in Keys : KidInv(k)
    BY <1>1 DEF TxInv
  <2>2. wtx \in Meta /\ kids \in [Keys -> Pages \cup {0}] /\ dirty \subseteq Keys /\ Keys \subseteq Nat
    BY <1>1, BoltAssumption DEF TypeOK
  <2>3. CASE item = "leaf"
    <3> DEFINE i == Min(dirty)
    <3>1. i \in dirty /\ i \in Keys
      BY <1>1, <2>2, <2>3, MinProperty
    <3>2. kids[i] \in pending[T] \cup {0}
      BY <1>1, <2>3 DEF Replaced
    <3> HIDE DEF i
    <3>3. /\ fresh'[p] = Leaf(stamp)
          /\ kids' = [kids EXCEPT ![i] = p] /\ dirty' = dirty \ {i}
          /\ item' = IF dirty = {i} THEN "root" ELSE "leaf"
          /\ wtx' = [wtx EXCEPT !.pgid = pgid] /\ wpc' = "spill"
      BY <2>3 DEF Place, i
    <3>4. kids'[i] = p /\ \A k \in Keys : k # i => kids'[k] = kids[k]
      BY <2>2, <3>1, <3>3
    <3>5. kids[i] = OldKids[i]
      BY <2>1, <3>1 DEF KidInv
    <3>6. \A k \in Keys : KidInv(k)'
      <4> SUFFICES ASSUME NEW k \in Keys PROVE KidInv(k)'
        OBVIOUS
      <4>1. CASE k = i
        BY <1>4, <1>5, <1>6, <1>7, <3>2, <3>3, <3>4, <3>5, <4>1 DEF KidInv
      <4>2. CASE k # i
        <5>1. \/ kids[k] = OldKids[k] /\ kids[k] \notin pending[T]
              \/ /\ kids[k] \in DOMAIN fresh /\ fresh[kids[k]] = Leaf(stamp) /\ k \notin dirty
                 /\ OldKids[k] \in pending[T] \cup {0}
          BY <2>1, <4>2 DEF KidInv, i
        <5>2. QED
          BY <1>4, <1>5, <1>6, <1>7, <3>3, <3>4, <4>2, <5>1 DEF KidInv
      <4>3. QED
        BY <4>1, <4>2
    <3>7. \A j, k \in Keys : kids'[j] = kids'[k] => j = k \/ kids'[k] = 0
      BY <1>10, <2>1, <3>4
    <3>8. wtx'.root = wtx.root /\ wtx'.freelist = wtx.freelist
      BY <2>2, <3>3 DEF Meta
    <3>9. RootInv'
      BY <1>1, <1>4, <1>6, <2>3, <3>3, <3>8 DEF RootInv, OldRoot
    <3>10. FreelistInv' /\ ~Finished'
      BY <1>1, <1>4, <1>6, <2>3, <3>3, <3>8 DEF FreelistInv, Finished
    <3>11. \A q \in DOMAIN fresh' : q = wtx'.root \/ \E k \in Keys : kids'[k] = q
      <4>1. \A q \in DOMAIN fresh : q = wtx.root \/ \E k \in Keys : k # i /\ kids[k] = q
        BY <1>10, <2>1, <3>1, <3>5
      <4>2. QED
        BY <1>5, <3>1, <3>4, <3>8, <4>1
    <3>12. dirty' # {} <=> item' = "leaf"
      BY <3>1, <3>3
    <3>13. QED
      BY <3>3, <3>6, <3>7, <3>9, <3>10, <3>11, <3>12 DEF TxInv
  <2>4. CASE item = "root"
    <3>1. /\ fresh'[p] = Branch(kids) /\ UNCHANGED <<kids, dirty>> /\ item' = "freelist"
          /\ wtx' = [wtx EXCEPT !.pgid = pgid, !.root = p] /\ wpc' = "spill"
      BY <2>4 DEF Place
    <3>2. wtx'.root = p /\ wtx'.freelist = wtx.freelist
      BY <2>2, <3>1 DEF Meta
    <3>3. wtx.root = Old.root /\ Old.root \in pending[T]
      BY <1>1, <2>4 DEF RootInv, OldRoot, Replaced
    <3>4. \A k \in Keys : KidInv(k)'
      BY <1>4, <1>5, <1>6, <1>7, <2>1, <2>4, <3>1 DEF KidInv
    <3>5. RootInv'
      BY <1>4, <1>5, <1>6, <1>10, <3>1, <3>2, <3>3 DEF RootInv, NewRoot
    <3>6. FreelistInv' /\ ~Finished'
      BY <1>1, <1>4, <1>6, <2>4, <3>1, <3>2 DEF FreelistInv, Finished
    <3>7. \A q \in DOMAIN fresh' : q = wtx'.root \/ \E k \in Keys : kids'[k] = q
      BY <1>5, <1>10, <2>1, <3>1, <3>2, <3>3
    <3>8. QED
      BY <1>1, <2>1, <2>4, <3>1, <3>4, <3>5, <3>6, <3>7 DEF TxInv
  <2>5. CASE item = "freelist"
    <3>1. /\ fresh'[p] = FreeList(left \cup AllPending) /\ UNCHANGED <<kids, dirty, item>>
          /\ wtx' = [wtx EXCEPT !.pgid = pgid, !.freelist = p] /\ wpc' = "write"
      BY <2>5 DEF Place
    <3>2. wtx'.root = wtx.root /\ wtx'.freelist = p /\ AllPending' = AllPending
      BY <1>4, <2>2, <3>1 DEF Meta, AllPending
    <3>3. wtx.freelist = Old.freelist /\ Old.freelist \in pending[T]
      BY <1>1, <2>5 DEF FreelistInv, Replaced
    <3>4. \A k \in Keys : KidInv(k)'
      BY <1>4, <1>5, <1>6, <1>7, <2>1, <2>5, <3>1 DEF KidInv
    <3>5. RootInv'
      <4>1. NewRoot => NewRoot'
        BY <1>4, <1>5, <1>6, <3>1, <3>2 DEF NewRoot
      <4>2. QED
        BY <1>1, <1>4, <1>6, <1>7, <2>5, <3>1, <3>2, <4>1 DEF RootInv, OldRoot
    <3>6. FreelistInv' /\ Finished'
      BY <1>4, <1>5, <1>6, <1>10, <3>1, <3>2, <3>3 DEF FreelistInv, Finished
    <3>7. \A q \in DOMAIN fresh' : q = wtx'.root \/ q = wtx'.freelist \/ \E k \in Keys : kids'[k] = q
      BY <1>5, <2>1, <3>1, <3>2
    <3>8. QED
      BY <1>1, <2>1, <2>5, <3>1, <3>4, <3>5, <3>6, <3>7 DEF TxInv
  <2>6. QED
    BY <1>1, <2>3, <2>4, <2>5 DEF TypeOK
<1>12. RemapInv'
  BY DEF RemapInv
<1>13. \A r \in Txs' : ReaderInv(r)'
  <2>1. DbMeta.txid >= DbMeta.txid /\ DbMeta.pgid >= DbMeta.pgid
    BY <1>6, MetaTypes
  <2>2. QED
    BY <1>1, <1>2, <1>4, <1>5, <1>6, <2>1, ReadersKept DEF ReaderInv
<1>14. QED
  BY <1>3, <1>5, <1>6, <1>7, <1>8, <1>9, <1>11, <1>12, <1>13 DEF IInv, WInv

LEMMA AllocSteps ==
  ASSUME IInv, AllocFree \/ AllocEnd \/ Remap
  PROVE  IInv'
<1>1. TypeOK /\ RemapInv /\ MetaInv /\ SizeInv
  BY DEF IInv, WInv
<1>2. CASE AllocFree
  <2>1. remapping' = FALSE /\ mapped' \in MapSizes /\ wpc = "alloc"
    BY <1>1, <1>2 DEF AllocFree, RemapInv, TypeOK
  <2>2. Allocated(Min(ids), ids \ {Min(ids)}, wtx.pgid) /\ Place(Min(ids), ids \ {Min(ids)}, wtx.pgid)
    BY <1>2 DEF AllocFree, Allocated
  <2>3. QED
    BY <2>1, <2>2, PlaceStep
<1>3. CASE AllocEnd
  <2>1. remapping' = FALSE /\ mapped' \in MapSizes /\ wpc = "alloc"
    BY <1>1, <1>3 DEF AllocEnd, RemapInv, TypeOK
  <2>2. Allocated(wtx.pgid, ids, wtx.pgid + 1) /\ Place(wtx.pgid, ids, wtx.pgid + 1)
    BY <1>3 DEF AllocEnd, Allocated
  <2>3. QED
    BY <2>1, <2>2, PlaceStep
<1>4. CASE Remap
  <2>1. remapping' = FALSE /\ mapped' = mmapSize(wtx.pgid + 2) /\ wpc = "alloc" /\ ids = {}
    BY <1>1, <1>4 DEF Remap, RemapInv
  <2>2. wtx.pgid \in Nat /\ wtx.pgid + 1 <= NPages /\ NPages \in Nat
    BY <1>1, <2>1, Sizes, RoomLeft, Constants
  <2>3. wtx.pgid + 2 \in Nat /\ wtx.pgid + 2 <= NPages + 1
    BY <2>2
  <2>4. mapped' \in MapSizes
    BY <2>1, <2>3, MapGrows
  <2>5. Allocated(wtx.pgid, ids, wtx.pgid + 1) /\ Place(wtx.pgid, ids, wtx.pgid + 1)
    BY <1>4, <2>1 DEF Remap, Allocated
  <2>6. QED
    BY <2>1, <2>4, <2>5, PlaceStep
<1>5. QED
  BY <1>2, <1>3, <1>4

-----------------------------------------------------------------------------
(* The inductive invariant.                                                *)

LEMMA InitInv ==
  ASSUME Init
  PROVE  IInv
<1> DEFINE m0 == [txid |-> 0, root |-> 3, freelist |-> 2, pgid |-> 4, valid |-> TRUE]
           m1 == [txid |-> 1, root |-> 3, freelist |-> 2, pgid |-> 4, valid |-> TRUE]
<1>1. 2 \in Pages /\ 3 \in Pages /\ 0 \in Txids /\ 1 \in Txids /\ NPages >= 4 /\ NPages \in Nat
  BY Constants
<1>2. m0 \in Meta /\ m1 \in Meta
  BY <1>1 DEF Meta
<1>3. meta \in [0..1 -> Meta] /\ meta[0] = m0 /\ meta[1] = m1 /\ dmeta = meta
  BY <1>2 DEF Init
<1>4. Counts(meta, 1)
  BY <1>3 DEF Counts
<1>5. Old = m1 /\ DbMeta = m1 /\ T = 0
  <2>1. 1 \in 0..1
    OBVIOUS
  <2>2. MetaOf(meta) = m1
    BY <1>3, <1>4, <2>1, CountsMeta
  <2>3. T = 0
    BY DEF Init, NoTx, T
  <2>4. QED
    BY <1>3, <2>2, <2>3 DEF Old, DbMeta
<1>6. Blank \in Content /\ FreeList({}) \in Content /\ Branch(NoKids) \in Content
  BY PageTypes DEF Blank, Content
<1>7. file \in [Pages -> Content] /\ file[2] = FreeList({}) /\ file[3] = Branch(NoKids) /\ disk = file
  BY <1>1, <1>6 DEF Init
<1>8. ReachOf(file, Old) = {3}
  BY <1>5, <1>7 DEF ReachOf, Branch, NoKids
<1>9. TreeOf(file, Old)
  <2>1. file[Old.root].kids = NoKids /\ file[Old.root].kind = "branch" /\ file[Old.freelist].ids = {}
    BY <1>5, <1>7 DEF Branch, FreeList
  <2>2. \A p \in Pages : p < 4 <=> p = 2 \/ p = 3
    BY Constants
  <2>3. QED
    BY <1>1, <1>5, <1>8, <2>1, <2>2 DEF TreeOf, NoKids
<1>10. TypeOK
  <2>1. mapped \in MapSizes
    BY <1>1, MapGrows DEF Init
  <2>2. rd \in [Readers -> [pc : {"idle", "locked", "open", "closing"}, meta : Meta]]
    BY NoTxMeta DEF Init
  <2>3. crashes \in 0..MaxCrashes /\ stamp \in 0..MaxTx /\ acked \in [Keys -> Nat] /\ wrote = acked
    BY BoltAssumption DEF Init, Absent
  <2>4. pending \in [Txids -> SUBSET Pages] /\ ids = {} /\ metalock = "free" /\ remapping = FALSE
        /\ wpc = "idle" /\ item = "leaf" /\ wtx = NoTx /\ dirty = {} /\ fresh = <<>> /\ kids = NoKids
    BY DEF Init
  <2>5. DOMAIN fresh = {}
    BY <2>4
  <2>6. QED
    BY <1>3, <1>7, <2>1, <2>2, <2>3, <2>4, <2>5, NoTxMeta, PageTypes DEF TypeOK
<1>11. MetaInv
  <2>1. m0.txid % 2 = 0 /\ m1.txid % 2 = 1
    OBVIOUS
  <2>2. \A i \in 0..1 : i = 0 \/ i = 1
    OBVIOUS
  <2>3. wpc = "idle" /\ stamp = 0 /\ 1 \in 0..1
    BY DEF Init
  <2>4. QED
    BY <1>3, <1>4, <1>5, <2>1, <2>2, <2>3 DEF MetaInv
<1>12. FreeInv
  <2>1. ids = {} /\ (\A t \in Txids : pending[t] = {}) /\ fresh = <<>> /\ wpc = "idle" /\ wtx.pgid = 0
    BY DEF Init, NoTx
  <2>2. \A p : ~PendingBefore(p)
    BY <2>1 DEF PendingBefore
  <2>3. file[Old.freelist].ids = {}
    BY <1>5, <1>7 DEF FreeList
  <2>4. \A p \in Pages : ~(p < 0)
    BY Constants
  <2>5. QED
    BY <1>1, <1>5, <2>1, <2>2, <2>3, <2>4 DEF FreeInv
<1>13. DurableInv /\ IdleInv
  <2>1. Contents(Old) = [k \in Keys |-> 0]
    BY <1>5, <1>7 DEF Contents, ContentsOf, Branch, NoKids, Absent
  <2>2. QED
    BY <1>7, <2>1 DEF DurableInv, IdleInv, Synced, Init, Absent
<1>14. SizeInv
  <2>1. wpc = "idle" /\ stamp = 0 /\ 0 * PerTx = 0
    BY Constants DEF Init
  <2>2. QED
    BY <1>5, <2>1 DEF SizeInv
<1>15. RemapInv /\ Txs = {}
  BY DEF Init, RemapInv, Txs
<1>16. QED
  BY <1>9, <1>10, <1>11, <1>12, <1>13, <1>14, <1>15 DEF IInv, WInv, Init

LEMMA Inductive ==
  ASSUME IInv, WroteInv, [Next]_vars, "metasync" \notin Faults
  PROVE  IInv'
<1>1. CASE UNCHANGED vars
  <2>1. UNCHANGED Writers /\ UNCHANGED <<mapped, metalock, remapping, rd, crashes>>
    BY <1>1 DEF vars, Writers, lockVars
  <2>2. TypeOK /\ WInv /\ RemapInv /\ \A r \in Txs : ReaderInv(r)
    BY DEF IInv
  <2>3. WInv' /\ \A r \in Readers : rd'[r].meta = rd[r].meta /\ ReaderInv(r) => ReaderInv(r)'
    BY <2>1, <2>2, WriterKept
  <2>4. TypeOK' /\ RemapInv' /\ Txs' = Txs /\ Txs \subseteq Readers
    BY <2>1, <2>2 DEF TypeOK, RemapInv, MustGrow, Txs, Writers, fileVars, freeVars, writerVars
  <2>5. QED
    BY <2>1, <2>2, <2>3, <2>4 DEF IInv
<1>2. CASE \E r \in Readers : BeginTxLock(r) \/ Reader(r)
  BY <1>2, ReaderSteps
<1>3. CASE BeginRWTx
  BY <1>3, BeginRWTxStep
<1>4. CASE \E D \in SUBSET Keys : Commit(D)
  BY <1>4, CommitStep
<1>5. CASE Spill
  BY <1>5, SpillStep
<1>6. CASE AllocFree \/ AllocEnd \/ Remap
  BY <1>6, AllocSteps
<1>7. CASE RemapWait
  BY <1>7, RemapWaitStep
<1>8. CASE WritePages
  BY <1>8, WritePagesStep
<1>9. CASE SyncPages
  BY <1>9, SyncPagesStep
<1>10. CASE WriteMeta
  BY <1>10, WriteMetaStep
<1>11. CASE WriteMetaEnd
  BY <1>11, WriteMetaEndStep
<1>12. CASE SyncMeta
  BY <1>12, SyncMetaStep
<1>13. CASE RollsBack
  BY <1>13, RollsBackStep
<1>14. CASE \E S \in SUBSET Lost, x \in MetaLeft(0), y \in MetaLeft(1) : Crash(S, x, y)
  BY <1>14, CrashStep
<1>15. WriteMetaFails => wpc = "metatorn"
  BY DEF WriteMetaFails
<1>16. QED
  BY <1>1, <1>2, <1>3, <1>4, <1>5, <1>6, <1>7, <1>8, <1>9, <1>10, <1>11, <1>12, <1>13, <1>14, <1>15
     DEF Next, Writer, RollsBack

-----------------------------------------------------------------------------
(* Commit writes what it was asked to write.                               *)

LEMMA WroteInit ==
  ASSUME Init
  PROVE  WroteInv
BY DEF Init, WroteInv

LEMMA WroteKept ==
  ASSUME WroteInv, UNCHANGED <<dirty, kids, fresh, stamp, wrote, acked>>,
         wpc' \in {"idle", "open"} \/ wpc \notin {"idle", "open"}
  PROVE  WroteInv'
BY DEF WroteInv

LEMMA WroteCommit ==
  ASSUME IInv, NEW D \in SUBSET Keys, Commit(D)
  PROVE  WroteInv'
<1>1. TypeOK /\ WInv /\ MetaInv /\ TxInv /\ acked = Contents(Old) /\ wpc = "open"
  BY DEF IInv, WInv, DurableInv, Commit
<1>2. DbMeta = Old /\ DOMAIN fresh = {}
  BY <1>1, MetaFacts DEF TxInv
<1>3. /\ \A k \in Keys : wrote'[k] = IF k \in D THEN stamp ELSE acked[k]
      /\ dirty' = D /\ UNCHANGED <<fresh, stamp, acked>>
  BY <1>1, <1>2 DEF Commit
<1>4. QED
  BY <1>2, <1>3 DEF WroteInv

LEMMA WrotePlace ==
  ASSUME IInv, WroteInv, wpc = "alloc", NEW p, NEW left, NEW pgid, Allocated(p, left, pgid),
         Place(p, left, pgid)
  PROVE  WroteInv'
<1>1. /\ TypeOK /\ TreeOf(file, Old) /\ TxInv /\ (dirty # {} <=> item = "leaf")
      /\ item \in {"leaf", "root", "freelist"} /\ kids \in [Keys -> Pages \cup {0}]
  BY DEF IInv, WInv, TxInv, TypeOK
<1>2. p \in Pages /\ p # 0 /\ p \notin Reach(Old)
  BY AllocatedPage, Constants
<1>3. \A k \in Keys : kids[k] = p => kids[k] \in DOMAIN fresh
  BY <1>1, <1>2 DEF TxInv, KidInv, OldKids, Reach, ReachOf
<1>4. UNCHANGED <<stamp, wrote, acked>> /\ DOMAIN fresh' = DOMAIN fresh \cup {p}
  BY <1>1 DEF Place
<1>5. \A k \in Keys : wrote[k] = IF k \in dirty \/ kids[k] \in DOMAIN fresh THEN stamp ELSE acked[k]
  BY DEF WroteInv
<1>6. CASE item = "leaf"
  <2> DEFINE i == Min(dirty)
  <2>1. i \in dirty /\ i \in Keys
    <3>1. dirty # {} /\ dirty \subseteq Nat /\ dirty \subseteq Keys
      BY <1>1, <1>6, BoltAssumption DEF TypeOK
    <3>2. QED
      BY <3>1, MinProperty
  <2>2. kids' = [kids EXCEPT ![i] = p] /\ dirty' = dirty \ {i}
    BY <1>6 DEF Place
  <2> HIDE DEF i
  <2>3. \A k \in Keys : k # i => (k \in dirty' <=> k \in dirty) /\ kids'[k] = kids[k]
    BY <1>1, <2>2
  <2>4. kids'[i] = p /\ wrote[i] = stamp
    BY <1>1, <1>5, <2>1, <2>2
  <2>5. QED
    BY <1>3, <1>4, <1>5, <2>3, <2>4 DEF WroteInv
<1>7. CASE item \in {"root", "freelist"}
  <2>1. UNCHANGED <<kids, dirty>>
    BY <1>7 DEF Place
  <2>2. QED
    BY <1>3, <1>4, <1>5, <2>1 DEF WroteInv
<1>8. QED
  BY <1>1, <1>6, <1>7

LEMMA WroteAlloc ==
  ASSUME IInv, WroteInv, AllocFree \/ AllocEnd \/ Remap
  PROVE  WroteInv'
<1>1. RemapInv
  BY DEF IInv
<1>2. CASE AllocFree
  <2>1. /\ wpc = "alloc" /\ Allocated(Min(ids), ids \ {Min(ids)}, wtx.pgid)
        /\ Place(Min(ids), ids \ {Min(ids)}, wtx.pgid)
    BY <1>2 DEF AllocFree, Allocated
  <2>2. QED
    BY <2>1, WrotePlace
<1>3. CASE AllocEnd \/ Remap
  <2>1. wpc = "alloc" /\ Allocated(wtx.pgid, ids, wtx.pgid + 1) /\ Place(wtx.pgid, ids, wtx.pgid + 1)
    BY <1>1, <1>3 DEF AllocEnd, Remap, RemapInv, Allocated
  <2>2. QED
    BY <2>1, WrotePlace
<1>4. QED
  BY <1>2, <1>3

LEMMA WroteStep ==
  ASSUME IInv, WroteInv, [Next]_vars
  PROVE  WroteInv'
<1>1. CASE UNCHANGED vars
  BY <1>1 DEF vars, writerVars, WroteInv
<1>2. CASE \E r \in Readers : BeginTxLock(r) \/ Reader(r)
  BY <1>2 DEF Reader, BeginTxLock, BeginTx, RemoveTxUnlock, RemoveTx, ReaderUnchanged, writerVars, WroteInv
<1>3. CASE BeginRWTx
  BY <1>3 DEF BeginRWTx, WroteInv
<1>4. CASE \E D \in SUBSET Keys : Commit(D)
  BY <1>4, WroteCommit
<1>5. CASE Spill \/ WritePages \/ SyncPages \/ WriteMeta \/ WriteMetaEnd
  BY <1>5, WroteKept DEF Spill, WritePages, SyncPages, WriteMeta, WriteMetaEnd
<1>6. CASE AllocFree \/ AllocEnd \/ Remap
  BY <1>6, WroteAlloc
<1>7. CASE RemapWait
  BY <1>7 DEF RemapWait, writerVars, WroteInv
<1>8. CASE SyncMeta
  BY <1>8 DEF SyncMeta, WroteInv
<1>9. CASE Rollback \/ RemapFails \/ (\E S \in SUBSET DOMAIN fresh : WriteFails(S)) \/ WriteMetaFails
  BY <1>9 DEF Rollback, RemapFails, WriteFails, WriteMetaFails, RollbackTo, WroteInv
<1>10. CASE \E S \in SUBSET Lost, x \in MetaLeft(0), y \in MetaLeft(1) : Crash(S, x, y)
  BY <1>10 DEF Crash, WroteInv
<1>11. QED
  BY <1>1, <1>2, <1>3, <1>4, <1>5, <1>6, <1>7, <1>8, <1>9, <1>10 DEF Next, Writer

-----------------------------------------------------------------------------
(* Theorems.  They assume that a sync of the meta page that has been       *)
(* written does not fail: "metasync" is not one of the faults.             *)

(* What db.allocate, freelist.free and Open keep within bounds: every      *)
(* variable has its type, and the pages of every transaction are data      *)
(* pages inside the file.                                                  *)
THEOREM TypesKept ==
  ASSUME "metasync" \notin Faults
  PROVE  Spec => []TypeOK
<1>1. Init => AInv
  BY InitInv, WroteInit DEF AInv
<1>2. AInv /\ [Next]_vars => AInv'
  BY Inductive, WroteStep DEF AInv
<1>3. AInv => TypeOK
  BY DEF AInv, IInv
<1>4. QED
  BY <1>1, <1>2, <1>3, PTL DEF Spec

(* freelist.release, db.allocate and tx.rollback never make a page         *)
(* available that an open read transaction or the current meta reaches.    *)
LEMMA PagesSafe ==
  ASSUME IInv
  PROVE  NoPageReuse
<1>1. TypeOK /\ WInv /\ MetaInv /\ TreeOf(file, Old) /\ FreeInv /\ \A r \in Txs : ReaderInv(r)
  BY DEF IInv, WInv
<1>2. Reach(DbMeta) \cap ids = {} /\ (wpc \in {"spill", "alloc", "write"} => Reach(DbMeta) \cap DOMAIN fresh = {})
  <2>1. CASE wpc # "metasync"
    <3>1. DbMeta = Old
      BY <1>1, <2>1, MetaFacts
    <3>2. QED
      BY <1>1, <3>1, Apart
  <2>2. CASE wpc = "metasync"
    <3>1. DbMeta = NewMeta
      BY <1>1, <2>2, MetaFacts
    <3>2. QED
      BY <1>1, <2>2, <3>1, NewTree
  <2>3. QED
    BY <2>1, <2>2
<1>3. \A r \in RLocked : /\ Reach(rd[r].meta) \cap ids = {}
                         /\ wpc \in {"spill", "alloc", "write"} => Reach(rd[r].meta) \cap DOMAIN fresh = {}
  BY <1>1 DEF RLocked, Txs, ReaderInv
<1>4. QED
  BY <1>2, <1>3 DEF NoPageReuse

(* No page that a read transaction or the current meta leads to is free or *)
(* about to be overwritten: freelist.release, db.allocate, tx.rollback.    *)
THEOREM NoPageReuseHolds ==
  ASSUME "metasync" \notin Faults
  PROVE  Spec => []NoPageReuse
<1>1. Init => AInv
  BY InitInv, WroteInit DEF AInv
<1>2. AInv /\ [Next]_vars => AInv'
  BY Inductive, WroteStep DEF AInv
<1>3. AInv => NoPageReuse
  BY PagesSafe DEF AInv
<1>4. QED
  BY <1>1, <1>2, <1>3, PTL DEF Spec

LEMMA CleanWhenIdle ==
  ASSUME IInv
  PROVE  CheckClean
<1> SUFFICES ASSUME wpc = "idle"
             PROVE  /\ DbMeta.valid
                    /\ 2..(DbMeta.pgid - 1) = Reach(DbMeta) \cup {DbMeta.freelist} \cup ids \cup AllPending
                    /\ (Reach(DbMeta) \cup {DbMeta.freelist}) \cap (ids \cup AllPending) = {}
                    /\ DbMeta.freelist \notin Reach(DbMeta)
                    /\ ids \cap AllPending = {}
  BY DEF CheckClean
<1>1. TypeOK /\ MetaInv /\ TreeOf(file, Old) /\ FreeInv /\ IdleInv /\ T = 0
  BY DEF IInv, WInv, MetaInv
<1>2. DbMeta = Old /\ Old.valid /\ Old \in Meta /\ Old.pgid \in Nat /\ Old.pgid <= NPages
  BY <1>1, MetaFacts, Sizes, MetaTypes
<1>3. \A p : p \in AllPending <=> PendingBefore(p)
  BY <1>1 DEF AllPending, PendingBefore, TypeOK, FreeInv
<1>4. \A p \in Pages : p \in file[Old.freelist].ids <=> p \in ids \/ PendingBefore(p)
  BY <1>1 DEF FreeInv, IdleInv
<1>5. ids \subseteq Pages /\ AllPending \subseteq Pages /\ Reach(Old) \subseteq Pages /\ Old.freelist \in Pages
  BY <1>1, ReachPages DEF TypeOK, AllPending, TreeOf, Reach
<1>6. \A p : p \in 2..(Old.pgid - 1) <=> p \in Pages /\ p < Old.pgid
  BY <1>2, Constants DEF Pages
<1>7. \A p : p \in 2..(Old.pgid - 1) <=> p \in Reach(Old) \cup {Old.freelist} \cup ids \cup AllPending
  BY <1>1, <1>3, <1>4, <1>5, <1>6 DEF TreeOf, Reach
<1>8. \A p \in Reach(Old) \cup {Old.freelist} : p \notin ids /\ ~PendingBefore(p)
  BY <1>1, Apart
<1>9. ids \cap AllPending = {}
  BY <1>1, <1>3, <1>5 DEF FreeInv
<1>10. Old.freelist \notin Reach(Old)
  BY <1>1 DEF TreeOf, Reach
<1>11. QED
  BY <1>2, <1>3, <1>7, <1>8, <1>9, <1>10

(* What tx.Check looks for holds whenever no write transaction is open,    *)
(* failed commits, rollbacks and crashes before it included.               *)
THEOREM CheckCleanHolds ==
  ASSUME "metasync" \notin Faults
  PROVE  Spec => []CheckClean
<1>1. Init => AInv
  BY InitInv, WroteInit DEF AInv
<1>2. AInv /\ [Next]_vars => AInv'
  BY Inductive, WroteStep DEF AInv
<1>3. AInv => CheckClean
  BY CleanWhenIdle DEF AInv
<1>4. QED
  BY <1>1, <1>2, <1>3, PTL DEF Spec

LEMMA FreesOnce ==
  ASSUME IInv
  PROVE  NoDoubleFree
<1> SUFFICES ASSUME wpc = "spill", NEW p \in Replaced PROVE p \notin ids /\ p \notin AllPending
  BY DEF NoDoubleFree
<1>1. TypeOK /\ WInv /\ MetaInv /\ TreeOf(file, Old) /\ FreeInv
  BY DEF IInv, WInv
<1>2. p \in Reach(Old) \cup {Old.freelist} /\ p \notin pending[T]
  BY <1>1, ReplacedOld
<1>3. p \notin ids /\ ~PendingBefore(p)
  BY <1>1, <1>2, Apart
<1>4. QED
  BY <1>1, <1>2, <1>3 DEF AllPending, PendingBefore, TypeOK

(* The panic "page %d already freed" of freelist.free is out of reach.     *)
THEOREM NoDoubleFreeHolds ==
  ASSUME "metasync" \notin Faults
  PROVE  Spec => []NoDoubleFree
<1>1. Init => AInv
  BY InitInv, WroteInit DEF AInv
<1>2. AInv /\ [Next]_vars => AInv'
  BY Inductive, WroteStep DEF AInv
<1>3. AInv => NoDoubleFree
  BY FreesOnce DEF AInv
<1>4. QED
  BY <1>1, <1>2, <1>3, PTL DEF Spec

-----------------------------------------------------------------------------
(* Bolt implements BoltStore.                                              *)

Shown == [r \in Readers |-> IF rd[r].pc = "open" THEN Contents(rd[r].meta) ELSE <<>>]

(* A step that changes no page that somebody looks at is not seen.         *)
LEMMA NotSeen ==
  ASSUME DbMeta' = DbMeta, UNCHANGED <<rd, acked>>, \A p \in Reach(DbMeta) : file'[p] = file[p],
         \A r \in Txs : \A p \in Reach(rd[r].meta) : file'[p] = file[p]
  PROVE  UNCHANGED Store!vars
<1>1. Contents(DbMeta)' = Contents(DbMeta)
  BY SameReach DEF Contents, Reach
<1>2. \A r \in Readers : rd[r].pc = "open" => ContentsOf(file', rd[r].meta) = ContentsOf(file, rd[r].meta)
  <2> SUFFICES ASSUME NEW r \in Readers, rd[r].pc = "open"
               PROVE  ContentsOf(file', rd[r].meta) = ContentsOf(file, rd[r].meta)
    OBVIOUS
  <2>1. \A p \in ReachOf(file, rd[r].meta) : file'[p] = file[p]
    BY DEF Reach, Txs
  <2>2. QED
    BY <2>1, SameReach
<1>3. Shown' = Shown
  BY <1>2 DEF Shown, Contents
<1>4. QED
  BY <1>1, <1>3 DEF Store!vars, Shown

LEMMA ReadersSeen ==
  ASSUME IInv, NEW r \in Readers, BeginTxLock(r) \/ Reader(r)
  PROVE  Store!Next \/ UNCHANGED Store!vars
<1>1. /\ UNCHANGED <<file, meta, acked>>
      /\ rd \in [Readers -> [pc : {"idle", "locked", "open", "closing"}, meta : Meta]]
  BY DEF IInv, TypeOK, Reader, BeginTxLock, BeginTx, RemoveTxUnlock, RemoveTx, ReaderUnchanged, fileVars
<1>2. DbMeta' = DbMeta /\ Contents(DbMeta)' = Contents(DbMeta)
  BY <1>1 DEF DbMeta, MetaOf, Contents
<1>3. \A q \in Readers : rd'[q] = rd[q] => Shown'[q] = Shown[q]
  BY <1>1 DEF Shown, Contents
<1>4. CASE BeginTxLock(r) \/ RemoveTx(r)
  <2>1. \A q \in Readers : Shown'[q] = Shown[q]
    <3>1. Shown'[r] = <<>> /\ Shown[r] = <<>>
      BY <1>1, <1>4 DEF BeginTxLock, RemoveTx, Shown
    <3>2. \A q \in Readers : q # r => rd'[q] = rd[q]
      BY <1>1, <1>4 DEF BeginTxLock, RemoveTx
    <3>3. QED
      BY <1>3, <3>1, <3>2
  <2>2. Shown' = Shown
    BY <2>1 DEF Shown
  <2>3. QED
    BY <1>1, <1>2, <2>2 DEF Store!vars, Shown
<1>5. CASE BeginTx(r)
  <2>1. Shown[r] = <<>> /\ Shown'[r] = Contents(DbMeta)
    BY <1>1, <1>5 DEF BeginTx, Shown, Contents
  <2>2. \A q \in Readers : q # r => Shown'[q] = Shown[q]
    BY <1>1, <1>3, <1>5 DEF BeginTx
  <2>3. Shown' = [Shown EXCEPT ![r] = Contents(DbMeta)]
    BY <2>1, <2>2 DEF Shown
  <2>4. Store!Begin(r)
    BY <1>1, <1>2, <2>1, <2>3 DEF Store!Begin, Store!NoSnap, Shown
  <2>5. QED
    BY <2>4 DEF Store!Next
<1>6. CASE RemoveTxUnlock(r)
  <2>1. Shown'[r] = <<>>
    BY <1>1, <1>6 DEF RemoveTxUnlock, Shown
  <2>2. \A q \in Readers : q # r => Shown'[q] = Shown[q]
    BY <1>1, <1>3, <1>6 DEF RemoveTxUnlock
  <2>3. Shown' = [Shown EXCEPT ![r] = <<>>]
    BY <2>1, <2>2 DEF Shown
  <2>4. CASE Shown[r] # <<>>
    <3>1. Store!End(r)
      BY <1>1, <1>2, <2>3, <2>4 DEF Store!End, Store!NoSnap, Shown
    <3>2. QED
      BY <3>1 DEF Store!Next
  <2>5. CASE Shown[r] = <<>>
    <3>1. Shown' = Shown
      BY <2>3, <2>5 DEF Shown
    <3>2. QED
      BY <1>1, <1>2, <3>1 DEF Store!vars, Shown
  <2>6. QED
    BY <2>4, <2>5
<1>7. QED
  BY <1>4, <1>5, <1>6 DEF Reader

(* The write of the meta page is the instant at which all of a transaction *)
(* appears.                                                                *)
LEMMA PublishSeen ==
  ASSUME IInv, WriteMetaEnd
  PROVE  Store!Next
<1>1. TypeOK /\ WInv /\ wpc = "metatorn"
  BY DEF IInv, WriteMetaEnd
<1>2. DbMeta' = NewMeta /\ DbMeta = Old /\ UNCHANGED <<file, rd, acked>>
  BY WriteMetaEndStep DEF WriteMetaEnd, WriterUnchanged
<1>3. \A k \in Keys : Contents(NewMeta)[k] = Contents(Old)[k] \/ Contents(NewMeta)[k] = stamp
  BY <1>1, NewTree
<1>4. Contents(DbMeta)' = Contents(NewMeta) /\ Contents(DbMeta) = Contents(Old)
  BY <1>2 DEF Contents
<1> DEFINE D == {k \in Keys : Contents(NewMeta)[k] # Contents(Old)[k]}
<1>5. /\ D \in SUBSET Keys
      /\ \A k \in Keys \ D : Contents(DbMeta)'[k] = Contents(DbMeta)[k]
      /\ \A j, k \in D : Contents(DbMeta)'[j] = Contents(DbMeta)'[k]
  BY <1>3, <1>4
<1>6. Shown' = Shown
  BY <1>2 DEF Shown, Contents
<1>7. Store!Publish
  <2>1. \E E \in SUBSET Keys : /\ \A k \in Keys \ E : Contents(DbMeta)'[k] = Contents(DbMeta)[k]
                               /\ \A j, k \in E : Contents(DbMeta)'[j] = Contents(DbMeta)'[k]
    BY <1>5
  <2>2. QED
    BY <1>2, <1>6, <2>1 DEF Store!Publish, Shown
<1>8. QED
  BY <1>7 DEF Store!Next

LEMMA SettleSeen ==
  ASSUME IInv, WroteInv, SyncMeta
  PROVE  Store!Next
<1>1. DbMeta' = DbMeta /\ UNCHANGED <<file, rd>> /\ acked' = Contents(DbMeta)
  BY SyncMetaStep DEF SyncMeta, WriterUnchanged
<1>2. Contents(DbMeta)' = Contents(DbMeta) /\ Shown' = Shown
  BY <1>1 DEF Contents, Shown
<1>3. Store!Settle
  BY <1>1, <1>2 DEF Store!Settle, Shown
<1>4. QED
  BY <1>3 DEF Store!Next

(* A crash keeps what was acknowledged, and at most one transaction more.  *)
LEMMA CrashSeen ==
  ASSUME IInv, NEW S \in SUBSET Lost, NEW m0 \in MetaLeft(0), NEW m1 \in MetaLeft(1), Crash(S, m0, m1)
  PROVE  Store!Next
<1>1. TypeOK /\ WInv /\ MetaInv /\ acked = Contents(Old)
  BY DEF IInv, WInv, DurableInv
<1>2. DbMeta' = Old' /\ acked' = Contents(Old)'
  BY CrashStep
<1>3. Contents(DbMeta)' = ContentsOf(file', Old') /\ acked' = Contents(DbMeta)'
  BY <1>2 DEF Contents
<1>4. \/ ContentsOf(file', Old') = Contents(Old)
      \/ wpc = "metasync" /\ ContentsOf(file', Old') = Contents(NewMeta)
  BY <1>1, CrashMeta
<1>5. wpc = "metasync" => DbMeta = NewMeta
  BY <1>1, MetaFacts
<1>6. Contents(DbMeta)' \in {Contents(DbMeta), acked}
  BY <1>1, <1>3, <1>4, <1>5
<1>7. Shown' = [r \in Readers |-> <<>>]
  BY DEF Shown, Crash
<1>8. Store!Crash
  BY <1>3, <1>6, <1>7 DEF Store!Crash, Store!NoSnap, Shown
<1>9. QED
  BY <1>8 DEF Store!Next

LEMMA StoreStep ==
  ASSUME IInv, WroteInv, [Next]_vars, "metasync" \notin Faults
  PROVE  Store!Next \/ UNCHANGED Store!vars
<1>1. TypeOK /\ WInv /\ MetaInv /\ TreeOf(file, Old) /\ FreeInv /\ \A r \in Txs : ReaderInv(r)
  BY DEF IInv, WInv
<1>2. ASSUME UNCHANGED <<file, meta, rd, acked>> PROVE UNCHANGED Store!vars
  BY <1>2, NotSeen DEF DbMeta, MetaOf
<1>3. CASE UNCHANGED vars
  BY <1>2, <1>3 DEF vars, fileVars
<1>4. CASE \E r \in Readers : BeginTxLock(r) \/ Reader(r)
  BY <1>4, ReadersSeen
<1>5. CASE BeginRWTx \/ (\E D \in SUBSET Keys : Commit(D)) \/ Spill \/ RemapWait \/ SyncPages
  BY <1>2, <1>5 DEF BeginRWTx, Commit, Spill, RemapWait, SyncPages, WriterUnchanged, fileVars
<1>6. CASE AllocFree \/ AllocEnd \/ Remap
  BY <1>2, <1>6 DEF AllocFree, AllocEnd, Remap, Place, WriterUnchanged, fileVars
<1>7. CASE WritePages
  <2>1. /\ file' = [p \in Pages |-> IF p \in DOMAIN fresh THEN fresh[p] ELSE file[p]]
        /\ UNCHANGED <<meta, rd, acked>> /\ wpc = "write"
    BY <1>7 DEF WritePages, WriterUnchanged, Written
  <2>2. DbMeta' = DbMeta /\ DbMeta = Old
    BY <1>1, <2>1, MetaFacts DEF DbMeta, MetaOf
  <2>3. \A p \in Reach(Old) : p \in Pages /\ p \notin DOMAIN fresh
    BY <1>1, Apart
  <2>4. \A r \in Txs : \A p \in Reach(rd[r].meta) : p \notin DOMAIN fresh /\ p \in Pages
    <3> SUFFICES ASSUME NEW r \in Txs PROVE \A p \in Reach(rd[r].meta) : p \notin DOMAIN fresh /\ p \in Pages
      OBVIOUS
    <3>1. ReaderInv(r)
      BY <1>1
    <3>2. Reach(rd[r].meta) \subseteq Pages
      BY <1>1, <3>1, ReachPages DEF ReaderInv, Reach, TypeOK
    <3>3. QED
      BY <2>1, <3>1, <3>2 DEF ReaderInv
  <2>5. QED
    BY <2>1, <2>2, <2>3, <2>4, NotSeen
<1>8. CASE WriteMeta
  <2>1. DbMeta' = DbMeta /\ UNCHANGED <<file, rd, acked>>
    BY <1>8, WriteMetaStep DEF WriteMeta, WriterUnchanged
  <2>2. QED
    BY <2>1, NotSeen
<1>9. CASE WriteMetaEnd
  BY <1>9, PublishSeen
<1>10. CASE SyncMeta
  BY <1>10, SettleSeen
<1>11. CASE RollsBack
  BY <1>11, RollsBackStep, NotSeen
<1>12. CASE \E S \in SUBSET Lost, x \in MetaLeft(0), y \in MetaLeft(1) : Crash(S, x, y)
  BY <1>12, CrashSeen
<1>13. WriteMetaFails => wpc = "metatorn"
  BY DEF WriteMetaFails
<1>14. QED
  BY <1>3, <1>4, <1>5, <1>6, <1>7, <1>8, <1>9, <1>10, <1>11, <1>12, <1>13 DEF Next, Writer, RollsBack

LEMMA StoreInit ==
  ASSUME Init
  PROVE  Store!Init
<1>1. IInv /\ wpc = "idle"
  BY InitInv DEF Init
<1>2. TypeOK /\ MetaInv /\ acked = Contents(Old)
  BY <1>1 DEF IInv, WInv, DurableInv
<1>3. DbMeta = Old /\ acked \in [Keys -> Nat]
  BY <1>1, <1>2, MetaFacts DEF TypeOK
<1>4. Shown = [r \in Readers |-> <<>>]
  BY DEF Init, Shown
<1>5. QED
  BY <1>2, <1>3, <1>4 DEF Store!Init, Store!NoSnap, Shown

(* Commits are atomic, a Commit that returns nil has left all it was given *)
(* to write, every read transaction keeps its snapshot, and a crash loses  *)
(* nothing that Commit has acknowledged.                                   *)
THEOREM BoltImplementsStore ==
  ASSUME "metasync" \notin Faults
  PROVE  Spec => ImplementsStore
<1>1. Init => AInv
  BY InitInv, WroteInit DEF AInv
<1>2. AInv /\ [Next]_vars => AInv'
  BY Inductive, WroteStep DEF AInv
<1>3. Init => Store!Init
  BY StoreInit
<1>4. AInv /\ [Next]_vars => [Store!Next]_(Store!vars)
  BY StoreStep DEF AInv
<1>5. QED
  BY <1>1, <1>2, <1>3, <1>4, PTL DEF Spec, ImplementsStore, Store!Spec
=============================================================================
