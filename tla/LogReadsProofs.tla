--------------------------- MODULE LogReadsProofs ---------------------------
(***************************************************************************)
(* Theorems about LogReads for every table, window, page size and cap.     *)
(*                                                                         *)
(* The inductive invariant says how far a scan has come: what it got lies  *)
(* at or above its cursor, and every row that was there all along and lies *)
(* at or above the cursor was got.  A page taken below the cursor, newest  *)
(* first, carries both down to the next cursor.                            *)
(***************************************************************************)
EXTENDS LogReads, FiniteSetTheorems, TLAPS

Scanning == reader \in {"list", "export"}

(* What is known of the query itself.                                      *)
QueryOK ==
  /\ start \subseteq rows \cup swept
  /\ reader = "export" => pinned
  /\ reader = "context" => pinned /\ hi = lo
  /\ Scanning => step \in {"more", "done"} /\ \A k \in start: k <= hi
  /\ reader = "context" => step \in {"before", "after", "done"}

(* How far a scan has come.                                                *)
ScanProgress ==
  Scanning /\ step = "more" =>
    /\ \A k \in Got: cursor <= k
    /\ \A k \in Steady: cursor <= k => k \in Got
    /\ reader = "export" => Sent < Cap

(* How far a context has come: one side is answered after the other.       *)
NearestOn(side, k) ==
  /\ Cardinality(side) = Around
  /\ \A s \in side: IF k < lo THEN k < s ELSE s < k

ContextProgress ==
  reader = "context" =>
    /\ step = "before" => Len(pages) = 1 /\ pages[1] = {lo}
    /\ step = "after" =>
         /\ Len(pages) = 2 /\ pages[1] = {lo}
         /\ \A k \in Steady \ pages[2]: k < lo => NearestOn(pages[2], k)

IInv ==
  /\ TypeOK /\ QueryOK /\ ScanProgress /\ ContextProgress
  /\ PagesDescend /\ ListMissesNothing /\ ExportCutsOnlyTheTail /\ ContextIsNearest

-----------------------------------------------------------------------------
(* What a scan got after one more page.                                    *)
LEMMA RowsOfAppend ==
  ASSUME NEW scan \in Seq(SUBSET Keys), NEW page \in SUBSET Keys
  PROVE  RowsOf(Append(scan, page)) = RowsOf(scan) \cup page
<1> DEFINE more == Append(scan, page)
<1>1. /\ DOMAIN scan = 1..Len(scan) /\ DOMAIN more = 1..(Len(scan) + 1)
      /\ Len(scan) \in Nat
      /\ \A i \in 1..Len(scan): more[i] = scan[i]
      /\ more[Len(scan) + 1] = page
  OBVIOUS
<1> HIDE DEF more
<1>2. \A i \in DOMAIN more: i \in DOMAIN scan \/ i = Len(scan) + 1
  BY <1>1
<1>3. DOMAIN scan \subseteq DOMAIN more /\ Len(scan) + 1 \in DOMAIN more
  BY <1>1
<1>4. ASSUME NEW x \in RowsOf(more) PROVE x \in RowsOf(scan) \cup page
  BY <1>1, <1>2, <1>4 DEF RowsOf
<1>5. ASSUME NEW x \in RowsOf(scan) \cup page PROVE x \in RowsOf(more)
  BY <1>1, <1>3, <1>5 DEF RowsOf
<1> QED
  BY <1>4, <1>5 DEF more

LEMMA RowsOfType ==
  ASSUME NEW S, NEW scan \in Seq(SUBSET S)
  PROVE  RowsOf(scan) \subseteq S
BY DEF RowsOf

(* The pages are sets of keys: finite, and counted.                        *)
LEMMA KeysFinite ==
  ASSUME NEW P \in SUBSET Keys
  PROVE  IsFiniteSet(P) /\ Cardinality(P) \in Nat
<1>1. MaxKey \in Int /\ 1 \in Int
  BY LogReadsAssumption
<1>2. IsFiniteSet(Keys)
  BY <1>1, FS_Interval DEF Keys
<1>3. IsFiniteSet(P)
  BY <1>2, FS_Subset
<1> QED
  BY <1>3, FS_CardinalityType

(* Pages that do not meet are counted one by one.                          *)
LEMMA DisjointCount ==
  ASSUME NEW P \in SUBSET Keys, NEW Q \in SUBSET Keys, P \cap Q = {}
  PROVE  Cardinality(P \cup Q) = Cardinality(P) + Cardinality(Q)
<1>1. Cardinality(P \cup Q) = Cardinality(P) + Cardinality(Q) - Cardinality(P \cap Q)
  BY KeysFinite, FS_Union
<1>2. Cardinality(P \cap Q) = 0
  BY FS_EmptySet
<1> QED
  BY <1>1, <1>2, KeysFinite

(* A page below the cursor keeps the pages descending.                     *)
LEMMA DescendAppend ==
  ASSUME NEW scan \in Seq(SUBSET Keys), NEW page \in SUBSET Keys,
         \A i, j \in DOMAIN scan: i < j => \A k \in scan[i], m \in scan[j]: m < k,
         \A k \in RowsOf(scan), m \in page: m < k
  PROVE  \A i, j \in DOMAIN Append(scan, page):
           i < j => \A k \in Append(scan, page)[i], m \in Append(scan, page)[j]: m < k
<1> DEFINE more == Append(scan, page)
<1>1. /\ DOMAIN scan = 1..Len(scan) /\ DOMAIN more = 1..(Len(scan) + 1)
      /\ Len(scan) \in Nat
      /\ \A i \in 1..Len(scan): more[i] = scan[i]
      /\ more[Len(scan) + 1] = page
  OBVIOUS
<1> HIDE DEF more
<1>2. SUFFICES ASSUME NEW i \in DOMAIN more, NEW j \in DOMAIN more, i < j,
                      NEW k \in more[i], NEW m \in more[j]
               PROVE  m < k
  BY DEF more
<1>3. i \in DOMAIN scan /\ more[i] = scan[i]
  BY <1>1, <1>2
<1>4. CASE j \in DOMAIN scan
  BY <1>1, <1>2, <1>3, <1>4
<1>5. CASE j = Len(scan) + 1
  <2>1. k \in RowsOf(scan)
    BY <1>2, <1>3 DEF RowsOf
  <2> QED
    BY <1>1, <1>2, <1>5, <2>1
<1> QED
  BY <1>1, <1>2, <1>4, <1>5
LEMMA InitIInv == ASSUME Init PROVE IInv
<1>1. MaxKey \in Nat /\ 1 <= MaxKey
  BY LogReadsAssumption
<1>2. pages \in Seq(SUBSET Keys)
  BY DEF Init
<1>3. now \in Nat /\ 1 <= now /\ rows \subseteq 1..now /\ swept = {}
  BY <1>1 DEF Init, Keys
<1>4. lo \in 0..MaxKey /\ hi \in 0..MaxKey /\ cursor \in 0..(MaxKey + 1)
  <2>1. 0 \in 0..MaxKey /\ 0 \in 0..(MaxKey + 1)
    BY <1>1
  <2> QED
    BY <2>1 DEF Init
<1>5. /\ reader \in {"none", "list", "export", "context"}
      /\ step \in {"idle", "more", "before", "after", "done"}
      /\ now \in Keys /\ start \subseteq Keys
      /\ pinned \in BOOLEAN /\ flagged \in BOOLEAN
  BY DEF Init
<1>6. TypeOK
  BY <1>2, <1>3, <1>4, <1>5 DEF TypeOK
<1> QED
  BY <1>6 DEF Init, IInv, QueryOK, Scanning, ScanProgress, ContextProgress,
     PagesDescend, ListMissesNothing, ExportCutsOnlyTheTail, ContextIsNearest

-----------------------------------------------------------------------------
(* The table moves: what the reader holds stays, and there are at most     *)
(* fewer rows it owes.                                                     *)
LEMMA TableMoves ==
  ASSUME IInv, TypeOK', UNCHANGED <<query, step, cursor, pages>>,
         start \subseteq rows' \cup swept', Steady' \subseteq Steady
  PROVE  IInv'
<1>1. QueryOK'
  BY DEF IInv, QueryOK, Scanning, query
<1>2. Got' = Got /\ Sent' = Sent
  BY DEF Got, Sent, query
<1>3. ScanProgress'
  BY <1>2 DEF IInv, ScanProgress, Scanning, query
<1>4. ContextProgress'
  BY DEF IInv, ContextProgress, NearestOn, query
<1>5. PagesDescend'
  BY DEF IInv, PagesDescend, query
<1>6. ListMissesNothing' /\ ExportCutsOnlyTheTail'
  BY <1>2 DEF IInv, ListMissesNothing, ExportCutsOnlyTheTail, query
<1>7. ContextIsNearest'
  BY <1>2 DEF IInv, ContextIsNearest, query
<1> QED
  BY <1>1, <1>3, <1>4, <1>5, <1>6, <1>7 DEF IInv

LEMMA TickStep == ASSUME IInv, Tick PROVE IInv'
<1>1. TypeOK'
  BY LogReadsAssumption DEF IInv, TypeOK, Tick, Keys, query
<1>2. rows \subseteq Nat /\ lo \in Nat /\ now \in Nat /\ now' = now + 1 /\ Span \in Nat
  BY LogReadsAssumption DEF IInv, TypeOK, Tick, Keys
<1>3. Lo \in Nat /\ Lo' \in Nat /\ Lo <= Lo'
  <2>1. From(now) \in Nat /\ From(now + 1) \in Nat /\ From(now) <= From(now + 1)
    BY <1>2 DEF From
  <2> QED
    BY <1>2, <2>1 DEF Lo, Tick, query
<1>4. Steady' \subseteq Steady
  <2>1. SUFFICES ASSUME NEW k \in Steady' PROVE k \in Steady
    OBVIOUS
  <2>2. k \in start \cap rows /\ (reader # "context" => k >= Lo')
    BY DEF Steady, Tick, query
  <2>3. k \in Nat
    BY <1>2, <2>2
  <2> QED
    BY <1>3, <2>2, <2>3 DEF Steady
<1> QED
  BY <1>1, <1>4, TableMoves DEF Tick, IInv, QueryOK

LEMMA InsertStep == ASSUME IInv, NEW k \in Keys, Insert(k) PROVE IInv'
<1>1. TypeOK'
  BY LogReadsAssumption DEF IInv, TypeOK, Insert, Keys, query
<1>2. Steady' \subseteq Steady
  BY DEF IInv, TypeOK, QueryOK, Insert, query, Steady, Lo
<1> QED
  BY <1>1, <1>2, TableMoves DEF Insert, IInv, QueryOK

LEMMA SweepStep == ASSUME IInv, NEW cutoff \in 2..now, Sweep(cutoff) PROVE IInv'
<1>1. TypeOK'
  BY LogReadsAssumption DEF IInv, TypeOK, Sweep, Keys, query
<1>2. Steady' \subseteq Steady
  BY DEF IInv, TypeOK, Sweep, query, Steady, Lo
<1> QED
  BY <1>1, <1>2, TableMoves DEF Sweep, IInv, QueryOK

LEMMA CloseStep == ASSUME IInv, Close PROVE IInv'
<1>1. pages' \in Seq(SUBSET Keys)
  BY DEF Close
<1>2. 0 \in 0..MaxKey /\ 0 \in 0..(MaxKey + 1)
  BY LogReadsAssumption
<1>3. /\ now' \in Keys /\ rows' \subseteq 1..now' /\ swept' \subseteq 1..now'
      /\ rows' \cap swept' = {}
  BY DEF IInv, TypeOK, Close, table
<1>4. /\ reader' \in {"none", "list", "export", "context"}
      /\ step' \in {"idle", "more", "before", "after", "done"}
      /\ pinned' \in BOOLEAN /\ flagged' \in BOOLEAN /\ start' \subseteq Keys
      /\ lo' \in 0..MaxKey /\ hi' \in 0..MaxKey /\ cursor' \in 0..(MaxKey + 1)
  BY <1>2 DEF Close
<1>5. TypeOK'
  BY <1>1, <1>3, <1>4 DEF TypeOK
<1> QED
  BY <1>5 DEF Close, IInv, QueryOK, Scanning, ScanProgress, ContextProgress,
     PagesDescend, ListMissesNothing, ExportCutsOnlyTheTail, ContextIsNearest

(* A scan starts above every row, with nothing got.                        *)
LEMMA NothingGot == RowsOf(<<>>) = {} /\ Cardinality(RowsOf(<<>>)) = 0
<1>1. RowsOf(<<>>) = {}
  BY DEF RowsOf
<1> QED
  BY <1>1, FS_EmptySet

LEMMA OpenScan ==
  ASSUME IInv, NEW kind \in {"list", "export"}, NEW isPinned \in BOOLEAN,
         NEW l \in Keys, NEW h \in Keys, Open(kind, isPinned, l, h),
         kind = "export" => isPinned, step' = "more", flagged' \in BOOLEAN
  PROVE  IInv'
<1>1. pages' \in Seq(SUBSET Keys) /\ pages' = <<>> /\ DOMAIN pages' = {}
  BY DEF Open
<1>2. MaxKey \in Nat
  BY LogReadsAssumption
<1>3. TypeOK'
  <2>1. /\ now' \in Keys /\ rows' \subseteq 1..now' /\ swept' \subseteq 1..now'
        /\ rows' \cap swept' = {}
    BY DEF IInv, TypeOK, Open, table
  <2>2. lo' \in 0..MaxKey /\ hi' \in 0..MaxKey /\ cursor' \in 0..(MaxKey + 1)
    BY <1>2 DEF Open, Keys
  <2>3. rows \subseteq Keys
    BY <1>2 DEF IInv, TypeOK, Keys
  <2>4. /\ reader' \in {"none", "list", "export", "context"}
        /\ step' \in {"idle", "more", "before", "after", "done"}
        /\ pinned' \in BOOLEAN /\ flagged' \in BOOLEAN /\ start' \subseteq Keys
    BY <2>3 DEF Open
  <2> QED
    BY <1>1, <2>1, <2>2, <2>4 DEF TypeOK
<1>4. QueryOK'
  BY DEF Open, QueryOK, Scanning, table
<1>5. Got' = {} /\ Sent' = 0
  BY <1>1, NothingGot DEF Got, Sent
<1>6. \A k \in Steady': k < cursor'
  BY <1>2 DEF IInv, TypeOK, Steady, Open, table, Keys
<1>7. ScanProgress'
  <2>1. \A k \in Steady': ~(cursor' <= k)
    BY <1>2, <1>6, <1>3 DEF TypeOK, Steady, Keys
  <2> QED
    BY <1>5, <2>1, LogReadsAssumption DEF ScanProgress
<1>8. ContextProgress'
  BY DEF Open, ContextProgress
<1>9. PagesDescend'
  BY <1>1 DEF PagesDescend
<1> QED
  BY <1>3, <1>4, <1>7, <1>8, <1>9
     DEF IInv, Open, ListMissesNothing, ExportCutsOnlyTheTail, ContextIsNearest

LEMMA FromIsKey == ASSUME NEW t \in Keys PROVE From(t) \in Keys
BY LogReadsAssumption DEF From, Keys

LEMMA OpenListStep == ASSUME IInv, OpenList PROVE IInv'
<1>1. now \in Keys /\ From(now) \in Keys
  BY FromIsKey DEF IInv, TypeOK
<1>2. step' = "more" /\ flagged' = FALSE
  BY DEF OpenList
<1>3. CASE Open("list", FALSE, From(now), now)
  BY <1>1, <1>2, <1>3, OpenScan
<1>4. ASSUME NEW l \in Keys, NEW h \in Keys, Open("list", TRUE, l, h) PROVE IInv'
  BY <1>2, <1>4, OpenScan
<1> QED
  BY <1>3, <1>4 DEF OpenList

LEMMA OpenExportStep == ASSUME IInv, OpenExport PROVE IInv'
<1>1. now \in Keys /\ From(now) \in Keys
  BY FromIsKey DEF IInv, TypeOK
<1>2. step' = "more" /\ flagged' \in BOOLEAN
  BY DEF OpenExport
<1>3. CASE Open("export", TRUE, From(now), now)
  BY <1>1, <1>2, <1>3, OpenScan
<1>4. ASSUME NEW l \in Keys, NEW h \in Keys, Open("export", TRUE, l, h) PROVE IInv'
  BY <1>2, <1>4, OpenScan
<1> QED
  BY <1>3, <1>4 DEF OpenExport

-----------------------------------------------------------------------------
(* A page of a scan: below the cursor, in the window, the newest of them.  *)
ScanPage(page, n) ==
  /\ Scanning /\ step = "more"
  /\ page \subseteq Window(Lo) /\ IsNewest(page, Window(Lo), n)
  /\ pages' = Append(pages, page)
  /\ UNCHANGED <<table, query>>

LEMMA ScanPageFacts ==
  ASSUME IInv, NEW page, NEW n \in Nat, ScanPage(page, n)
  PROVE  /\ page \in SUBSET Keys /\ pages' \in Seq(SUBSET Keys)
         /\ Got \in SUBSET Keys /\ Got' = Got \cup page
         /\ Cardinality(page) \in Nat /\ Sent \in Nat
         /\ Sent' = Sent + Cardinality(page)
         /\ Steady' = Steady /\ Steady \subseteq Keys
         /\ \A g \in Got, k \in page: k < g
         /\ \A k \in Steady \ Got': /\ Cardinality(page) = n
                                    /\ \A g \in Got': k < g
         /\ PagesDescend'
<1>1. /\ cursor \in Nat /\ lo \in Nat /\ hi \in Nat
      /\ pages \in Seq(SUBSET Keys) /\ rows \subseteq Keys
      /\ Keys \subseteq Nat
  BY LogReadsAssumption DEF IInv, TypeOK, Keys
<1>2. page \in SUBSET Keys
  BY <1>1 DEF ScanPage, Window
<1>3. pages' \in Seq(SUBSET Keys)
  BY <1>1, <1>2 DEF ScanPage
<1>4. Got \in SUBSET Keys
  BY <1>1, RowsOfType DEF Got
<1>5. Got' = Got \cup page
  <2>1. RowsOf(Append(pages, page)) = RowsOf(pages) \cup page
    BY <1>1, <1>2, RowsOfAppend
  <2>2. Got' = RowsOf(Append(pages, page))
    BY DEF Got, ScanPage, RowsOf
  <2> QED
    BY <2>1, <2>2 DEF Got
<1>6. \A g \in Got: cursor <= g
  BY DEF IInv, ScanProgress, ScanPage
<1>7. \A k \in page: k < cursor
  BY DEF ScanPage, Window
<1>8. \A g \in Got, k \in page: k < g
  <2>1. SUFFICES ASSUME NEW g \in Got, NEW k \in page PROVE k < g
    OBVIOUS
  <2>2. g \in Nat /\ k \in Nat
    BY <1>1, <1>2, <1>4
  <2> QED
    BY <1>1, <1>6, <1>7, <2>2
<1>9. Got \cap page = {}
  <2>1. \A g \in Got \cap page: g \in Nat /\ g < g
    BY <1>1, <1>4, <1>8
  <2> QED
    BY <2>1
<1>10. /\ Cardinality(page) \in Nat /\ Sent \in Nat
       /\ Sent' = Sent + Cardinality(page)
  BY <1>2, <1>4, <1>5, <1>9, KeysFinite, DisjointCount DEF Sent
<1>11. Steady' = Steady /\ Steady \subseteq Keys
  BY <1>1 DEF Steady, ScanPage, table, query, Lo
<1>12. ASSUME NEW k \in Steady \ Got'
       PROVE  Cardinality(page) = n /\ \A g \in Got': k < g
  <2>1. k \in Nat /\ k \in rows /\ k \in start /\ k \notin Got /\ k \notin page
    BY <1>1, <1>5, <1>11, <1>12 DEF Steady
  <2>2. ~(cursor <= k)
    BY <1>12, <2>1 DEF IInv, ScanProgress, ScanPage
  <2>3. k < cursor
    BY <1>1, <2>1, <2>2
  <2>4. Lo <= k /\ k <= hi
    <3>1. k <= hi
      BY <2>1 DEF IInv, QueryOK, ScanPage
    <3>2. Lo \in Nat
      BY <1>1, LogReadsAssumption DEF Lo, From, IInv, TypeOK, Keys
    <3> QED
      BY <1>12, <2>1, <3>1, <3>2 DEF Steady, ScanPage, Scanning
  <2>5. k \in Window(Lo) \ page
    BY <2>1, <2>3, <2>4 DEF Window
  <2>6. \A g \in page: k < g
    BY <2>5 DEF ScanPage, IsNewest
  <2>7. \A g \in Got: k < g
    <3>1. SUFFICES ASSUME NEW g \in Got PROVE k < g
      OBVIOUS
    <3>2. g \in Nat /\ cursor <= g
      BY <1>1, <1>4, <1>6
    <3> QED
      BY <1>1, <2>1, <2>3, <3>2
  <2>8. Cardinality(page) = n
    BY <1>10, <2>5 DEF ScanPage, IsNewest, First
  <2> QED
    BY <1>5, <2>6, <2>7, <2>8
<1>13. PagesDescend'
  <2>1. \A i, j \in DOMAIN pages: i < j => \A k \in pages[i], m \in pages[j]: m < k
    BY DEF IInv, PagesDescend, ScanPage, Scanning
  <2>2. \A k \in RowsOf(pages), m \in page: m < k
    BY <1>8 DEF Got
  <2> QED
    BY <1>1, <1>2, <2>1, <2>2, DescendAppend DEF PagesDescend, ScanPage
<1> QED
  BY <1>2, <1>3, <1>4, <1>5, <1>8, <1>10, <1>11, <1>12, <1>13

(* The scan goes on: the page's oldest row is the cursor.                  *)
LEMMA ScanGoesOn ==
  ASSUME IInv, NEW page, NEW n \in Nat, ScanPage(page, n),
         NEW last \in page, \A k \in page: last <= k,
         cursor' = last, UNCHANGED step,
         reader = "export" => Sent' < Cap
  PROVE  IInv'
<1>1. /\ page \in SUBSET Keys /\ pages' \in Seq(SUBSET Keys)
      /\ Got \in SUBSET Keys /\ Got' = Got \cup page
      /\ Steady' = Steady /\ Steady \subseteq Keys
      /\ \A g \in Got, k \in page: k < g
      /\ \A k \in Steady \ Got': \A g \in Got': k < g
      /\ PagesDescend'
  BY ScanPageFacts
<1>2. Keys \subseteq Nat /\ Keys \subseteq 0..(MaxKey + 1)
  BY LogReadsAssumption DEF Keys
<1>3. TypeOK'
  BY <1>1, <1>2 DEF IInv, TypeOK, ScanPage, table, query
<1>4. QueryOK'
  BY DEF IInv, QueryOK, Scanning, ScanPage, table, query
<1>5. \A k \in Got': last <= k
  <2>1. SUFFICES ASSUME NEW k \in Got' PROVE last <= k
    OBVIOUS
  <2>2. k \in Nat /\ last \in Nat
    BY <1>1, <1>2
  <2>3. CASE k \in page
    BY <2>3
  <2>4. CASE k \in Got
    <3>1. last < k
      BY <1>1, <2>4
    <3> QED
      BY <2>2, <3>1
  <2> QED
    BY <1>1, <2>3, <2>4
<1>6. \A k \in Steady': last <= k => k \in Got'
  <2>1. SUFFICES ASSUME NEW k \in Steady, k \notin Got' PROVE ~(last <= k)
    BY <1>1
  <2>2. k \in Nat /\ last \in Nat /\ last \in Got'
    BY <1>1, <1>2, <2>1
  <2>3. k < last
    BY <1>1, <2>1, <2>2
  <2> QED
    BY <2>2, <2>3
<1>7. ScanProgress'
  BY <1>5, <1>6 DEF ScanProgress, ScanPage, query
<1>8. ContextProgress' /\ ListMissesNothing' /\ ExportCutsOnlyTheTail' /\ ContextIsNearest'
  BY DEF ContextProgress, ListMissesNothing, ExportCutsOnlyTheTail, ContextIsNearest,
         ScanPage, Scanning, query
<1> QED
  BY <1>1, <1>3, <1>4, <1>7, <1>8 DEF IInv

(* The scan ends: a list at a short page, an export at the cap or a short  *)
(* page.                                                                   *)
LEMMA ScanEnds ==
  ASSUME IInv, NEW page, NEW n \in Nat, ScanPage(page, n),
         step' = "done", UNCHANGED cursor,
         reader = "list" => Cardinality(page) # n,
         reader = "export" => (Cardinality(page) = n => Sent' = Cap)
  PROVE  IInv'
<1>1. /\ page \in SUBSET Keys /\ pages' \in Seq(SUBSET Keys)
      /\ Got \in SUBSET Keys /\ Got' = Got \cup page
      /\ Steady' = Steady /\ Steady \subseteq Keys
      /\ \A k \in Steady \ Got': Cardinality(page) = n /\ \A g \in Got': k < g
      /\ PagesDescend'
  BY ScanPageFacts
<1>2. TypeOK'
  BY <1>1 DEF IInv, TypeOK, ScanPage, table, query
<1>3. QueryOK'
  BY DEF IInv, QueryOK, Scanning, ScanPage, table, query
<1>4. ListMissesNothing'
  BY <1>1 DEF ListMissesNothing, query, ScanPage
<1>5. ExportCutsOnlyTheTail'
  BY <1>1 DEF ExportCutsOnlyTheTail, query, ScanPage
<1>6. ScanProgress' /\ ContextProgress' /\ ContextIsNearest'
  BY DEF ScanProgress, ContextProgress, ContextIsNearest, ScanPage, Scanning, query
<1> QED
  BY <1>1, <1>2, <1>3, <1>4, <1>5, <1>6 DEF IInv

LEMMA ListPageStep == ASSUME IInv, ListPage PROVE IInv'
<1>1. PICK page \in SUBSET Window(Lo):
        /\ IsNewest(page, Window(Lo), Limit)
        /\ pages' = Append(pages, page)
        /\ IF Cardinality(page) = Limit
           THEN \E last \in page: /\ \A k \in page: last <= k
                                  /\ cursor' = last
                                  /\ UNCHANGED step
           ELSE step' = "done" /\ UNCHANGED cursor
  BY DEF ListPage
<1>2. reader = "list" /\ UNCHANGED <<table, query>> /\ Limit \in Nat
  BY LogReadsAssumption DEF ListPage
<1>3. ScanPage(page, Limit)
  BY <1>1, <1>2 DEF ScanPage, Scanning, ListPage
<1>4. CASE Cardinality(page) = Limit
  <2>1. PICK last \in page: (\A k \in page: last <= k) /\ cursor' = last /\ UNCHANGED step
    BY <1>1, <1>4
  <2> QED
    BY <1>2, <1>3, <2>1, ScanGoesOn
<1>5. CASE Cardinality(page) # Limit
  BY <1>1, <1>2, <1>3, <1>5, ScanEnds
<1> QED
  BY <1>4, <1>5

LEMMA ExportBatchStep == ASSUME IInv, ExportBatch PROVE IInv'
<1> DEFINE take == IF Cap - Sent < Limit THEN Cap - Sent ELSE Limit
<1>1. PICK page \in SUBSET Window(Lo):
        /\ IsNewest(page, Window(Lo), take)
        /\ pages' = Append(pages, page)
        /\ IF Sent + Cardinality(page) < Cap /\ Cardinality(page) = Limit
           THEN \E last \in page: /\ \A k \in page: last <= k
                                  /\ cursor' = last
                                  /\ UNCHANGED step
           ELSE step' = "done" /\ UNCHANGED cursor
  BY DEF ExportBatch
<1>2. reader = "export" /\ step = "more" /\ UNCHANGED <<table, query>>
  BY DEF ExportBatch
<1>3. Limit \in Nat \ {0} /\ Cap \in Nat \ {0}
  BY LogReadsAssumption
<1>4. Sent \in Nat /\ Sent < Cap
  <2>1. Got \in SUBSET Keys
    BY RowsOfType DEF Got, IInv, TypeOK
  <2> QED
    BY <1>2, <2>1, KeysFinite DEF IInv, ScanProgress, Scanning, Sent
<1>5. take \in Nat
  BY <1>3, <1>4
<1>6. ScanPage(page, take)
  BY <1>1, <1>2 DEF ScanPage, Scanning
<1>7. Cardinality(page) \in Nat /\ Sent' = Sent + Cardinality(page)
  <2> HIDE DEF take
  <2> QED
    BY <1>5, <1>6, ScanPageFacts
<1>8. CASE Sent + Cardinality(page) < Cap /\ Cardinality(page) = Limit
  <2>1. PICK last \in page: (\A k \in page: last <= k) /\ cursor' = last /\ UNCHANGED step
    BY <1>1, <1>8
  <2>2. Sent' < Cap
    BY <1>7, <1>8
  <2> HIDE DEF take
  <2> QED
    BY <1>5, <1>6, <2>1, <2>2, ScanGoesOn
<1>9. CASE ~(Sent + Cardinality(page) < Cap /\ Cardinality(page) = Limit)
  <2>1. step' = "done" /\ UNCHANGED cursor
    BY <1>1, <1>9
  <2>2. Cardinality(page) = take => Sent' = Cap
    BY <1>3, <1>4, <1>7, <1>9
  <2>3. reader # "list"
    BY <1>2
  <2> HIDE DEF take
  <2> QED
    BY <1>5, <1>6, <2>1, <2>2, <2>3, ScanEnds
<1> QED
  BY <1>8, <1>9

-----------------------------------------------------------------------------
(* The context.                                                            *)
LEMMA OpenContextStep == ASSUME IInv, OpenContext PROVE IInv'
<1>1. PICK anchor \in rows:
        /\ reader' = "context" /\ pinned' = TRUE /\ lo' = anchor /\ hi' = anchor
        /\ pages' = <<{anchor}>>
  BY DEF OpenContext
<1>2. rows \subseteq Keys /\ Keys \subseteq 0..MaxKey
  BY LogReadsAssumption DEF IInv, TypeOK, Keys
<1>3. pages' \in Seq(SUBSET Keys) /\ Len(pages') = 1 /\ pages'[1] = {lo'}
  BY <1>1, <1>2
<1>4. TypeOK'
  <2>1. /\ now' \in Keys /\ rows' \subseteq 1..now' /\ swept' \subseteq 1..now'
        /\ rows' \cap swept' = {}
    BY DEF IInv, TypeOK, OpenContext, table
  <2>2. lo' \in 0..MaxKey /\ hi' \in 0..MaxKey /\ cursor' \in 0..(MaxKey + 1)
    <3>1. 0 \in 0..(MaxKey + 1)
      BY LogReadsAssumption
    <3>2. lo' \in 0..MaxKey /\ hi' \in 0..MaxKey
      BY <1>1, <1>2, Zenon
    <3> QED
      BY <3>1, <3>2 DEF OpenContext
  <2>3. /\ reader' \in {"none", "list", "export", "context"}
        /\ step' \in {"idle", "more", "before", "after", "done"}
        /\ pinned' \in BOOLEAN /\ flagged' \in BOOLEAN /\ start' \subseteq Keys
    BY <1>1, <1>2 DEF OpenContext
  <2> QED
    BY <1>3, <2>1, <2>2, <2>3 DEF TypeOK
<1>5. QueryOK'
  BY <1>1 DEF OpenContext, QueryOK, Scanning, table
<1>6. ContextProgress'
  BY <1>3 DEF ContextProgress, OpenContext
<1> QED
  BY <1>1, <1>4, <1>5, <1>6 DEF IInv, OpenContext, ScanProgress, Scanning, PagesDescend,
     ListMissesNothing, ExportCutsOnlyTheTail, ContextIsNearest

(* One more side of a context, and what it leaves out.                     *)
LEMMA SideFacts ==
  ASSUME IInv, reader = "context", UNCHANGED <<table, query>>,
         NEW page \in SUBSET rows, pages' = Append(pages, page)
  PROVE  /\ page \in SUBSET Keys /\ rows \subseteq Nat /\ lo \in Nat
         /\ pages' \in Seq(SUBSET Keys)
         /\ Len(pages) \in Nat /\ Len(pages') = Len(pages) + 1
         /\ \A i \in 1..Len(pages): pages'[i] = pages[i]
         /\ pages'[Len(pages) + 1] = page
         /\ Cardinality(page) \in Nat
         /\ Steady' = Steady /\ Steady \subseteq rows
<1>1. /\ pages \in Seq(SUBSET Keys) /\ rows \subseteq Keys /\ lo \in Nat
      /\ Keys \subseteq Nat
  BY LogReadsAssumption DEF IInv, TypeOK, Keys
<1>2. page \in SUBSET Keys
  BY <1>1
<1>3. Steady' = Steady /\ Steady \subseteq rows
  BY DEF Steady, table, query
<1> QED
  BY <1>1, <1>2, <1>3, KeysFinite

LEMMA ContextBeforeStep == ASSUME IInv, ContextBefore PROVE IInv'
<1>1. PICK page \in SUBSET rows:
        /\ IsNewest(page, {k \in rows: k < lo}, Around)
        /\ pages' = Append(pages, page)
  BY DEF ContextBefore
<1>2. reader = "context" /\ step = "before" /\ step' = "after"
      /\ UNCHANGED <<table, query, cursor>>
  BY DEF ContextBefore
<1>3. /\ page \in SUBSET Keys /\ rows \subseteq Nat /\ lo \in Nat
      /\ pages' \in Seq(SUBSET Keys)
      /\ Len(pages) \in Nat /\ Len(pages') = Len(pages) + 1
      /\ \A i \in 1..Len(pages): pages'[i] = pages[i]
      /\ pages'[Len(pages) + 1] = page
      /\ Cardinality(page) \in Nat
      /\ Steady' = Steady /\ Steady \subseteq rows
  BY <1>1, <1>2, SideFacts
<1>4. Len(pages) = 1 /\ pages[1] = {lo}
  BY <1>2 DEF IInv, ContextProgress
<1>5. Len(pages') = 2 /\ pages'[1] = {lo} /\ pages'[2] = page
  BY <1>3, <1>4
<1>6. \A k \in Steady' \ page: k < lo => NearestOn(page, k)
  BY <1>1, <1>3, LogReadsAssumption DEF IsNewest, First, NearestOn
<1>7. ContextProgress'
  BY <1>2, <1>5, <1>6 DEF ContextProgress, NearestOn, query
<1>8. TypeOK'
  BY <1>2, <1>3 DEF IInv, TypeOK, table, query
<1>9. QueryOK'
  BY <1>2 DEF IInv, QueryOK, Scanning, table, query
<1> QED
  BY <1>2, <1>7, <1>8, <1>9 DEF IInv, query, ScanProgress, Scanning, PagesDescend,
     ListMissesNothing, ExportCutsOnlyTheTail, ContextIsNearest

LEMMA ContextAfterStep == ASSUME IInv, ContextAfter PROVE IInv'
<1>1. PICK page \in SUBSET rows:
        /\ IsOldest(page, {k \in rows: k > lo}, Around)
        /\ pages' = Append(pages, page)
  BY DEF ContextAfter
<1>2. reader = "context" /\ step = "after" /\ step' = "done"
      /\ UNCHANGED <<table, query, cursor>>
  BY DEF ContextAfter
<1>3. /\ page \in SUBSET Keys /\ rows \subseteq Nat /\ lo \in Nat
      /\ pages' \in Seq(SUBSET Keys)
      /\ Len(pages) \in Nat /\ Len(pages') = Len(pages) + 1
      /\ \A i \in 1..Len(pages): pages'[i] = pages[i]
      /\ pages'[Len(pages) + 1] = page
      /\ Cardinality(page) \in Nat
      /\ Steady' = Steady /\ Steady \subseteq rows
  BY <1>1, <1>2, SideFacts
<1>4. /\ Len(pages) = 2 /\ pages[1] = {lo}
      /\ \A k \in Steady \ pages[2]: k < lo => NearestOn(pages[2], k)
  BY <1>2 DEF IInv, ContextProgress
<1>5. DOMAIN pages' = 1..3 /\ pages'[1] = {lo} /\ pages'[2] = pages[2] /\ pages'[3] = page
  BY <1>3, <1>4
<1>6. \A k \in Steady' \ page: k > lo => NearestOn(page, k)
  BY <1>1, <1>3, LogReadsAssumption DEF IsOldest, First, NearestOn
<1>7. ContextIsNearest'
  <2>1. SUFFICES ASSUME NEW k \in Steady' \ Got'
                 PROVE  IF k < lo THEN NearestOn(pages[2], k) ELSE NearestOn(page, k)
    BY <1>2, <1>5 DEF ContextIsNearest, NearestOn, query
  <2>2. 1 \in 1..3 /\ 2 \in 1..3 /\ 3 \in 1..3
    OBVIOUS
  <2>3. k # lo /\ k \notin pages[2] /\ k \notin page
    BY <1>5, <2>1, <2>2 DEF Got, RowsOf
  <2>4. k \in Nat /\ k \in Steady
    BY <1>3, <2>1
  <2>5. CASE k < lo
    BY <1>4, <2>3, <2>4, <2>5
  <2>6. CASE ~(k < lo)
    <3>1. k > lo
      BY <1>3, <2>3, <2>4, <2>6
    <3> QED
      BY <1>3, <1>6, <2>3, <2>4, <2>6, <3>1
  <2> QED
    BY <2>5, <2>6
<1>8. TypeOK'
  BY <1>2, <1>3 DEF IInv, TypeOK, table, query
<1>9. QueryOK'
  BY <1>2 DEF IInv, QueryOK, Scanning, table, query
<1>10. ContextProgress'
  BY <1>2 DEF ContextProgress
<1> QED
  BY <1>2, <1>7, <1>8, <1>9, <1>10 DEF IInv, query, ScanProgress, Scanning, PagesDescend,
     ListMissesNothing, ExportCutsOnlyTheTail

LEMMA StutterStep == ASSUME IInv, UNCHANGED vars PROVE IInv'
<1>1. TypeOK' /\ Steady' = Steady
  BY DEF IInv, TypeOK, vars, table, query, Steady, Lo, From
<1> QED
  BY <1>1, TableMoves DEF vars, table, IInv, QueryOK

-----------------------------------------------------------------------------
(* The inductive invariant holds of every behaviour of the specification.  *)
THEOREM LogReadsInvariant == Spec => []IInv
<1>1. Init => IInv
  BY InitIInv
<1>2. IInv /\ [Next]_vars => IInv'
  <2> SUFFICES ASSUME IInv, [Next]_vars PROVE IInv'
    OBVIOUS
  <2>1. CASE Tick
    BY <2>1, TickStep
  <2>2. ASSUME NEW k \in Keys, Insert(k) PROVE IInv'
    BY <2>2, InsertStep
  <2>3. ASSUME NEW cutoff \in 2..now, Sweep(cutoff) PROVE IInv'
    BY <2>3, SweepStep
  <2>4. CASE OpenList
    BY <2>4, OpenListStep
  <2>5. CASE ListPage
    BY <2>5, ListPageStep
  <2>6. CASE OpenExport
    BY <2>6, OpenExportStep
  <2>7. CASE ExportBatch
    BY <2>7, ExportBatchStep
  <2>8. CASE OpenContext
    BY <2>8, OpenContextStep
  <2>9. CASE ContextBefore
    BY <2>9, ContextBeforeStep
  <2>10. CASE ContextAfter
    BY <2>10, ContextAfterStep
  <2>11. CASE Close
    BY <2>11, CloseStep
  <2>12. CASE UNCHANGED vars
    BY <2>12, StutterStep
  <2> QED
    BY <2>1, <2>2, <2>3, <2>4, <2>5, <2>6, <2>7, <2>8, <2>9, <2>10, <2>11, <2>12 DEF Next
<1> QED
  BY <1>1, <1>2, PTL DEF Spec

(* Every variable keeps its type (the handlers of LogsController and the   *)
(* services behind it).                                                    *)
THEOREM LogReadsTypeCorrect == Spec => []TypeOK
BY LogReadsInvariant, PTL DEF IInv

(* No page repeats or goes back on an earlier one (LogsController.list and *)
(* LogsExportService.generateRows).                                        *)
THEOREM LogReadsPagesDescend == Spec => []PagesDescend
BY LogReadsInvariant, PTL DEF IInv

(* A list read to its end misses no row that was there all along, whatever *)
(* is inserted or swept between its pages (LogsController.list).           *)
THEOREM LogReadsListComplete == Spec => []ListMissesNothing
BY LogReadsInvariant, PTL DEF IInv

(* An export leaves out such rows only at the cap and only its oldest ones *)
(* (LogsExportService.generateRows).                                       *)
THEOREM LogReadsExportComplete == Spec => []ExportCutsOnlyTheTail
BY LogReadsInvariant, PTL DEF IInv

(* The rows around an anchor are the nearest ones (LogsContextService).    *)
THEOREM LogReadsContextNearest == Spec => []ContextIsNearest
BY LogReadsInvariant, PTL DEF IInv
=============================================================================
