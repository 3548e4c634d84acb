-------------------------- MODULE ConfigStoreProofs --------------------------
(***************************************************************************)
(* The invariants of ConfigStore: what is answered is in force, decisions  *)
(* keep to the platform's bounds, and no setting is lost, whatever fails   *)
(* and whatever is in the tables; and, as long as the workers have their   *)
(* database, conversations are decided alike and tokens keep their worth.  *)
(*                                                                         *)
(* Held is the inductive invariant of the first, and Calm adds to it what  *)
(* only undisturbed workers can be relied upon for.                        *)
(***************************************************************************)
EXTENDS ConfigStore, MerchantConfigProofs, FiniteSetTheorems, WellFoundedInduction,
        TLAPS

Pc == {"idle", "query", "loaded", "insert", "append", "acknowledge"}

(* What a request may be serving.                                          *)
Job == [kind : {"none", "turn", "accept", "publish", "read"}, at : Worker \cup {None},
        want : 0..MaxVersions \cup {Latest, None},
        about : Session \cup TokenType \cup Payload \cup {None},
        number : Nat, into : {None, "table", "memory"}]

(* A configuration that may be decided with.                               *)
Proper(c) ==
    /\ c.version \in 0..MaxVersions
    /\ Valid(c.fields)
    /\ c.fields.values \in [Field -> Int]

(* It has every setting of its row that is legal by itself, and its row is *)
(* still where it was found.                                               *)
Keeps(row, c) ==
    \A f \in Field \ {"emotion_large_model"} :
        LET raw == row.fields.values[f] IN
        InBounds(f, raw) /\ Whole(f, raw) => c.fields.values[f] = raw

KeptIn(table, list, c) ==
    c.version # 0 =>
        \E rows \in {table, list} : \E i \in 1..Len(rows) :
            rows[i].version = c.version /\ Keeps(rows[i], c)

Kept(w, c) == KeptIn(published, private[w], c)

(* A request, place by place.                                              *)
SlotOK(r) ==
    /\ pc[r] = "idle" => job[r] = NoJob
    /\ pc[r] # "idle" => job[r].at \in Worker /\ job[r].kind # "none"
    /\ Kind(r, "turn") => job[r].about \in Session
    /\ Kind(r, "accept") => job[r].about \in tokens
    /\ Kind(r, "publish") => job[r].about \in Payload
    /\ pc[r] \in {"insert", "append", "acknowledge"} => Kind(r, "publish")
    /\ pc[r] \in {"idle", "query"} => got[r] = None
    /\ pc[r] = "query" => job[r].want # 0
    /\ pc[r] \in {"loaded", "insert", "append", "acknowledge"} =>
         Proper(got[r]) /\ Kept(job[r].at, got[r])
    /\ pc[r] = "insert" =>
         job[r].into = "table" /\ job[r].number \in 1..(Len(published) + 1)
    /\ pc[r] = "append" =>
         job[r].into = "memory" /\ job[r].number \in 1..(Len(private[job[r].at]) + 1)
    /\ pc[r] = "acknowledge" /\ job[r].into = "table" =>
         job[r].number \in 1..Len(published) /\ published[job[r].number] = NewRow(r)

(* A list, of whatever it holds.                                           *)
Listed(list) == \E S : list \in Seq(S)

(* The domains of the variables.                                           *)
Shape ==
    /\ pc \in [Slot -> Pc]
    /\ job \in [Slot -> Job]
    /\ got = [r \in Slot |-> got[r]]
    /\ private = [w \in Worker |-> private[w]]
    /\ Listed(published) /\ \A w \in Worker : Listed(private[w])
    /\ cache = [w \in Worker |-> [v \in 1..MaxVersions |-> cache[w][v]]]
    /\ seen = [s \in Session |-> seen[s]]
    /\ opened \subseteq Worker
    /\ extras \in [Worker -> Autos]
    /\ pinned \in [Session -> 0..MaxVersions \cup {None}]
    /\ tokens \subseteq TokenType
    /\ refused \subseteq tokens
    /\ faults \in 0..MaxFaults
    /\ disturbed \in BOOLEAN

(* The table numbers its rows without gaps; the list of a process may give *)
(* a number twice, but none that is too large.                             *)
Numbered ==
    /\ \A i \in 1..Len(published) : published[i].version = i
    /\ \A w \in Worker : \A i \in 1..Len(private[w]) : private[w][i].version \in 1..i

(* Publications that have not been written: there is room for each.        *)
Pending == {r \in Slot : Kind(r, "publish") /\ pc[r] # "acknowledge"}
PendingAt(w) == {r \in Pending : job[r].at = w}

Fitting ==
    /\ Len(published) + Cardinality(Pending) <= MaxVersions
    /\ \A w \in Worker : Len(private[w]) + Cardinality(PendingAt(w)) <= MaxVersions

Caches ==
    \A w \in Worker, v \in 1..MaxVersions :
        cache[w][v] # None =>
            Proper(cache[w][v]) /\ cache[w][v].version = v /\ Kept(w, cache[w][v])

Acks ==
    \A a \in acked : a.into = "table" =>
        a.row.version \in 1..Len(published) /\ published[a.row.version] = a.row

Held ==
    /\ Shape /\ Numbered /\ Fitting /\ Caches /\ Acks
    /\ \A r \in Slot : SlotOK(r)
    /\ DecisionsBounded

-----------------------------------------------------------------------------
(* Configurations.                                                         *)
LEMMA BuiltinProper == Proper(Builtin) /\ Builtin.version = 0
<1> DEFINE f == BuiltinFields
<1>1. f.values = Defaults /\ f.note = Platform /\ f.rules = [c \in RuleCodes |-> Platform]
  BY DEF BuiltinFields
<1>2. \A g \in Field : InBounds(g, Defaults[g]) /\ Whole(g, Defaults[g])
  BY BoundsSound DEF InBounds, Whole
<1>3. Defaults \in [Field -> Int]
  BY FieldNames DEF Defaults
<1>4. RaisesInTime(Defaults)
  BY DEF RaisesInTime, Defaults
<1>5. LegalRules(f.rules)
  BY <1>1, PlatformNotBlank DEF LegalRules, ImmutableRules, RuleCodes
<1>6. Valid(f)
  BY <1>1, <1>2, <1>4, <1>5, PlatformNotBlank, ValidParts
<1>7. 0 \in 0..MaxVersions
  BY ConfigStoreAssumption
<1> QED
  BY <1>1, <1>3, <1>6, <1>7 DEF Proper, Builtin

LEMMA ClampProper ==
    ASSUME NEW row
    PROVE  /\ Valid(Clamp(row))
           /\ Clamp(row).values \in [Field -> Int]
<1> DEFINE values == [f \in Field |-> ClampValue(f, row.values[f])]
<1>1. \A f \in Field : InBounds(f, values[f]) /\ Whole(f, values[f])
  BY ClampedValueLegal
<1>2. values \in [Field -> Int]
  BY <1>1 DEF InBounds
<1> HIDE DEF values
<1>3. OrderEmotions(values) \in [Field -> Int]
  BY <1>1, <1>2, OrderedEmotions
<1>4. Clamp(row).values = OrderEmotions(values)
  BY DEF Clamp, values
<1> QED
  BY <1>3, <1>4, ClampIsValid

(* A row, whole or bare, becomes a configuration that keeps its settings.  *)
LEMMA ConfigProper ==
    ASSUME NEW row, row.version \in 0..MaxVersions
    PROVE  /\ Proper(Config(row)) /\ Keeps(row, Config(row))
           /\ Proper(Config(Bare(row))) /\ Keeps(row, Config(Bare(row)))
           /\ Config(row).version = row.version /\ Config(Bare(row)).version = row.version
<1>1. /\ Config(row).version = row.version /\ Config(row).fields = Clamp(row.fields)
      /\ Config(Bare(row)).version = row.version
      /\ Config(Bare(row)).fields = Clamp(Bare(row).fields)
      /\ Bare(row).fields.values = row.fields.values
  BY DEF Config, Bare
<1>2. Proper(Config(row)) /\ Proper(Config(Bare(row)))
  BY <1>1, ClampProper DEF Proper
<1>3. Keeps(row, Config(row)) /\ Keeps(row, Config(Bare(row)))
  <2>1. ASSUME NEW f \in Field \ {"emotion_large_model"},
               InBounds(f, row.fields.values[f]), Whole(f, row.fields.values[f])
        PROVE  /\ Clamp(row.fields).values[f] = row.fields.values[f]
               /\ Clamp(Bare(row).fields).values[f] = row.fields.values[f]
    BY <1>1, <2>1, ClampKeepsSettings
  <2> QED
    BY <1>1, <2>1 DEF Keeps
<1> QED
  BY <1>1, <1>2, <1>3

LEMMA ProperTyped ==
    ASSUME NEW c, Proper(c)
    PROVE  ConfigType(c) /\ Discount(c) \in Int /\ [version |-> c.version, discount |-> Discount(c)] \in TokenType
<1>1. "max_discount_pct" \in Field
  BY FieldNames
<1>2. InBounds("max_discount_pct", c.fields.values["max_discount_pct"])
  BY <1>1, ValidParts DEF Proper
<1>3. Discount(c) \in 0..50
  BY <1>2 DEF InBounds, Bounds, Between, Discount
<1> QED
  BY <1>3 DEF Proper, ConfigType, TokenType

-----------------------------------------------------------------------------
(* Lists.                                                                  *)
LEMMA ListGrows ==
    ASSUME NEW list, Listed(list), NEW x
    PROVE  /\ Listed(Append(list, x))
           /\ Len(list) \in Nat
           /\ Len(Append(list, x)) = Len(list) + 1
           /\ DOMAIN list = 1..Len(list)
           /\ \A i \in 1..Len(list) : Append(list, x)[i] = list[i]
           /\ Append(list, x)[Len(list) + 1] = x
<1>1. PICK S : list \in Seq(S)
  BY DEF Listed
<1> DEFINE T == S \cup {x}
<1>2. list \in Seq(T)
  BY <1>1
<1>3. Append(list, x) \in Seq(T)
  BY <1>2
<1> QED
  BY <1>2, <1>3 DEF Listed

LEMMA ListLength ==
    ASSUME NEW list, Listed(list)
    PROVE  Len(list) \in Nat /\ DOMAIN list = 1..Len(list)
BY DEF Listed

(* The table: a version is at its own place, and nowhere else.             *)
LEMMA TablePlaces ==
    ASSUME Listed(published), Numbered
    PROVE  /\ \A v \in Nat : Places(published, v) = {v} \cap (1..Len(published))
           /\ \A v \in Nat : InTable(v) <=> v \in 1..Len(published)
           /\ \A v \in 1..Len(published) : Table(v) = published[v]
           /\ InTable(Latest) <=> Len(published) > 0
           /\ InTable(Latest) => Table(Latest) = published[Len(published)]
<1>1. Len(published) \in Nat /\ DOMAIN published = 1..Len(published)
  BY ListLength
<1>2. \A v \in Nat : v # Latest
  BY ConfigStoreAssumption
<1>3. ASSUME NEW v \in Nat PROVE Places(published, v) = {v} \cap (1..Len(published))
  BY <1>1, <1>2 DEF Places, Numbered
<1>4. Places(published, Latest) = {Len(published)} \ {0}
  BY DEF Places
<1>5. ASSUME NEW v \in 1..Len(published) PROVE Table(v) = published[v]
  <2>1. v \in Nat /\ Places(published, v) = {v}
    BY <1>1, <1>3
  <2> QED
    BY <1>1, <2>1 DEF Table, Row
<1>6. ASSUME Len(published) > 0 PROVE Table(Latest) = published[Len(published)]
  <2>1. Places(published, Latest) = {Len(published)}
    BY <1>1, <1>4, <1>6
  <2> QED
    BY <1>1, <2>1 DEF Table, Row
<1> QED
  BY <1>1, <1>3, <1>4, <1>5, <1>6 DEF InTable

LEMMA LeastInSet ==
    ASSUME NEW S \in SUBSET Nat, S # {}
    PROVE  \E i \in S : \A j \in S : i <= j
<1> DEFINE Less == OpToRel(<, Nat)
<1>1. PICK i \in S : \A j \in S : ~(<<j, i>> \in Less)
  BY NatLessThanWellFounded, WFMin
<1>2. ASSUME NEW j \in S PROVE i <= j
  <2>1. ~(j < i)
    BY <1>1 DEF OpToRel
  <2> QED
    BY <2>1
<1> QED
  BY <1>2

(* The list of a process: a row that is found is one of its rows.          *)
LEMMA ListPlaces ==
    ASSUME NEW list, Listed(list), NEW v, Places(list, v) # {}
    PROVE  \E i \in 1..Len(list) : Row(list, v) = list[i]
<1>1. Len(list) \in Nat /\ DOMAIN list = 1..Len(list)
  BY ListLength
<1>2. Places(list, v) \subseteq 1..Len(list)
  BY <1>1 DEF Places
<1>3. \E i \in Places(list, v) : \A j \in Places(list, v) : i <= j
  <2>1. Places(list, v) \subseteq Nat
    BY <1>1, <1>2
  <2> QED
    BY <2>1, LeastInSet
<1> QED
  BY <1>2, <1>3 DEF Row

(* One list goes on where another ends.                                    *)
Extends(new, old) ==
    /\ Listed(new)
    /\ Len(old) <= Len(new)
    /\ \A i \in 1..Len(old) : new[i] = old[i]

LEMMA ExtendsItself == ASSUME NEW list, Listed(list) PROVE Extends(list, list)
BY ListLength DEF Extends

LEMMA AppendExtends == ASSUME NEW list, Listed(list), NEW x PROVE Extends(Append(list, x), list)
BY ListGrows DEF Extends

LEMMA KeptStays ==
    ASSUME NEW table, NEW list, NEW table2, NEW list2, NEW c,
           Listed(table), Listed(list), Extends(table2, table), Extends(list2, list),
           KeptIn(table, list, c)
    PROVE  KeptIn(table2, list2, c)
<1> SUFFICES ASSUME c.version # 0
             PROVE  \E rows \in {table2, list2} : \E i \in 1..Len(rows) :
                        rows[i].version = c.version /\ Keeps(rows[i], c)
  BY DEF KeptIn
<1>1. PICK rows \in {table, list} : \E i \in 1..Len(rows) :
          rows[i].version = c.version /\ Keeps(rows[i], c)
  BY DEF KeptIn
<1>2. PICK rows2 \in {table2, list2} : Extends(rows2, rows) /\ Listed(rows)
  BY <1>1
<1>3. PICK i \in 1..Len(rows) : rows[i].version = c.version /\ Keeps(rows[i], c)
  BY <1>1
<1>4. i \in 1..Len(rows2) /\ rows2[i] = rows[i]
  BY <1>2, <1>3, ListLength DEF Extends
<1> QED
  BY <1>2, <1>3, <1>4

(* A row of either list is a source of its own configuration.              *)
LEMMA SourceKept ==
    ASSUME NEW table, NEW list, NEW rows \in {table, list}, NEW i \in 1..Len(rows),
           rows[i].version \in 0..MaxVersions, NEW c,
           c \in {Config(rows[i]), Config(Bare(rows[i]))}
    PROVE  Proper(c) /\ KeptIn(table, list, c) /\ c.version = rows[i].version
<1>1. Proper(c) /\ Keeps(rows[i], c) /\ c.version = rows[i].version
  BY ConfigProper
<1> QED
  BY <1>1 DEF KeptIn

-----------------------------------------------------------------------------
(* What is found, in the process or in the table.                          *)
LEMMA ListBounds ==
    ASSUME Shape, Numbered, Fitting
    PROVE  /\ Len(published) \in Nat /\ Len(published) <= MaxVersions
           /\ \A i \in 1..Len(published) : published[i].version \in 1..MaxVersions
           /\ \A w \in Worker :
                /\ Len(private[w]) \in Nat /\ Len(private[w]) <= MaxVersions
                /\ \A i \in 1..Len(private[w]) : private[w][i].version \in 1..MaxVersions
<1>1. MaxVersions \in Nat /\ IsFiniteSet(Slot)
  BY ConfigStoreAssumption
<1>2. Pending \subseteq Slot /\ \A w \in Worker : PendingAt(w) \subseteq Slot
  BY DEF Pending, PendingAt
<1>3. Cardinality(Pending) \in Nat /\ \A w \in Worker : Cardinality(PendingAt(w)) \in Nat
  BY <1>1, <1>2, FS_Subset, FS_CardinalityType
<1>4. Len(published) \in Nat /\ \A w \in Worker : Len(private[w]) \in Nat
  BY ListLength DEF Shape
<1>5. Len(published) <= MaxVersions /\ \A w \in Worker : Len(private[w]) <= MaxVersions
  BY <1>1, <1>3, <1>4 DEF Fitting
<1> QED
  BY <1>1, <1>4, <1>5 DEF Numbered

LEMMA AtHandProper ==
    ASSUME Shape, Numbered, Fitting, Caches,
           NEW w \in Worker, NEW v \in 0..MaxVersions \cup {Latest},
           w \notin opened \/ AtHand(w, v) # None
    PROVE  Proper(AtHand(w, v)) /\ Kept(w, AtHand(w, v))
<1>1. Proper(Builtin) /\ Kept(w, Builtin)
  BY BuiltinProper DEF Kept, KeptIn
<1>2. CASE v = 0
  BY <1>1, <1>2 DEF AtHand
<1>3. CASE v # 0 /\ w \notin opened
  <2>1. AtHand(w, v) = InMemory(w, v)
    BY <1>3 DEF AtHand
  <2>2. CASE Places(private[w], v) = {}
    BY <1>1, <2>1, <2>2 DEF InMemory
  <2>3. CASE Places(private[w], v) # {}
    <3>1. PICK i \in 1..Len(private[w]) : Row(private[w], v) = private[w][i]
      BY <2>3, ListPlaces DEF Shape
    <3>2. AtHand(w, v) = Config(private[w][i])
      BY <2>1, <2>3, <3>1 DEF InMemory
    <3>3. private[w][i].version \in 0..MaxVersions
      BY ListBounds
    <3>4. Proper(Config(private[w][i])) /\ KeptIn(published, private[w], Config(private[w][i]))
      BY <3>3, SourceKept
    <3> QED
      BY <3>2, <3>4 DEF Kept
  <2> QED
    BY <2>2, <2>3
<1>4. CASE v # 0 /\ w \in opened
  <2>1. v \in 1..MaxVersions /\ AtHand(w, v) = cache[w][v]
    BY <1>4, ConfigStoreAssumption DEF AtHand
  <2> QED
    BY <1>4, <2>1 DEF Caches
<1> QED
  BY <1>2, <1>3, <1>4

LEMMA TableProper ==
    ASSUME Shape, Numbered, Fitting, NEW w \in Worker,
           NEW v \in 0..MaxVersions \cup {Latest}, InTable(v),
           NEW c, c \in {Config(Table(v)), Config(Bare(Table(v)))}
    PROVE  Proper(c) /\ Kept(w, c) /\ c.version \in 1..MaxVersions
<1>1. PICK i \in 1..Len(published) : Table(v) = published[i]
  <2>1. Listed(published)
    BY DEF Shape
  <2> QED
    BY <2>1, ListPlaces DEF InTable, Table
<1>2. published[i].version \in 1..MaxVersions
  BY ListBounds
<1>3. published[i].version \in 0..MaxVersions
  BY <1>2
<1>4. c \in {Config(published[i]), Config(Bare(published[i]))}
  BY <1>1
<1>5. Proper(c) /\ KeptIn(published, private[w], c) /\ c.version = published[i].version
  BY <1>3, <1>4, SourceKept
<1> QED
  BY <1>2, <1>5 DEF Kept

-----------------------------------------------------------------------------
(* A step of one request.                                                  *)
Moved(r) ==
    /\ \E p \in Pc : pc' = [pc EXCEPT ![r] = p]
    /\ \E j \in Job : job' = [job EXCEPT ![r] = j]
    /\ \E g : got' = [got EXCEPT ![r] = g]

Grown ==
    /\ Extends(published', published)
    /\ \A w \in Worker : Extends(private'[w], private[w])
    /\ tokens \subseteq tokens'

LEMMA MovedOthers ==
    ASSUME Shape, NEW r \in Slot, Moved(r)
    PROVE  /\ pc' \in [Slot -> Pc] /\ job' \in [Slot -> Job]
           /\ got' = [q \in Slot |-> got'[q]]
           /\ \A q \in Slot \ {r} : pc'[q] = pc[q] /\ job'[q] = job[q] /\ got'[q] = got[q]
<1> USE DEF Shape, Moved
<1>1. pc' \in [Slot -> Pc] /\ \A q \in Slot \ {r} : pc'[q] = pc[q]
  OBVIOUS
<1>2. job' \in [Slot -> Job] /\ \A q \in Slot \ {r} : job'[q] = job[q]
  OBVIOUS
<1>3. got' = [q \in Slot |-> got'[q]] /\ \A q \in Slot \ {r} : got'[q] = got[q]
  OBVIOUS
<1> QED
  BY <1>1, <1>2, <1>3

(* The requests that do not move are as they were, while the stores grow.  *)
LEMMA OthersOK ==
    ASSUME Shape, NEW q \in Slot, SlotOK(q), Grown,
           pc'[q] = pc[q], job'[q] = job[q], got'[q] = got[q]
    PROVE  SlotOK(q)'
<1>1. pc[q] # "idle" => job[q].at \in Worker
  BY DEF SlotOK
<1>2. NewRow(q)' = NewRow(q)
  BY DEF NewRow, NewFields
<1>3. Len(published) \in Nat /\ Len(published') \in Nat /\ Len(published) <= Len(published')
  BY ListLength DEF Shape, Grown, Extends
<1>4. \A w \in Worker : /\ Len(private[w]) \in Nat /\ Len(private'[w]) \in Nat
                        /\ Len(private[w]) <= Len(private'[w])
  BY ListLength DEF Shape, Grown, Extends
<1>5. pc[q] \in {"loaded", "insert", "append", "acknowledge"} =>
          Proper(got'[q]) /\ KeptIn(published', private'[job'[q].at], got'[q])
  <2> SUFFICES ASSUME pc[q] \in {"loaded", "insert", "append", "acknowledge"}
               PROVE  Proper(got[q]) /\ KeptIn(published', private'[job[q].at], got[q])
    OBVIOUS
  <2>1. Proper(got[q]) /\ KeptIn(published, private[job[q].at], got[q])
    BY DEF SlotOK, Kept
  <2> QED
    BY <1>1, <2>1, KeptStays DEF Shape, Grown
<1>6. pc[q] = "insert" => job[q].into = "table" /\ job[q].number \in 1..(Len(published') + 1)
  BY <1>3 DEF SlotOK
<1>7. pc[q] = "append" =>
          job[q].into = "memory" /\ job[q].number \in 1..(Len(private'[job[q].at]) + 1)
  BY <1>1, <1>4 DEF SlotOK
<1>8. pc[q] = "acknowledge" /\ job[q].into = "table" =>
          job[q].number \in 1..Len(published') /\ published'[job[q].number] = NewRow(q)
  BY <1>3 DEF SlotOK, Grown, Extends
<1>9. Kind(q, "accept") => job[q].about \in tokens'
  BY DEF SlotOK, Grown
<1> QED
  BY <1>2, <1>5, <1>6, <1>7, <1>8, <1>9 DEF SlotOK, Kept, Kind

LEMMA MovedOK ==
    ASSUME Shape, \A q \in Slot : SlotOK(q), NEW r \in Slot, Moved(r), Grown, SlotOK(r)'
    PROVE  \A q \in Slot : SlotOK(q)'
BY MovedOthers, OthersOK

(* Room: what is pending does not increase.                                *)
LEMMA MovedPending ==
    ASSUME Shape, NEW r \in Slot, Moved(r),
           Kind(r, "publish")' /\ pc'[r] # "acknowledge" =>
               Kind(r, "publish") /\ pc[r] # "acknowledge" /\ job'[r].at = job[r].at
    PROVE  Pending' \subseteq Pending /\ \A w \in Worker : PendingAt(w)' \subseteq PendingAt(w)
BY MovedOthers DEF Pending, PendingAt, Kind

LEMMA PendingFinite ==
    /\ IsFiniteSet(Pending) /\ Cardinality(Pending) \in Nat
    /\ \A w \in Worker : IsFiniteSet(PendingAt(w)) /\ Cardinality(PendingAt(w)) \in Nat
<1>1. IsFiniteSet(Slot)
  BY ConfigStoreAssumption
<1>2. Pending \subseteq Slot /\ \A w \in Worker : PendingAt(w) \subseteq Slot
  BY DEF Pending, PendingAt
<1> QED
  BY <1>1, <1>2, FS_Subset, FS_CardinalityType

LEMMA PendingFinitePrimed ==
    /\ IsFiniteSet(Pending') /\ Cardinality(Pending') \in Nat
    /\ \A w \in Worker : IsFiniteSet(PendingAt(w)') /\ Cardinality(PendingAt(w)') \in Nat
<1>1. IsFiniteSet(Slot)
  BY ConfigStoreAssumption
<1>2. Pending' \subseteq Slot /\ \A w \in Worker : PendingAt(w)' \subseteq Slot
  BY DEF Pending, PendingAt
<1> QED
  BY <1>1, <1>2, FS_Subset, FS_CardinalityType

LEMMA QuietFitting ==
    ASSUME Shape, Fitting, UNCHANGED <<published, private>>,
           Pending' \subseteq Pending, \A w \in Worker : PendingAt(w)' \subseteq PendingAt(w)
    PROVE  Fitting'
<1>1. Cardinality(Pending') <= Cardinality(Pending)
  BY PendingFinite, FS_Subset
<1>2. \A w \in Worker : Cardinality(PendingAt(w)') <= Cardinality(PendingAt(w))
  BY PendingFinite, FS_Subset
<1>3. MaxVersions \in Nat /\ Len(published) \in Nat /\ \A w \in Worker : Len(private[w]) \in Nat
  BY ConfigStoreAssumption, ListLength DEF Shape
<1>4. Len(published') + Cardinality(Pending') <= MaxVersions
  BY <1>1, <1>3, PendingFinite, PendingFinitePrimed DEF Fitting
<1>5. ASSUME NEW w \in Worker
      PROVE  Len(private'[w]) + Cardinality(PendingAt(w)') <= MaxVersions
  BY <1>2, <1>3, PendingFinite, PendingFinitePrimed DEF Fitting
<1> QED
  BY <1>4, <1>5 DEF Fitting

-----------------------------------------------------------------------------
(* Steps that write nothing to the lists.                                  *)
LEMMA QuietHeld ==
    ASSUME Held, NEW r \in Slot, Moved(r), SlotOK(r)',
           UNCHANGED <<published, private, opened, acked>>,
           cache' = [w \in Worker |-> [v \in 1..MaxVersions |-> cache'[w][v]]], Caches',
           extras' \in [Worker -> Autos],
           pinned' \in [Session -> 0..MaxVersions \cup {None}],
           tokens \subseteq tokens', tokens' \subseteq TokenType, refused' \subseteq tokens',
           faults' \in 0..MaxFaults, disturbed' \in BOOLEAN,
           seen' = [s \in Session |-> seen'[s]], DecisionsBounded',
           Kind(r, "publish")' /\ pc'[r] # "acknowledge" =>
               Kind(r, "publish") /\ pc[r] # "acknowledge" /\ job'[r].at = job[r].at
    PROVE  Held'
<1>1. Grown
  BY ExtendsItself DEF Grown, Held, Shape
<1>2. \A q \in Slot : SlotOK(q)'
  BY <1>1, MovedOK DEF Held
<1>3. Fitting'
  BY MovedPending, QuietFitting DEF Held
<1>4. Shape'
  BY MovedOthers DEF Held, Shape
<1>5. Numbered' /\ Acks'
  BY DEF Held, Numbered, Acks
<1> QED
  BY <1>2, <1>3, <1>4, <1>5 DEF Held

LEMMA CountTyped == ASSUME Shape, Count PROVE faults' \in 0..MaxFaults
BY ConfigStoreAssumption DEF Shape, Count

LEMMA StartOK ==
    ASSUME Held, NEW r \in Slot, NEW w \in Worker,
           NEW kind \in {"turn", "accept", "publish", "read"},
           NEW v \in 0..MaxVersions \cup {Latest},
           NEW about \in Session \cup TokenType \cup Payload \cup {None},
           Start(r, w, kind, v, about), UNCHANGED <<published, private, tokens>>,
           kind = "turn" => about \in Session,
           kind = "accept" => about \in tokens,
           kind = "publish" => about \in Payload
    PROVE  Moved(r) /\ SlotOK(r)' /\ pc[r] = "idle" /\ pc'[r] \in {"query", "loaded"}
<1> DEFINE j == [kind |-> kind, at |-> w, want |-> v, about |-> about, number |-> 0,
                 into |-> None]
           p == IF AtHand(w, v) = None THEN "query" ELSE "loaded"
<1>1. j \in Job /\ p \in Pc
  BY DEF Job, Pc
<1>2. pc' = [pc EXCEPT ![r] = p] /\ job' = [job EXCEPT ![r] = j]
      /\ got' = [got EXCEPT ![r] = AtHand(w, v)]
  BY DEF Start, Goto
<1>3. Moved(r)
  BY <1>1, <1>2 DEF Moved
<1>4. pc'[r] = p /\ job'[r] = j /\ got'[r] = AtHand(w, v)
  BY <1>2 DEF Held, Shape
<1>5. AtHand(w, v) # None =>
          Proper(AtHand(w, v)) /\ KeptIn(published, private[w], AtHand(w, v))
  BY AtHandProper DEF Held, Kept
<1>6. AtHand(w, v) = None => v # 0
  BY NoneAssumption DEF AtHand
<1>7. SlotOK(r)'
  BY <1>4, <1>5, <1>6 DEF SlotOK, Kept, Kind
<1> QED
  BY <1>3, <1>4, <1>7 DEF Start, At

LEMMA CurrentBounded ==
    ASSUME Held, NEW w \in Worker
    PROVE  /\ CurrentVersion(w) \in 0..MaxVersions
           /\ w \in opened => CurrentVersion(w) = Len(published)
           /\ w \notin opened => CurrentVersion(w) <= Len(private[w])
<1> USE ConfigStoreAssumption
<1>1. Len(published) \in Nat /\ Len(private[w]) \in Nat
  BY ListLength DEF Held, Shape
<1>2. published = <<>> <=> Len(published) = 0
  BY DEF Held, Shape, Listed
<1>3. private[w] = <<>> <=> Len(private[w]) = 0
  BY DEF Held, Shape, Listed
<1>4. Highest(published) = Len(published)
  BY <1>1, <1>2 DEF Highest, Held, Numbered
<1>5. Highest(private[w]) \in 0..Len(private[w])
  BY <1>1, <1>3 DEF Highest, Held, Numbered
<1>6. Len(published) <= MaxVersions /\ Len(private[w]) <= MaxVersions
  BY ListBounds DEF Held
<1> QED
  BY <1>1, <1>4, <1>5, <1>6 DEF CurrentVersion

LEMMA ArriveHeld ==
    ASSUME Held, NEW r \in Slot, NEW w \in Worker,
           Arrive(r, w) \/ \E s \in Session : OpenFails(r, w, s)
    PROVE  Held'
<1> DEFINE same == UNCHANGED <<published, private, opened, cache, extras, seen, tokens, refused,
                               acked>>
<1>1. ASSUME NEW kind \in {"turn", "accept", "publish", "read"},
             NEW v \in 0..MaxVersions \cup {Latest},
             NEW about \in Session \cup TokenType \cup Payload \cup {None},
             Start(r, w, kind, v, about), same,
             kind = "turn" => about \in Session,
             kind = "accept" => about \in tokens,
             kind = "publish" => about \in Payload,
             kind # "publish",
             pinned' \in [Session -> 0..MaxVersions \cup {None}],
             faults' \in 0..MaxFaults, disturbed' \in BOOLEAN
      PROVE  Held'
  <2>1. Moved(r) /\ SlotOK(r)' /\ pc[r] = "idle"
    BY <1>1, StartOK
  <2>2. ~Kind(r, "publish")'
    BY <1>1 DEF Start, Kind, Held, Shape
  <2>3. Caches' /\ DecisionsBounded'
    BY <1>1 DEF Held, Caches, Kept, DecisionsBounded
  <2> QED
    BY <1>1, <2>1, <2>2, <2>3, QuietHeld DEF Held, Shape
<1>2. ASSUME NEW s \in Session, NEW v \in 0..MaxVersions, Begin(r, w, s, v),
             faults' \in 0..MaxFaults, disturbed' \in BOOLEAN
      PROVE  Held'
  <2>1. pinned' \in [Session -> 0..MaxVersions \cup {None}]
    BY <1>2 DEF Begin, Held, Shape
  <2>2. Start(r, w, "turn", v, s) /\ same
    BY <1>2 DEF Begin, stores
  <2> QED
    BY <1>1, <1>2, <2>1, <2>2
<1>3. ASSUME NEW s \in Session, Open(r, w, s) PROVE Held'
  <2>1. CurrentVersion(w) \in 0..MaxVersions
    BY CurrentBounded
  <2>2. faults' \in 0..MaxFaults /\ disturbed' \in BOOLEAN
    BY <1>3 DEF Open, failures, Held, Shape
  <2> QED
    BY <1>2, <1>3, <2>1, <2>2 DEF Open
<1>4. ASSUME NEW s \in Session, OpenFails(r, w, s) PROVE Held'
  <2>1. faults' \in 0..MaxFaults /\ disturbed' \in BOOLEAN
    BY <1>4, CountTyped DEF OpenFails, Fault, Held
  <2>2. 0 \in 0..MaxVersions
    BY ConfigStoreAssumption
  <2> QED
    BY <1>2, <1>4, <2>1, <2>2 DEF OpenFails
<1>5. ASSUME NEW s \in Session, Turn(r, w, s) PROVE Held'
  <2>1. pinned[s] \in 0..MaxVersions /\ Start(r, w, "turn", pinned[s], s)
    BY <1>5 DEF Turn, Held, Shape
  <2>2. /\ same /\ pinned' \in [Session -> 0..MaxVersions \cup {None}]
        /\ faults' \in 0..MaxFaults /\ disturbed' \in BOOLEAN
    BY <1>5 DEF Turn, stores, customers, failures, Held, Shape
  <2> QED
    BY <1>1, <2>1, <2>2
<1>6. ASSUME NEW t \in tokens, Accept(r, w, t) PROVE Held'
  <2>1. t \in TokenType /\ t.version \in 0..MaxVersions /\ Start(r, w, "accept", t.version, t)
    BY <1>6 DEF Accept, Held, Shape, TokenType
  <2>2. /\ same /\ pinned' \in [Session -> 0..MaxVersions \cup {None}]
        /\ faults' \in 0..MaxFaults /\ disturbed' \in BOOLEAN
    BY <1>6 DEF Accept, stores, customers, failures, Held, Shape
  <2> QED
    BY <1>1, <2>1, <2>2
<1>7. ASSUME ReadPolicy(r, w) PROVE Held'
  <2>1. Start(r, w, "read", Latest, None)
    BY <1>7 DEF ReadPolicy
  <2>2. /\ same /\ pinned' \in [Session -> 0..MaxVersions \cup {None}]
        /\ faults' \in 0..MaxFaults /\ disturbed' \in BOOLEAN
    BY <1>7 DEF ReadPolicy, stores, customers, failures, Held, Shape
  <2> QED
    BY <1>1, <2>1, <2>2
<1>8. ASSUME NEW p \in Payload, Publish(r, w, p) PROVE Held'
  <2>1. Start(r, w, "publish", Latest, p) /\ Room(w)
    BY <1>8 DEF Publish
  <2>2. same /\ UNCHANGED <<pinned, faults, disturbed>>
    BY <1>8 DEF Publish, stores, customers, failures
  <2>3. Moved(r) /\ SlotOK(r)' /\ pc[r] = "idle" /\ pc'[r] \in {"query", "loaded"}
    BY <2>1, <2>2, StartOK
  <2>4. job'[r].kind = "publish" /\ job'[r].at = w
    BY <2>1 DEF Start, Held, Shape
  <2>5. job[r].kind = "none"
    BY <2>3 DEF Held, SlotOK, NoJob
  <2>6. r \notin Pending /\ Pending' = Pending \cup {r}
    BY <2>3, <2>4, <2>5, MovedOthers DEF Pending, Kind, Held
  <2>7. /\ PendingAt(w)' = PendingAt(w) \cup {r} /\ r \notin PendingAt(w)
        /\ \A u \in Worker \ {w} : PendingAt(u)' = PendingAt(u)
    <3>1. \A u \in Worker : PendingAt(u)' = {q \in Pending' : job'[q].at = u}
      BY DEF PendingAt
    <3>2. \A q \in Pending : q # r /\ job'[q].at = job[q].at
      BY <2>3, <2>6, MovedOthers DEF Held, Pending
    <3> QED
      BY <2>4, <2>6, <3>1, <3>2 DEF PendingAt
  <2>8. /\ Cardinality(Pending') = Cardinality(Pending) + 1
        /\ Cardinality(PendingAt(w)') = Cardinality(PendingAt(w)) + 1
    BY <2>6, <2>7, PendingFinite, FS_AddElement
  <2>9. Pending \subseteq Publishing /\ PendingAt(w) \subseteq Publishing
        /\ IsFiniteSet(Publishing)
    <3>1. Publishing \subseteq Slot /\ IsFiniteSet(Slot)
      BY ConfigStoreAssumption DEF Publishing
    <3> QED
      BY <3>1, FS_Subset DEF Pending, PendingAt, Publishing
  <2>10. /\ Cardinality(Pending) <= Cardinality(Publishing)
         /\ Cardinality(PendingAt(w)) <= Cardinality(Publishing)
         /\ Cardinality(Publishing) \in Nat
    BY <2>9, FS_Subset, FS_CardinalityType
  <2>11. MaxVersions \in Nat /\ Len(published) \in Nat /\ \A u \in Worker : Len(private[u]) \in Nat
    BY ConfigStoreAssumption, ListLength DEF Held, Shape
  <2>12. /\ Len(published) + Cardinality(Pending') <= MaxVersions
         /\ Len(private[w]) + Cardinality(PendingAt(w)') <= MaxVersions
    BY <2>1, <2>8, <2>10, <2>11, PendingFinite DEF Room
  <2>13. Fitting'
    BY <2>2, <2>7, <2>12 DEF Held, Fitting
  <2>14. \A q \in Slot : SlotOK(q)'
    <3>1. Grown
      BY <2>2, ExtendsItself DEF Grown, Held, Shape
    <3> QED
      BY <2>3, <3>1, MovedOK DEF Held
  <2>15. Shape'
    BY <2>2, <2>3, MovedOthers DEF Held, Shape
  <2>16. Numbered' /\ Caches' /\ Acks' /\ DecisionsBounded'
    BY <2>2 DEF Held, Numbered, Caches, Kept, Acks, DecisionsBounded
  <2> QED
    BY <2>13, <2>14, <2>15, <2>16 DEF Held
<1> QED
  BY <1>3, <1>4, <1>5, <1>6, <1>7, <1>8 DEF Arrive

(* Reading a version.                                                      *)
LEMMA LoadedOK ==
    ASSUME Held, NEW r \in Slot, At(r, "query"), NEW c, Loaded(r, c),
           Proper(c) /\ Kept(job[r].at, c)
    PROVE  Moved(r) /\ SlotOK(r)'
<1>1. /\ pc' = [pc EXCEPT ![r] = "loaded"] /\ job' = job /\ got' = [got EXCEPT ![r] = c]
      /\ UNCHANGED <<published, private, tokens>>
  BY DEF Loaded, Goto, stores, customers
<1>2. job' = [job EXCEPT ![r] = job[r]] /\ job[r] \in Job /\ "loaded" \in Pc
  BY <1>1 DEF Held, Shape, Pc
<1>3. Moved(r)
  BY <1>1, <1>2 DEF Moved
<1>4. pc'[r] = "loaded" /\ job'[r] = job[r] /\ got'[r] = c
  BY <1>1 DEF Held, Shape
<1>5. SlotOK(r)
  BY DEF Held
<1> QED
  BY <1>1, <1>3, <1>4, <1>5 DEF SlotOK, At, Kind, Kept

LEMMA ReadHeld ==
    ASSUME Held, NEW r \in Slot,
           \/ Find(r) \/ FindMissing(r) \/ FindNone(r)
           \/ FindBare(r) \/ FindLatestFails(r) \/ FindFails(r)
    PROVE  Held'
<1>1. At(r, "query") /\ job[r].at \in Worker /\ job[r].want \in 0..MaxVersions \cup {Latest, None}
  BY DEF Find, FindMissing, FindNone, FindBare, FindLatestFails, FindFails, Held, Shape,
         SlotOK, Job, At
<1>2. faults' \in 0..MaxFaults /\ disturbed' \in BOOLEAN
  BY CountTyped DEF Find, FindMissing, FindNone, FindBare, FindLatestFails, FindFails, Fault,
                    failures, Held, Shape
<1>3. ASSUME NEW c, Loaded(r, c), Proper(c), Kept(job[r].at, c),
             cache' = [w \in Worker |-> [v \in 1..MaxVersions |-> cache'[w][v]]], Caches'
      PROVE  Held'
  <2>1. Moved(r) /\ SlotOK(r)'
    BY <1>1, <1>3, LoadedOK
  <2>2. /\ UNCHANGED <<published, private, opened, acked, extras, pinned, tokens, refused, seen>>
        /\ job' = job
    BY <1>3 DEF Loaded, stores, customers
  <2>3. DecisionsBounded'
    BY <2>2 DEF Held, DecisionsBounded
  <2>4. pc[r] # "acknowledge"
    BY <1>1 DEF At
  <2> QED
    BY <1>2, <1>3, <2>1, <2>2, <2>3, <2>4, QuietHeld DEF Held, Shape, Kind
<1>4. ASSUME NEW c, Loaded(r, c), Proper(c), Kept(job[r].at, c), c.version \in 1..MaxVersions,
             Cached(r, c)
      PROVE  Held'
  <2>1. UNCHANGED <<published, private>>
    BY <1>4 DEF Loaded, stores
  <2>2. \A w \in Worker, v \in 1..MaxVersions :
            cache'[w][v] = IF w = job[r].at /\ v = c.version THEN c ELSE cache[w][v]
    BY <1>1, <1>4 DEF Cached, Held, Shape
  <2>3. cache' = [w \in Worker |-> [v \in 1..MaxVersions |-> cache'[w][v]]]
    BY <1>1, <1>4 DEF Cached, Held, Shape
  <2>4. Caches'
    BY <1>4, <2>1, <2>2 DEF Held, Caches, Kept
  <2> QED
    BY <1>3, <1>4, <2>3, <2>4
<1>5. ASSUME UNCHANGED <<cache, published, private>>
      PROVE  Caches' /\ cache' = [w \in Worker |-> [v \in 1..MaxVersions |-> cache'[w][v]]]
  BY <1>5 DEF Held, Shape, Caches, Kept
<1>6. Proper(Builtin) /\ Kept(job[r].at, Builtin)
  BY BuiltinProper DEF Kept, KeptIn
<1>7. CASE FindNone(r) \/ FindLatestFails(r)
  <2>1. Loaded(r, Builtin) /\ UNCHANGED cache
    BY <1>7 DEF FindNone, FindLatestFails
  <2>2. UNCHANGED <<cache, published, private>>
    BY <2>1 DEF Loaded, stores
  <2> QED
    BY <1>3, <1>5, <1>6, <2>1, <2>2
<1>8. job[r].want \in 0..MaxVersions \cup {Latest} \/ ~InTable(job[r].want)
  <2>1. CASE job[r].want = None
    <3>1. None # Latest /\ None \notin Nat
      BY ConfigStoreAssumption
    <3>2. \A i \in 1..Len(published) : published[i].version # None
      BY <3>1, ListBounds DEF Held
    <3>3. DOMAIN published = 1..Len(published)
      BY ListLength DEF Held, Shape
    <3> QED
      BY <2>1, <3>1, <3>2, <3>3 DEF InTable, Places
  <2> QED
    BY <1>1, <2>1
<1>9. CASE Find(r)
  <2>1. Loaded(r, Config(Table(job[r].want))) /\ Cached(r, Config(Table(job[r].want)))
        /\ InTable(job[r].want)
    BY <1>9 DEF Find
  <2>2. /\ Proper(Config(Table(job[r].want))) /\ Kept(job[r].at, Config(Table(job[r].want)))
        /\ Config(Table(job[r].want)).version \in 1..MaxVersions
    BY <1>1, <1>8, <2>1, TableProper DEF Held
  <2> QED
    BY <1>4, <2>1, <2>2
<1>10. CASE FindBare(r)
  <2>1. Loaded(r, Config(Bare(Table(job[r].want)))) /\ Cached(r, Config(Bare(Table(job[r].want))))
        /\ InTable(job[r].want)
    BY <1>10 DEF FindBare
  <2>2. /\ Proper(Config(Bare(Table(job[r].want))))
        /\ Kept(job[r].at, Config(Bare(Table(job[r].want))))
        /\ Config(Bare(Table(job[r].want))).version \in 1..MaxVersions
    BY <1>1, <1>8, <2>1, TableProper DEF Held
  <2> QED
    BY <1>4, <2>1, <2>2
<1>11. CASE FindFails(r) \/ FindMissing(r)
  <2>1. /\ UNCHANGED <<pc, got, published, private, opened, acked, extras, pinned, tokens,
                       refused, seen, cache>>
        /\ job' = [job EXCEPT ![r].want = Latest]
    BY <1>11 DEF FindFails, FindMissing, stores, customers
  <2> DEFINE j == [job[r] EXCEPT !.want = Latest]
  <2>2. j \in Job /\ job' = [job EXCEPT ![r] = j]
    <3>1. job[r] \in Job
      BY DEF Held, Shape
    <3>2. j \in Job
      BY <3>1 DEF Job
    <3> QED
      BY <2>1, <3>2
  <2>3. pc' = [pc EXCEPT ![r] = pc[r]] /\ got' = [got EXCEPT ![r] = got[r]] /\ pc[r] \in Pc
    BY <2>1 DEF Held, Shape
  <2>4. Moved(r)
    BY <2>2, <2>3 DEF Moved
  <2>5. /\ job'[r].kind = job[r].kind /\ job'[r].at = job[r].at /\ job'[r].about = job[r].about
        /\ pc[r] = "query"
    BY <1>1, <2>1 DEF Held, Shape, Job, At
  <2>6. SlotOK(r)'
    <3>1. SlotOK(r)
      BY DEF Held
    <3>2. job'[r].want = Latest /\ Latest # 0
      BY <2>1, ConfigStoreAssumption DEF Held, Shape, Job
    <3> QED
      BY <2>1, <2>5, <3>1, <3>2 DEF SlotOK, Kind
  <2>7. DecisionsBounded'
    BY <2>1 DEF Held, DecisionsBounded
  <2> QED
    BY <1>2, <1>5, <2>1, <2>4, <2>5, <2>6, <2>7, QuietHeld DEF Held, Shape, Kind
<1> QED
  BY <1>7, <1>9, <1>10, <1>11

(* A request is over.                                                      *)
LEMMA DoneOK ==
    ASSUME Held, NEW r \in Slot, Done(r)
    PROVE  Moved(r) /\ SlotOK(r)' /\ ~Kind(r, "publish")'
<1>1. pc' = [pc EXCEPT ![r] = "idle"] /\ job' = [job EXCEPT ![r] = NoJob]
      /\ got' = [got EXCEPT ![r] = None]
  BY DEF Done, Goto
<1>2. NoJob \in Job /\ "idle" \in Pc
  BY DEF NoJob, Job, Pc
<1>3. Moved(r)
  BY <1>1, <1>2 DEF Moved
<1>4. pc'[r] = "idle" /\ job'[r] = NoJob /\ got'[r] = None
  BY <1>1 DEF Held, Shape
<1>5. NoJob.kind = "none"
  BY DEF NoJob
<1> QED
  BY <1>3, <1>4, <1>5 DEF SlotOK, Kind

LEMMA DoneHeld ==
    ASSUME Held, NEW r \in Slot,
           \/ Decide(r) \/ DecideFails(r) \/ Check(r) \/ PolicyRead(r) \/ Reject(r)
           \/ InsertConflict(r) \/ InsertFails(r)
    PROVE  Held'
<1>1. faults' \in 0..MaxFaults /\ disturbed' \in BOOLEAN
  BY CountTyped DEF Decide, DecideFails, Check, PolicyRead, Reject, InsertConflict, InsertFails,
                    Fault, failures, Held, Shape
<1>2. ASSUME Done(r), UNCHANGED <<published, private, opened, acked, cache, extras, pinned>>,
             tokens \subseteq tokens', tokens' \subseteq TokenType, refused' \subseteq tokens',
             seen' = [s \in Session |-> seen'[s]], DecisionsBounded'
      PROVE  Held'
  <2>1. Moved(r) /\ SlotOK(r)' /\ ~Kind(r, "publish")'
    BY <1>2, DoneOK
  <2>2. Caches'
    BY <1>2 DEF Held, Caches, Kept
  <2> QED
    BY <1>1, <1>2, <2>1, <2>2, QuietHeld DEF Held, Shape
<1>3. ASSUME UNCHANGED <<seen>> PROVE seen' = [s \in Session |-> seen'[s]] /\ DecisionsBounded'
  BY <1>3 DEF Held, Shape, DecisionsBounded
<1>4. CASE PolicyRead(r) \/ Reject(r) \/ InsertConflict(r) \/ InsertFails(r)
  <2>1. Done(r) /\ UNCHANGED <<published, private, opened, acked, cache, extras, pinned, tokens,
                               refused, seen>>
    BY <1>4 DEF PolicyRead, Reject, InsertConflict, InsertFails, stores, customers
  <2> QED
    BY <1>2, <1>3, <2>1 DEF Held, Shape
<1>5. CASE Check(r)
  <2>1. Done(r) /\ UNCHANGED <<published, private, opened, acked, cache, extras, pinned, tokens,
                               seen>>
    BY <1>5 DEF Check, stores
  <2>2. job[r].about \in tokens
    BY <1>5 DEF Check, Held, SlotOK
  <2>3. refused' \subseteq tokens'
    BY <1>5, <2>1, <2>2 DEF Check, Held, Shape
  <2> QED
    BY <1>2, <1>3, <2>1, <2>3 DEF Held, Shape
<1>6. ASSUME NEW auto, Decided(r, auto) PROVE Held'
  <2>1. /\ Done(r) /\ UNCHANGED <<published, private, opened, acked, cache, extras, pinned, refused>>
        /\ At(r, "loaded") /\ Kind(r, "turn")
        /\ seen' = [seen EXCEPT ![job[r].about] = @ \cup {[config |-> got[r], auto |-> auto]}]
        /\ tokens' = tokens \cup {[version |-> got[r].version, discount |-> Discount(got[r])]}
    BY <1>6 DEF Decided, stores
  <2>2. Proper(got[r]) /\ job[r].about \in Session
    BY <2>1 DEF Held, SlotOK, At
  <2>3. [version |-> got[r].version, discount |-> Discount(got[r])] \in TokenType
    BY <2>2, ProperTyped
  <2>4. tokens \subseteq tokens' /\ tokens' \subseteq TokenType /\ refused' \subseteq tokens'
    BY <2>1, <2>3 DEF Held, Shape
  <2>5. seen' = [s \in Session |-> seen'[s]]
    BY <2>1 DEF Held, Shape
  <2>6. ASSUME NEW s \in Session, NEW x \in seen'[s] PROVE Valid(x.config.fields)
    <3>1. x \in seen[s] \/ x = [config |-> got[r], auto |-> auto]
      BY <2>1, <2>6 DEF Held, Shape
    <3> QED
      BY <2>2, <3>1 DEF Held, DecisionsBounded, Proper
  <2>7. DecisionsBounded'
    BY <2>6 DEF DecisionsBounded
  <2> QED
    BY <1>2, <2>1, <2>4, <2>5, <2>7
<1>7. CASE Decide(r)
  BY <1>6, <1>7 DEF Decide
<1>8. CASE DecideFails(r)
  BY <1>6, <1>8 DEF DecideFails
<1> QED
  BY <1>4, <1>5, <1>7, <1>8

-----------------------------------------------------------------------------
(* Publications.                                                           *)
LEMMA NumberHeld == ASSUME Held, NEW r \in Slot, Number(r) PROVE Held'
<1>1. /\ At(r, "loaded") /\ Kind(r, "publish")
      /\ UNCHANGED <<got, published, private, opened, cache, extras, pinned, seen, tokens, refused,
                     acked, faults, disturbed>>
  BY DEF Number, stores, customers, failures
<1> DEFINE w == job[r].at
           n == CurrentVersion(w) + 1
           into == IF Connected(r) THEN "table" ELSE "memory"
           p == IF Connected(r) THEN "insert" ELSE "append"
           j == [job[r] EXCEPT !.number = n, !.into = into]
<1>2. w \in Worker /\ job[r] \in Job /\ SlotOK(r)
  BY <1>1 DEF Held, Shape, SlotOK, At
<1>3. n \in Nat /\ 1 <= n
  BY <1>2, CurrentBounded
<1>4. /\ Connected(r) => n \in 1..(Len(published) + 1)
      /\ ~Connected(r) => n \in 1..(Len(private[w]) + 1)
  <2>1. Len(published) \in Nat /\ Len(private[w]) \in Nat
    BY <1>2, ListLength DEF Held, Shape
  <2>2. /\ CurrentVersion(w) \in Nat
        /\ w \in opened => CurrentVersion(w) = Len(published)
        /\ w \notin opened => CurrentVersion(w) <= Len(private[w])
    BY <1>2, CurrentBounded
  <2> QED
    BY <1>3, <2>1, <2>2 DEF Connected
<1> HIDE DEF n
<1>5. /\ j \in Job /\ j.number = n /\ j.into = into /\ j.kind = job[r].kind /\ j.at = w
      /\ j.about = job[r].about
  BY <1>2, <1>3 DEF Job
<1>6. job' = [job EXCEPT ![r] = j] /\ pc' = [pc EXCEPT ![r] = p] /\ p \in Pc
  BY DEF Number, Goto, Pc, n
<1>7. got' = [got EXCEPT ![r] = got[r]]
  BY <1>1 DEF Held, Shape
<1>8. Moved(r)
  BY <1>5, <1>6, <1>7 DEF Moved
<1>9. pc'[r] = p /\ job'[r] = j /\ got'[r] = got[r]
  BY <1>1, <1>6 DEF Held, Shape
<1>10. SlotOK(r)'
  BY <1>1, <1>2, <1>4, <1>5, <1>9 DEF SlotOK, At, Kind, Kept
<1>11. Caches' /\ DecisionsBounded'
  BY <1>1 DEF Held, Caches, Kept, DecisionsBounded
<1>12. Kind(r, "publish") /\ pc[r] # "acknowledge" /\ job'[r].at = job[r].at
  BY <1>1, <1>5, <1>9 DEF At
<1> QED
  BY <1>1, <1>8, <1>10, <1>11, <1>12, QuietHeld DEF Held, Shape

(* One more row in the table.                                              *)
LEMMA TableGrows ==
    ASSUME Held, NEW x, x.version = Len(published) + 1, published' = Append(published, x),
           UNCHANGED <<private, cache, acked, tokens, seen>>
    PROVE  /\ Grown /\ Numbered' /\ Caches' /\ Acks' /\ DecisionsBounded'
           /\ Len(published') = Len(published) + 1
           /\ published'[Len(published) + 1] = x
<1>1. Listed(published) /\ \A w \in Worker : Listed(private[w])
  BY DEF Held, Shape
<1>2. Extends(published', published) /\ \A w \in Worker : Extends(private'[w], private[w])
  BY <1>1, AppendExtends, ExtendsItself
<1>3. /\ Len(published) \in Nat /\ Len(published') = Len(published) + 1
      /\ \A i \in 1..Len(published) : published'[i] = published[i]
      /\ published'[Len(published) + 1] = x
  BY <1>1, ListGrows
<1>4. Numbered'
  <2>1. ASSUME NEW i \in 1..Len(published') PROVE published'[i].version = i
    <3>1. i \in 1..Len(published) \/ i = Len(published) + 1
      BY <1>3
    <3> QED
      BY <1>3, <3>1 DEF Held, Numbered
  <2> QED
    BY <2>1 DEF Held, Numbered
<1>5. Caches'
  <2>1. ASSUME NEW w \in Worker, NEW v \in 1..MaxVersions, cache[w][v] # None
        PROVE  KeptIn(published', private'[w], cache[w][v])
    <3>1. KeptIn(published, private[w], cache[w][v])
      BY <2>1 DEF Held, Caches, Kept
    <3> QED
      BY <1>1, <1>2, <3>1, KeptStays
  <2> QED
    BY <2>1 DEF Held, Caches, Kept
<1>6. Acks'
  BY <1>3 DEF Held, Acks
<1> QED
  BY <1>2, <1>3, <1>4, <1>5, <1>6 DEF Grown, Held, DecisionsBounded

(* What has been written is no longer pending.                             *)
LEMMA PendingWritten ==
    ASSUME Held, NEW r \in Slot, Moved(r), r \in Pending, ~(r \in Pending)'
    PROVE  /\ Cardinality(Pending') + 1 <= Cardinality(Pending)
           /\ \A w \in Worker :
                /\ Cardinality(PendingAt(w)') <= Cardinality(PendingAt(w))
                /\ job[r].at = w => Cardinality(PendingAt(w)') + 1 <= Cardinality(PendingAt(w))
<1>1. Pending' \subseteq Pending \ {r}
  BY MovedOthers DEF Held, Pending, Kind
<1>2. Cardinality(Pending \ {r}) = Cardinality(Pending) - 1 /\ IsFiniteSet(Pending \ {r})
  BY PendingFinite, FS_RemoveElement
<1>3. Cardinality(Pending') <= Cardinality(Pending \ {r})
  BY <1>1, <1>2, FS_Subset
<1>4. ASSUME NEW w \in Worker
      PROVE  /\ Cardinality(PendingAt(w)') <= Cardinality(PendingAt(w))
             /\ job[r].at = w => Cardinality(PendingAt(w)') + 1 <= Cardinality(PendingAt(w))
  <2>1. PendingAt(w)' \subseteq PendingAt(w) \ {r}
    BY <1>1, MovedOthers DEF Held, Pending, PendingAt
  <2>2. Cardinality(PendingAt(w)') <= Cardinality(PendingAt(w))
    BY <2>1, PendingFinite, FS_Subset
  <2>3. ASSUME job[r].at = w PROVE Cardinality(PendingAt(w)') + 1 <= Cardinality(PendingAt(w))
    <3>1. r \in PendingAt(w)
      BY <2>3 DEF PendingAt
    <3>2. Cardinality(PendingAt(w) \ {r}) = Cardinality(PendingAt(w)) - 1
          /\ IsFiniteSet(PendingAt(w) \ {r})
      BY <3>1, PendingFinite, FS_RemoveElement
    <3>3. Cardinality(PendingAt(w)') <= Cardinality(PendingAt(w) \ {r})
      BY <2>1, <3>2, FS_Subset
    <3> QED
      BY <3>2, <3>3, PendingFinite, PendingFinitePrimed
  <2> QED
    BY <2>2, <2>3
<1> QED
  BY <1>2, <1>3, <1>4, PendingFinite, PendingFinitePrimed

LEMMA PublishingSlot ==
    ASSUME Held, NEW r \in Slot, pc[r] \in {"insert", "append", "acknowledge"}
    PROVE  /\ job[r] \in Job /\ job[r].at \in Worker /\ job[r].about \in Payload
           /\ Kind(r, "publish")
           /\ Proper(got[r]) /\ KeptIn(published, private[job[r].at], got[r])
           /\ pc[r] # "acknowledge" => r \in Pending
           /\ NewRow(r).version = job[r].number
BY DEF Held, Shape, SlotOK, Pending, Kind, Kept, NewRow

LEMMA InsertHeld ==
    ASSUME Held, NEW r \in Slot, Insert(r) \/ InsertUnacknowledged(r)
    PROVE  Held'
<1>1. /\ pc[r] = "insert" /\ ~InTable(job[r].number)
      /\ published' = Append(published, NewRow(r))
      /\ UNCHANGED <<private, opened, cache, extras, pinned, seen, tokens, refused, acked>>
  BY DEF Insert, InsertUnacknowledged, At, customers
<1>2. /\ job[r] \in Job /\ job[r].at \in Worker /\ Kind(r, "publish") /\ r \in Pending
      /\ Proper(got[r]) /\ KeptIn(published, private[job[r].at], got[r])
      /\ NewRow(r).version = job[r].number
  BY <1>1, PublishingSlot
<1>3. job[r].number = Len(published) + 1 /\ Len(published) \in Nat
  <2>1. job[r].number \in 1..(Len(published) + 1) /\ Len(published) \in Nat
    BY <1>1, ListLength DEF Held, Shape, SlotOK
  <2>2. job[r].number \notin 1..Len(published)
    BY <1>1, <2>1, TablePlaces DEF Held, Shape
  <2> QED
    BY <2>1, <2>2
<1>4. /\ Grown /\ Numbered' /\ Caches' /\ Acks' /\ DecisionsBounded'
      /\ Len(published') = Len(published) + 1
      /\ published'[Len(published) + 1] = NewRow(r)
  BY <1>1, <1>2, <1>3, TableGrows
<1>5. faults' \in 0..MaxFaults /\ disturbed' \in BOOLEAN
  BY CountTyped DEF Insert, InsertUnacknowledged, Fault, failures, Held, Shape
<1>6. Moved(r) /\ SlotOK(r)' /\ ~(r \in Pending)'
  <2>1. CASE Insert(r)
    <3>1. pc' = [pc EXCEPT ![r] = "acknowledge"] /\ job' = job /\ got' = got
      BY <2>1 DEF Insert, Goto
    <3>2. job' = [job EXCEPT ![r] = job[r]] /\ got' = [got EXCEPT ![r] = got[r]]
      BY <3>1 DEF Held, Shape
    <3>3. Moved(r)
      BY <1>2, <3>1, <3>2 DEF Moved, Pc
    <3>4. pc'[r] = "acknowledge" /\ NewRow(r)' = NewRow(r)
      BY <3>1 DEF Held, Shape, NewRow, NewFields
    <3>5. KeptIn(published', private'[job[r].at], got[r])
      BY <1>2, <1>4, KeptStays DEF Grown, Held, Shape
    <3>6. job[r].number \in 1..Len(published') /\ published'[job[r].number] = NewRow(r)
      BY <1>3, <1>4
    <3>7. SlotOK(r)
      BY DEF Held
    <3> QED
      BY <1>1, <1>2, <3>1, <3>3, <3>4, <3>5, <3>6, <3>7 DEF SlotOK, Kind, Kept, Pending
  <2>2. CASE InsertUnacknowledged(r)
    BY <2>2, DoneOK DEF InsertUnacknowledged, Pending, Kind
  <2> QED
    BY <2>1, <2>2
<1>7. \A q \in Slot : SlotOK(q)'
  BY <1>4, <1>6, MovedOK DEF Held
<1>8. Fitting'
  <2>1. /\ Cardinality(Pending') + 1 <= Cardinality(Pending)
        /\ \A w \in Worker : Cardinality(PendingAt(w)') <= Cardinality(PendingAt(w))
    BY <1>2, <1>6, PendingWritten
  <2>2. MaxVersions \in Nat /\ \A w \in Worker : Len(private[w]) \in Nat
    BY ConfigStoreAssumption, ListLength DEF Held, Shape
  <2>3. Len(published') + Cardinality(Pending') <= MaxVersions
    BY <1>3, <1>4, <2>1, <2>2, PendingFinite, PendingFinitePrimed DEF Held, Fitting
  <2>4. ASSUME NEW w \in Worker
        PROVE  Len(private'[w]) + Cardinality(PendingAt(w)') <= MaxVersions
    BY <1>1, <2>1, <2>2, PendingFinite, PendingFinitePrimed DEF Held, Fitting
  <2> QED
    BY <2>3, <2>4 DEF Fitting
<1>9. Shape'
  BY <1>1, <1>4, <1>5, <1>6, MovedOthers DEF Held, Shape, Grown, Extends
<1> QED
  BY <1>4, <1>7, <1>8, <1>9 DEF Held

LEMMA WriteHeld == ASSUME Held, NEW c \in Seed, WriteByHand(c) PROVE Held'
<1> DEFINE x == [version |-> Highest(published) + 1, fields |-> c.fields, auto |-> c.auto]
<1>1. /\ published' = Append(published, x) /\ \A w \in Worker : Room(w)
      /\ UNCHANGED <<pc, job, got, private, opened, cache, extras, pinned, seen, tokens, refused,
                     acked, faults, disturbed>>
  BY DEF WriteByHand, service, customers, failures
<1>2. Len(published) \in Nat /\ Highest(published) = Len(published)
  <2>1. Len(published) \in Nat /\ (published = <<>> <=> Len(published) = 0)
    BY ListLength DEF Held, Shape, Listed
  <2> QED
    BY <2>1 DEF Highest, Held, Numbered
<1>3. x.version = Len(published) + 1
  BY <1>2
<1> HIDE DEF x
<1>4. /\ Grown /\ Numbered' /\ Caches' /\ Acks' /\ DecisionsBounded'
      /\ Len(published') = Len(published) + 1
  BY <1>1, <1>3, TableGrows
<1>5. \A q \in Slot : SlotOK(q)'
  BY <1>1, <1>4, OthersOK DEF Held
<1>6. Fitting'
  <2>1. PICK w \in Worker : Room(w)
    BY <1>1, ConfigStoreAssumption
  <2>2. Publishing \subseteq Slot /\ IsFiniteSet(Slot) /\ Pending \subseteq Publishing
    BY ConfigStoreAssumption DEF Publishing, Pending
  <2>3. IsFiniteSet(Publishing) /\ Cardinality(Publishing) \in Nat
        /\ Cardinality(Pending) <= Cardinality(Publishing)
    BY <2>2, FS_Subset, FS_CardinalityType
  <2>4. MaxVersions \in Nat /\ Len(private[w]) \in Nat
    BY ConfigStoreAssumption, ListLength DEF Held, Shape
  <2>5. Len(published) + 1 + Cardinality(Pending) <= MaxVersions
    BY <1>2, <2>1, <2>3, <2>4, PendingFinite DEF Room
  <2>6. Pending' = Pending /\ \A u \in Worker : PendingAt(u)' = PendingAt(u)
    BY <1>1 DEF Pending, PendingAt, Kind
  <2> QED
    BY <1>1, <1>2, <1>4, <2>5, <2>6, PendingFinite DEF Held, Fitting
<1>7. Shape'
  BY <1>1, <1>4 DEF Held, Shape, Grown, Extends
<1> QED
  BY <1>4, <1>5, <1>6, <1>7 DEF Held

LEMMA AppendHeld == ASSUME Held, NEW r \in Slot, AppendToList(r) PROVE Held'
<1> DEFINE w == job[r].at
           n == job[r].number
           x == NewRow(r)
<1>1. /\ pc[r] = "append"
      /\ pc' = [pc EXCEPT ![r] = "acknowledge"]
      /\ private' = [private EXCEPT ![w] = Append(@, x)]
      /\ Cached(r, Config(x))
      /\ UNCHANGED <<job, got, published, opened, extras, pinned, seen, tokens, refused, acked,
                     faults, disturbed>>
  BY DEF AppendToList, At, Goto, customers, failures
<1>2. /\ job[r] \in Job /\ w \in Worker /\ Kind(r, "publish") /\ r \in Pending
      /\ Proper(got[r]) /\ KeptIn(published, private[w], got[r])
      /\ x.version = n
  BY <1>1, PublishingSlot
<1>3. /\ Listed(private[w]) /\ Listed(published)
      /\ private' = [u \in Worker |-> private'[u]]
      /\ \A u \in Worker : private'[u] = IF u = w THEN Append(private[w], x) ELSE private[u]
  BY <1>1, <1>2 DEF Held, Shape
<1> HIDE DEF x
<1>4. /\ Len(private[w]) \in Nat
      /\ Len(private'[w]) = Len(private[w]) + 1
      /\ \A i \in 1..Len(private[w]) : private'[w][i] = private[w][i]
      /\ private'[w][Len(private[w]) + 1] = x
  BY <1>2, <1>3, ListGrows
<1>5. Grown
  <2>1. ASSUME NEW u \in Worker PROVE Extends(private'[u], private[u])
    <3>1. CASE u = w
      <4>1. Extends(Append(private[w], x), private[w])
        BY <1>3, AppendExtends
      <4> QED
        BY <1>3, <3>1, <4>1
    <3>2. CASE u # w
      BY <1>3, <3>2, ExtendsItself DEF Held, Shape
    <3> QED
      BY <3>1, <3>2
  <2> QED
    BY <1>1, <1>3, <2>1, ExtendsItself DEF Grown
<1>6. n \in 1..(Len(private[w]) + 1) /\ job[r].into = "memory"
  BY <1>1 DEF Held, SlotOK
<1>7. Moved(r) /\ SlotOK(r)' /\ ~(r \in Pending)'
  <2>1. job' = [job EXCEPT ![r] = job[r]] /\ got' = [got EXCEPT ![r] = got[r]]
    BY <1>1 DEF Held, Shape
  <2>2. Moved(r)
    BY <1>1, <1>2, <2>1 DEF Moved, Pc
  <2>3. pc'[r] = "acknowledge"
    BY <1>1 DEF Held, Shape
  <2>4. KeptIn(published', private'[w], got[r])
    BY <1>2, <1>5, KeptStays DEF Grown, Held, Shape
  <2>5. SlotOK(r)
    BY DEF Held
  <2> QED
    BY <1>1, <1>2, <1>6, <2>2, <2>3, <2>4, <2>5 DEF SlotOK, Kind, Kept, Pending
<1>8. \A q \in Slot : SlotOK(q)'
  BY <1>5, <1>7, MovedOK DEF Held
<1>9. Numbered'
  <2>1. ASSUME NEW i \in 1..Len(private'[w]) PROVE private'[w][i].version \in 1..i
    <3>1. i \in 1..Len(private[w]) \/ i = Len(private[w]) + 1
      BY <1>4
    <3> QED
      BY <1>2, <1>4, <1>6, <3>1 DEF Held, Numbered
  <2> QED
    BY <1>1, <1>3, <2>1 DEF Held, Numbered
<1>10. Fitting'
  <2>1. /\ Cardinality(Pending') + 1 <= Cardinality(Pending)
        /\ \A u \in Worker : Cardinality(PendingAt(u)') <= Cardinality(PendingAt(u))
        /\ Cardinality(PendingAt(w)') + 1 <= Cardinality(PendingAt(w))
    <3>1. /\ Cardinality(Pending') + 1 <= Cardinality(Pending)
          /\ \A u \in Worker :
                /\ Cardinality(PendingAt(u)') <= Cardinality(PendingAt(u))
                /\ job[r].at = u => Cardinality(PendingAt(u)') + 1 <= Cardinality(PendingAt(u))
      BY <1>2, <1>7, PendingWritten
    <3>2. w' = w
      BY <1>1
    <3> QED
      BY <1>2, <3>1, <3>2
  <2>2. MaxVersions \in Nat /\ Len(published) \in Nat /\ \A u \in Worker : Len(private[u]) \in Nat
    BY ConfigStoreAssumption, ListLength DEF Held, Shape
  <2>3. Len(published') + Cardinality(Pending') <= MaxVersions
    BY <1>1, <2>1, <2>2, PendingFinite, PendingFinitePrimed DEF Held, Fitting
  <2>4. ASSUME NEW u \in Worker
        PROVE  Len(private'[u]) + Cardinality(PendingAt(u)') <= MaxVersions
    <3>1. Len(private[u]) + Cardinality(PendingAt(u)) <= MaxVersions
      BY DEF Held, Fitting
    <3>2. CASE u = w
      <4>1. Cardinality(PendingAt(u)') + 1 <= Cardinality(PendingAt(u))
        <5>1. \A v \in Worker :
                 job[r].at = v => Cardinality(PendingAt(v)') + 1 <= Cardinality(PendingAt(v))
          BY <1>2, <1>7, PendingWritten
        <5> QED
          BY <3>2, <5>1
      <4>2. Len(private'[u]) = Len(private[u]) + 1
        BY <1>4, <3>2
      <4> QED
        BY <2>2, <3>1, <4>1, <4>2, PendingFinite, PendingFinitePrimed
    <3>3. CASE u # w
      BY <1>3, <2>1, <2>2, <3>1, <3>3, PendingFinite, PendingFinitePrimed
    <3> QED
      BY <3>2, <3>3
  <2> QED
    BY <2>3, <2>4 DEF Fitting
<1>11. n \in 1..MaxVersions
  <2>1. /\ Len(private[w]) + Cardinality(PendingAt(w)) <= MaxVersions
        /\ r \in PendingAt(w) /\ MaxVersions \in Nat
    BY <1>2, ConfigStoreAssumption DEF Held, Fitting, PendingAt
  <2>2. Cardinality(PendingAt(w)) # 0
    BY <1>2, <2>1, PendingFinite, FS_EmptySet
  <2> QED
    BY <1>2, <1>4, <1>6, <2>1, <2>2, PendingFinite
<1>12. /\ cache' = [u \in Worker |-> [v \in 1..MaxVersions |-> cache'[u][v]]]
       /\ \A u \in Worker, v \in 1..MaxVersions :
            cache'[u][v] = IF u = w /\ v = n THEN Config(x) ELSE cache[u][v]
  <2>1. Config(x).version = n
    BY <1>2 DEF Config
  <2>2. cache' = [cache EXCEPT ![w] = [cache[w] EXCEPT ![n] = Config(x)]]
    BY <1>1, <2>1 DEF Cached
  <2>3. /\ cache = [u \in Worker |-> cache[u]]
        /\ \A u \in Worker : cache[u] = [v \in 1..MaxVersions |-> cache[u][v]]
    BY DEF Held, Shape
  <2>4. [cache[w] EXCEPT ![n] = Config(x)]
        = [v \in 1..MaxVersions |-> IF v = n THEN Config(x) ELSE cache[w][v]]
    BY <1>2, <2>3
  <2>5. cache' = [u \in Worker |-> IF u = w THEN [v \in 1..MaxVersions |->
                                                   IF v = n THEN Config(x) ELSE cache[w][v]]
                                          ELSE cache[u]]
    BY <1>2, <2>2, <2>3, <2>4
  <2> QED
    BY <2>3, <2>5
<1>13. Caches'
  <2>1. ASSUME NEW u \in Worker, NEW v \in 1..MaxVersions, cache'[u][v] # None
        PROVE  /\ Proper(cache'[u][v]) /\ cache'[u][v].version = v
               /\ KeptIn(published', private'[u], cache'[u][v])
    <3>1. CASE u = w /\ v = n
      <4>1. x.version \in 0..MaxVersions
        BY <1>2, <1>11
      <4>2. Len(private[w]) + 1 \in 1..Len(private'[w])
        BY <1>4
      <4>3. /\ Proper(Config(x)) /\ KeptIn(published', private'[w], Config(x))
            /\ Config(x).version = x.version
        BY <1>4, <4>1, <4>2, SourceKept
      <4> QED
        BY <1>2, <1>12, <3>1, <4>3
    <3>2. CASE ~(u = w /\ v = n)
      <4>1. /\ Proper(cache[u][v]) /\ cache[u][v].version = v
            /\ KeptIn(published, private[u], cache[u][v])
        BY <1>12, <2>1, <3>2 DEF Held, Caches, Kept
      <4>2. KeptIn(published', private'[u], cache[u][v])
        BY <1>5, <4>1, KeptStays DEF Grown, Held, Shape
      <4> QED
        BY <1>12, <3>2, <4>1, <4>2
    <3> QED
      BY <3>1, <3>2
  <2> QED
    BY <2>1 DEF Caches, Kept
<1>14. Shape'
  BY <1>1, <1>3, <1>5, <1>7, <1>12, MovedOthers DEF Held, Shape, Grown, Extends
<1>15. Acks' /\ DecisionsBounded'
  BY <1>1 DEF Held, Acks, DecisionsBounded
<1> QED
  BY <1>8, <1>9, <1>10, <1>13, <1>14, <1>15 DEF Held

LEMMA AcknowledgeHeld == ASSUME Held, NEW r \in Slot, Acknowledge(r) PROVE Held'
<1> DEFINE w == job[r].at
           j == [NoJob EXCEPT !.kind = "read", !.at = w, !.want = Latest]
           g == AtHand(w, Latest)
           p == IF Connected(r) THEN "query" ELSE "loaded"
<1>1. /\ pc[r] = "acknowledge"
      /\ pc' = [pc EXCEPT ![r] = p]
      /\ job' = [job EXCEPT ![r] = j]
      /\ got' = [got EXCEPT ![r] = g]
      /\ extras' = [extras EXCEPT ![w] = job[r].about.auto]
      /\ acked' = acked \cup {[row |-> NewRow(r), into |-> job[r].into]}
      /\ UNCHANGED <<published, private, opened, cache, pinned, seen, tokens, refused, faults,
                     disturbed>>
  BY DEF Acknowledge, At, Goto, stores, customers, failures
<1>2. /\ w \in Worker /\ job[r].about \in Payload /\ NewRow(r).version = job[r].number
  BY <1>1, PublishingSlot
<1>3. /\ j \in Job /\ j.kind = "read" /\ j.at = w /\ j.want = Latest
  BY <1>2 DEF NoJob, Job
<1>4. Moved(r)
  BY <1>1, <1>3 DEF Moved, Pc
<1>5. pc'[r] = p /\ job'[r] = j /\ got'[r] = g
  BY <1>1 DEF Held, Shape
<1>6. Connected(r) => g = None
  BY ConfigStoreAssumption DEF Connected, AtHand
<1>7. ~Connected(r) => Proper(g) /\ KeptIn(published, private[w], g)
  BY <1>2, AtHandProper DEF Held, Connected, Kept
<1>8. SlotOK(r)'
  <2>1. CASE Connected(r)
    <3>1. pc'[r] = "query" /\ got'[r] = None
      BY <1>5, <1>6, <2>1
    <3>2. Latest # 0
      BY ConfigStoreAssumption
    <3> QED
      BY <1>2, <1>3, <1>5, <3>1, <3>2 DEF SlotOK, Kind
  <2>2. CASE ~Connected(r)
    <3>1. pc'[r] = "loaded" /\ Proper(got'[r]) /\ KeptIn(published', private'[w], got'[r])
      BY <1>1, <1>5, <1>7, <2>2
    <3> QED
      BY <1>2, <1>3, <1>5, <3>1 DEF SlotOK, Kind, Kept
  <2> QED
    BY <2>1, <2>2
<1>9. Grown
  BY <1>1, ExtendsItself DEF Grown, Held, Shape
<1>10. \A q \in Slot : SlotOK(q)'
  BY <1>4, <1>8, <1>9, MovedOK DEF Held
<1>11. Fitting'
  <2>1. ~Kind(r, "publish")'
    BY <1>3, <1>5 DEF Kind
  <2> QED
    BY <1>1, <1>4, <2>1, MovedPending, QuietFitting DEF Held
<1>12. Shape'
  <2>1. job[r].about.auto \in Autos
    BY <1>2 DEF Autos
  <2> QED
    BY <1>1, <1>4, <2>1, MovedOthers DEF Held, Shape
<1>13. Acks'
  <2>1. ASSUME NEW a \in acked', a.into = "table"
        PROVE  a.row.version \in 1..Len(published) /\ published[a.row.version] = a.row
    <3>1. a \in acked \/ a = [row |-> NewRow(r), into |-> job[r].into]
      BY <1>1
    <3>2. job[r].into = "table" =>
              job[r].number \in 1..Len(published) /\ published[job[r].number] = NewRow(r)
      BY <1>1 DEF Held, SlotOK
    <3> QED
      BY <1>2, <2>1, <3>1, <3>2 DEF Held, Acks
  <2> QED
    BY <1>1, <2>1 DEF Acks
<1>14. Numbered' /\ Caches' /\ DecisionsBounded'
  BY <1>1 DEF Held, Numbered, Caches, Kept, DecisionsBounded
<1> QED
  BY <1>10, <1>11, <1>12, <1>13, <1>14 DEF Held

-----------------------------------------------------------------------------
(* Workers.                                                                *)
LEMMA ConnectHeld == ASSUME Held, NEW w \in Worker, Connect(w) PROVE Held'
<1>1. /\ opened' = opened \cup {w}
      /\ UNCHANGED <<pc, job, got, published, private, cache, extras, pinned, seen, tokens, refused,
                     acked, faults, disturbed>>
  BY DEF Connect, service, customers, failures
<1>2. Shape'
  BY <1>1 DEF Held, Shape
<1>3. Grown
  BY <1>1, ExtendsItself DEF Grown, Held, Shape
<1>4. \A q \in Slot : SlotOK(q)'
  BY <1>1, <1>3, OthersOK DEF Held
<1>5. Fitting'
  BY <1>1, QuietFitting DEF Held, Pending, PendingAt, Kind
<1> QED
  BY <1>1, <1>2, <1>4, <1>5 DEF Held, Numbered, Caches, Kept, Acks, DecisionsBounded

LEMMA CrashHeld == ASSUME Held, NEW w \in Worker, Crash(w) PROVE Held'
<1>1. /\ pc' = [r \in Slot |-> IF job[r].at = w THEN "idle" ELSE pc[r]]
      /\ job' = [r \in Slot |-> IF job[r].at = w THEN NoJob ELSE job[r]]
      /\ got' = [r \in Slot |-> IF job[r].at = w THEN None ELSE got[r]]
      /\ private' = [private EXCEPT ![w] = <<>>]
      /\ cache' = [cache EXCEPT ![w] = [v \in 1..MaxVersions |-> None]]
      /\ extras' = [extras EXCEPT ![w] = NoAuto]
      /\ UNCHANGED <<published, opened, pinned, seen, tokens, refused, acked, disturbed>>
      /\ faults' \in 0..MaxFaults
  BY CountTyped DEF Crash, customers, Held
<1>2. NoJob \in Job /\ NoJob.kind = "none"
  BY DEF NoJob, Job
<1>3. /\ Listed(<<>>) /\ Len(<<>>) = 0
  BY DEF Listed
<1>4. \A u \in Worker : private'[u] = IF u = w THEN <<>> ELSE private[u]
  BY <1>1 DEF Held, Shape
<1>5. Shape'
  <2>1. pc' \in [Slot -> Pc] /\ job' \in [Slot -> Job] /\ got' = [r \in Slot |-> got'[r]]
    BY <1>1, <1>2 DEF Held, Shape, Pc
  <2>2. private' = [u \in Worker |-> private'[u]] /\ \A u \in Worker : Listed(private'[u])
    BY <1>1, <1>3, <1>4 DEF Held, Shape
  <2>3. cache' = [u \in Worker |-> [v \in 1..MaxVersions |-> cache'[u][v]]]
    BY <1>1 DEF Held, Shape
  <2>4. extras' \in [Worker -> Autos]
    BY <1>1 DEF Held, Shape, Autos
  <2> QED
    BY <1>1, <2>1, <2>2, <2>3, <2>4 DEF Held, Shape
<1>6. ASSUME NEW r \in Slot PROVE SlotOK(r)'
  <2>1. CASE job[r].at = w
    <3>1. pc'[r] = "idle" /\ job'[r] = NoJob /\ got'[r] = None
      BY <1>1, <2>1
    <3> QED
      BY <1>2, <3>1 DEF SlotOK, Kind
  <2>2. CASE job[r].at # w
    <3>1. pc'[r] = pc[r] /\ job'[r] = job[r] /\ got'[r] = got[r] /\ SlotOK(r)
      BY <1>1, <2>2 DEF Held
    <3>2. CASE pc[r] = "idle"
      BY <1>2, <3>1, <3>2 DEF SlotOK, Kind
    <3>3. CASE pc[r] # "idle"
      <4>1. job[r].at \in Worker
        BY <3>1, <3>3 DEF SlotOK
      <4>2. private'[job[r].at] = private[job[r].at]
        BY <1>4, <2>2, <4>1
      <4>3. NewRow(r)' = NewRow(r)
        BY <3>1 DEF NewRow, NewFields
      <4> QED
        BY <1>1, <3>1, <4>2, <4>3 DEF SlotOK, Kind, Kept
    <3> QED
      BY <3>2, <3>3
  <2> QED
    BY <2>1, <2>2
<1>7. Fitting'
  <2>1. Pending' \subseteq Pending
    BY <1>1, <1>2 DEF Pending, Kind
  <2>2. \A u \in Worker : PendingAt(u)' \subseteq PendingAt(u)
    BY <1>1, <1>2, <2>1 DEF PendingAt, Pending, Kind
  <2>3. /\ Cardinality(Pending') <= Cardinality(Pending)
        /\ \A u \in Worker : Cardinality(PendingAt(u)') <= Cardinality(PendingAt(u))
    BY <2>1, <2>2, PendingFinite, FS_Subset
  <2>4. MaxVersions \in Nat /\ Len(published) \in Nat
        /\ \A u \in Worker : Len(private[u]) \in Nat /\ Len(private'[u]) <= Len(private[u])
                             /\ Len(private'[u]) \in Nat
    BY <1>3, <1>4, ConfigStoreAssumption, ListLength DEF Held, Shape
  <2>5. Len(published') + Cardinality(Pending') <= MaxVersions
    BY <1>1, <2>3, <2>4, PendingFinite, PendingFinitePrimed DEF Held, Fitting
  <2>6. ASSUME NEW u \in Worker
        PROVE  Len(private'[u]) + Cardinality(PendingAt(u)') <= MaxVersions
    BY <2>3, <2>4, PendingFinite, PendingFinitePrimed DEF Held, Fitting
  <2> QED
    BY <2>5, <2>6 DEF Fitting
<1>8. Numbered'
  BY <1>1, <1>3, <1>4 DEF Held, Numbered
<1>9. Caches'
  <2>1. ASSUME NEW u \in Worker, NEW v \in 1..MaxVersions, cache'[u][v] # None
        PROVE  /\ Proper(cache'[u][v]) /\ cache'[u][v].version = v
               /\ KeptIn(published', private'[u], cache'[u][v])
    <3>1. u # w /\ cache'[u][v] = cache[u][v] /\ private'[u] = private[u]
      BY <1>1, <1>4, <2>1 DEF Held, Shape
    <3> QED
      BY <1>1, <2>1, <3>1 DEF Held, Caches, Kept
  <2> QED
    BY <2>1 DEF Caches, Kept
<1>10. Acks' /\ DecisionsBounded'
  BY <1>1 DEF Held, Acks, DecisionsBounded
<1> QED
  BY <1>5, <1>6, <1>7, <1>8, <1>9, <1>10 DEF Held

-----------------------------------------------------------------------------
LEMMA InitHeld == Init => Held
<1> SUFFICES ASSUME Init PROVE Held
  OBVIOUS
<1>1. MaxVersions \in Nat /\ MaxFaults \in Nat /\ IsFiniteSet(Worker)
  BY ConfigStoreAssumption
<1>2. opened \subseteq Worker
  BY DEF Init
<1>3. faults \in 0..MaxFaults
  <2>1. IsFiniteSet(Worker \ opened)
    BY <1>1, FS_Subset
  <2>2. Cardinality(Worker \ opened) \in Nat
    BY <2>1, FS_CardinalityType
  <2> QED
    BY <1>1, <2>2 DEF Init
<1>4. NoJob \in Job /\ NoJob.kind = "none"
  BY DEF NoJob, Job
<1>5. Listed(<<>>) /\ Len(<<>>) = 0
  BY DEF Listed
<1>6. Shape
  BY <1>2, <1>3, <1>4, <1>5 DEF Init, Shape, Pc, Autos
<1>7. \A r \in Slot : SlotOK(r)
  BY <1>4 DEF Init, SlotOK, Kind
<1>8. Fitting
  <2>1. Pending = {} /\ \A w \in Worker : PendingAt(w) = {}
    BY <1>4 DEF Init, Pending, PendingAt, Kind
  <2>2. Cardinality(Pending) = 0 /\ \A w \in Worker : Cardinality(PendingAt(w)) = 0
    BY <2>1, FS_EmptySet
  <2>3. Len(published) = 0 /\ \A w \in Worker : Len(private[w]) = 0
    BY <1>5 DEF Init
  <2> QED
    BY <1>1, <2>2, <2>3 DEF Fitting
<1>9. Numbered /\ Caches /\ Acks /\ DecisionsBounded
  BY <1>5 DEF Init, Numbered, Caches, Acks, DecisionsBounded
<1> QED
  BY <1>6, <1>7, <1>8, <1>9 DEF Held

LEMMA NextHeld == Held /\ [Next]_vars => Held'
<1> SUFFICES ASSUME Held, [Next]_vars PROVE Held'
  OBVIOUS
<1>1. ASSUME NEW r \in Slot, NEW w \in Worker, Arrive(r, w) PROVE Held'
  BY <1>1, ArriveHeld
<1>2. ASSUME NEW r \in Slot, Step(r) PROVE Held'
  BY <1>2, ReadHeld, DoneHeld, NumberHeld, InsertHeld, AppendHeld, AcknowledgeHeld DEF Step
<1>3. ASSUME NEW r \in Slot, Failure(r) PROVE Held'
  BY <1>3, ReadHeld, DoneHeld, InsertHeld, ArriveHeld DEF Failure
<1>4. ASSUME NEW c \in Seed, WriteByHand(c) PROVE Held'
  BY <1>4, WriteHeld
<1>5. ASSUME NEW w \in Worker, Connect(w) \/ Crash(w) PROVE Held'
  BY <1>5, ConnectHeld, CrashHeld
<1>6. CASE UNCHANGED vars
  <2>1. UNCHANGED <<pc, job, got, published, opened, private, cache, extras, pinned, seen, tokens,
                    refused, acked, faults, disturbed>>
    BY <1>6 DEF vars, service, stores, customers, failures
  <2>2. \A r \in Slot : SlotOK(r)'
    BY <2>1, OthersOK, ExtendsItself DEF Held, Shape, Grown
  <2>3. Fitting'
    BY <2>1, QuietFitting DEF Held, Pending, PendingAt, Kind
  <2>4. Shape' /\ Numbered' /\ Caches' /\ Acks' /\ DecisionsBounded'
    BY <2>1 DEF Held, Shape, Numbered, Caches, Kept, Acks, DecisionsBounded
  <2> QED
    BY <2>2, <2>3, <2>4 DEF Held
<1> QED
  BY <1>1, <1>2, <1>3, <1>4, <1>5, <1>6 DEF Next

LEMMA HeldAlways == Spec => []Held
BY InitHeld, NextHeld, PTL DEF Spec

-----------------------------------------------------------------------------
(* Every reachable state is well typed: the versions, in the table, in     *)
(* every list and in every cache, are in bounds.                           *)
THEOREM TypeCorrect == Spec => []TypeOK
<1>1. Held => TypeOK
  <2> SUFFICES ASSUME Held PROVE TypeOK
    OBVIOUS
  <2>1. ASSUME NEW r \in Slot
        PROVE  /\ job[r].kind \in {"none", "turn", "accept", "publish", "read"}
               /\ job[r].want \in 0..MaxVersions \cup {Latest, None}
               /\ got[r] # None => ConfigType(got[r])
    <3>1. job[r] \in Job /\ pc[r] \in Pc /\ SlotOK(r)
      BY DEF Held, Shape
    <3>2. got[r] # None => Proper(got[r])
      BY <3>1 DEF SlotOK, Pc
    <3> QED
      BY <3>1, <3>2, ProperTyped DEF Job
  <2>2. ASSUME NEW list \in {published} \cup {private[w] : w \in Worker}
        PROVE  /\ Len(list) <= MaxVersions
               /\ \A i \in DOMAIN list : list[i].version \in 1..MaxVersions
    <3>1. DOMAIN list = 1..Len(list)
      BY ListLength DEF Held, Shape
    <3> QED
      BY <3>1, ListBounds DEF Held
  <2>3. \A w \in Worker, v \in 1..MaxVersions :
            cache[w][v] # None => ConfigType(cache[w][v]) /\ cache[w][v].version = v
    BY ProperTyped DEF Held, Caches
  <2> QED
    BY <2>1, <2>2, <2>3 DEF Held, Shape, TypeOK, Pc
<1> QED
  BY HeldAlways, <1>1, PTL

(* A publication that the database took and that was answered stays what   *)
(* its number stands for, whoever publishes next and whatever crashes      *)
(* (merchant_store.save, db.insert_merchant_config).                       *)
THEOREM AnswersStand == Spec => []AcksInForce
<1>1. Held => AcksInForce
  <2> SUFFICES ASSUME Held, NEW a \in acked, a.into = "table"
               PROVE  InTable(a.row.version) /\ Table(a.row.version) = a.row
    BY DEF AcksInForce
  <2>1. a.row.version \in 1..Len(published) /\ published[a.row.version] = a.row
    BY DEF Held, Acks
  <2>2. a.row.version \in Nat
    BY <2>1, ListLength DEF Held, Shape
  <2> QED
    BY <2>1, <2>2, TablePlaces DEF Held, Shape
<1> QED
  BY HeldAlways, <1>1, PTL

(* Every turn is decided within the platform's bounds and with the rules   *)
(* that protect consumers, whatever somebody wrote to the tables and       *)
(* however the reads fail (merchant.clamp).                                *)
THEOREM DecidedInBounds == Spec => []DecisionsBounded
<1>1. Held => DecisionsBounded
  BY DEF Held
<1> QED
  BY HeldAlways, <1>1, PTL

(* Every setting that is legal by itself is what requests are served with, *)
(* whatever else is wrong with its row, or is missing of it.               *)
THEOREM NoSettingLost == Spec => []SettingsKept
<1>1. Held => SettingsKept
  <2> SUFFICES ASSUME Held, NEW r \in Slot, At(r, "loaded"), got[r].version # 0
               PROVE  \E row \in Sources(job[r].at, got[r].version) : Keeps(row, got[r])
    BY DEF SettingsKept, Keeps
  <2>1. /\ job[r].at \in Worker /\ got[r].version \in Nat
        /\ KeptIn(published, private[job[r].at], got[r])
    BY DEF Held, SlotOK, Kept, Proper, At
  <2>2. got[r].version # Latest
    BY <2>1, ConfigStoreAssumption
  <2>3. PICK rows \in {published, private[job[r].at]} : \E i \in 1..Len(rows) :
            rows[i].version = got[r].version /\ Keeps(rows[i], got[r])
    BY <2>1 DEF KeptIn
  <2>4. PICK i \in 1..Len(rows) : rows[i].version = got[r].version /\ Keeps(rows[i], got[r])
    BY <2>3
  <2>5. DOMAIN rows = 1..Len(rows)
    BY <2>1, ListLength DEF Held, Shape
  <2>6. i \in Places(rows, got[r].version)
    BY <2>2, <2>4, <2>5 DEF Places
  <2>7. rows[i] \in Sources(job[r].at, got[r].version)
    BY <2>6 DEF Sources
  <2> QED
    BY <2>4, <2>7
<1> QED
  BY HeldAlways, <1>1, PTL

(* A payload that is fine on the built-in fields is fine on any others     *)
(* that are.                                                               *)
LEMMA MergedValid ==
    ASSUME NEW old, Valid(old), old.values \in [Field -> Int], NEW p,
           Valid(Merged(BuiltinFields, p))
    PROVE  Valid(Merged(old, p))
<1> DEFINE new == Merged(old, p)
           base == Merged(BuiltinFields, p)
<1>1. /\ "return_window_days" \in Field /\ "instant_refund_cap_usd" \in Field
      /\ "emotion_large_model" \in Field /\ "emotion_hard_stop" \in Field
      /\ Defaults \in [Field -> Int] /\ BuiltinFields.values = Defaults
  BY FieldNames DEF Defaults, BuiltinFields
<1>2. \A f \in Field :
         /\ new.values[f] = IF f = "return_window_days" THEN p.window
                            ELSE IF f = "instant_refund_cap_usd" THEN p.cap ELSE old.values[f]
         /\ base.values[f] = IF f = "return_window_days" THEN p.window
                             ELSE IF f = "instant_refund_cap_usd" THEN p.cap ELSE Defaults[f]
  BY <1>1 DEF Merged
<1>3. \A f \in Field : InBounds(f, new.values[f]) /\ Whole(f, new.values[f])
  <2>1. /\ \A f \in Field : InBounds(f, old.values[f]) /\ Whole(f, old.values[f])
        /\ \A f \in Field : InBounds(f, base.values[f]) /\ Whole(f, base.values[f])
    BY ValidParts
  <2> QED
    BY <1>2, <2>1
<1>4. RaisesInTime(new.values)
  <2>1. RaisesInTime(old.values)
    BY ValidParts
  <2>2. /\ new.values["emotion_large_model"] = old.values["emotion_large_model"]
        /\ new.values["emotion_hard_stop"] = old.values["emotion_hard_stop"]
    BY <1>1, <1>2
  <2> QED
    BY <2>1, <2>2 DEF RaisesInTime
<1>5. LegalRules(new.rules)
  <2>1. LegalRules(old.rules) /\ LegalRules(base.rules)
    BY ValidParts
  <2>2. /\ DOMAIN new.rules = DOMAIN old.rules \cup DOMAIN p.rules
        /\ \A c \in DOMAIN new.rules :
              new.rules[c] = IF c \in DOMAIN p.rules THEN p.rules[c] ELSE old.rules[c]
    BY DEF Merged
  <2>3. \A c \in DOMAIN p.rules : c \in DOMAIN base.rules /\ base.rules[c] = p.rules[c]
    BY DEF Merged
  <2> QED
    BY <2>1, <2>2, <2>3 DEF LegalRules
<1>6. new.note # Blank
  <2>1. base.note # Blank
    BY ValidParts
  <2> QED
    BY <2>1 DEF Merged
<1> QED
  BY <1>3, <1>4, <1>5, <1>6, ValidParts

(* No row, however broken, keeps a merchant from publishing a good policy  *)
(* over it (app.update_policy).                                            *)
THEOREM AlwaysRepairable == Spec => []NeverLockedOut
<1>1. Held => NeverLockedOut
  <2> SUFFICES ASSUME Held, NEW r \in Slot, At(r, "loaded"),
                      Valid(Merged(BuiltinFields, job[r].about))
               PROVE  Valid(NewFields(r))
    BY DEF NeverLockedOut
  <2>1. Proper(got[r])
    BY DEF Held, SlotOK, At
  <2> QED
    BY <2>1, MergedValid DEF Proper, NewFields
<1> QED
  BY HeldAlways, <1>1, PTL

-----------------------------------------------------------------------------
(* Undisturbed workers: all have the database, and no query has failed.    *)
AnswerIn(table, v) == IF v = 0 THEN Builtin ELSE Config(table[v])

DecisionIn(table, v) == [config |-> Config(table[v]), auto |-> table[v].auto]

(* A turn asks for the version its conversation is pinned to, an           *)
(* acceptance for the token's, and both get that version.                  *)
Served(r) == Kind(r, "turn") \/ Kind(r, "accept")

CalmSlot(r) ==
    /\ pc[r] # "append"
    /\ Kind(r, "turn") => job[r].want = pinned[job[r].about]
    /\ Kind(r, "accept") => job[r].want = job[r].about.version
    /\ Served(r) => job[r].want \in 0..Len(published)
    /\ Served(r) /\ pc[r] = "loaded" => got[r] = AnswerIn(published, job[r].want)

FreshCaches ==
    \A w \in Worker, v \in 1..MaxVersions :
        cache[w][v] # None => v <= Len(published) /\ cache[w][v] = Config(published[v])

Pins == \A s \in Session : pinned[s] # None => pinned[s] <= Len(published)

Alike ==
    \A s \in Session :
        /\ pinned[s] = None => seen[s] = {}
        /\ pinned[s] \notin {None, 0} => seen[s] \subseteq {DecisionIn(published, pinned[s])}

Worth ==
    \A t \in tokens :
        /\ t.version <= Len(published)
        /\ t.discount = Discount(AnswerIn(published, t.version))

Undisturbed ==
    /\ opened = Worker /\ \A w \in Worker : private[w] = <<>>
    /\ FreshCaches /\ Pins /\ Alike /\ Worth
    /\ refused = {}
    /\ \A r \in Slot : CalmSlot(r)

Calm == ~disturbed => Undisturbed

(* What a version stands for does not change while the table grows.        *)
LEMMA AnswerStays ==
    ASSUME NEW table, NEW table2, Listed(table), Extends(table2, table),
           NEW v \in 0..Len(table)
    PROVE  /\ AnswerIn(table2, v) = AnswerIn(table, v) /\ v \in 0..Len(table2)
           /\ v # 0 => DecisionIn(table2, v) = DecisionIn(table, v)
<1>1. Len(table) \in Nat /\ Len(table2) \in Nat /\ Len(table) <= Len(table2)
  BY ListLength DEF Extends
<1>2. v # 0 => table2[v] = table[v]
  BY <1>1 DEF Extends
<1> QED
  BY <1>1, <1>2 DEF AnswerIn, DecisionIn

(* What has been written stands while the table grows and conversations    *)
(* begin.                                                                  *)
KeptPins == \A s \in Session : pinned[s] # None => pinned'[s] = pinned[s]

LEMMA CalmSlotStays ==
    ASSUME Held, NEW q \in Slot, CalmSlot(q), Extends(published', published), KeptPins,
           pc'[q] = pc[q], job'[q] = job[q], got'[q] = got[q]
    PROVE  CalmSlot(q)'
<1>1. Served(q) => job[q].want \in 0..Len(published)
  BY DEF CalmSlot
<1>2. ASSUME Served(q)
      PROVE  /\ job[q].want \in 0..Len(published')
             /\ AnswerIn(published', job[q].want) = AnswerIn(published, job[q].want)
  BY <1>1, <1>2, AnswerStays DEF Held, Shape
<1>3. ASSUME Kind(q, "turn") PROVE job[q].want = pinned'[job[q].about]
  <2>1. job[q].about \in Session /\ job[q].want = pinned[job[q].about]
    BY <1>3 DEF Held, SlotOK, CalmSlot
  <2>2. job[q].want # None
    <3>1. Len(published) \in Nat
      BY ListLength DEF Held, Shape
    <3> QED
      BY <1>1, <1>3, <3>1, ConfigStoreAssumption DEF Served
  <2> QED
    BY <2>1, <2>2 DEF KeptPins
<1> QED
  BY <1>2, <1>3 DEF CalmSlot, Served, Kind

LEMMA CachesStay ==
    ASSUME Held, FreshCaches, Extends(published', published), UNCHANGED cache
    PROVE  FreshCaches'
<1>1. Len(published) \in Nat /\ Len(published') \in Nat
  BY ListLength DEF Held, Shape, Extends
<1>2. ASSUME NEW w \in Worker, NEW v \in 1..MaxVersions, cache[w][v] # None
      PROVE  v <= Len(published') /\ cache[w][v] = Config(published'[v])
  <2>1. v <= Len(published) /\ cache[w][v] = Config(published[v])
    BY <1>2 DEF FreshCaches
  <2>2. v \in 1..Len(published)
    BY <1>1, <2>1
  <2> QED
    BY <1>1, <2>1, <2>2 DEF Extends
<1> QED
  BY <1>2 DEF FreshCaches

LEMMA PinsStay ==
    ASSUME Held, Pins, Extends(published', published), UNCHANGED pinned
    PROVE  Pins'
<1>1. Len(published) \in Nat /\ Len(published') \in Nat /\ Len(published) <= Len(published')
  BY ListLength DEF Held, Shape, Extends
<1>2. \A s \in Session : pinned[s] # None => pinned[s] \in Nat
  BY DEF Held, Shape
<1> QED
  BY <1>1, <1>2 DEF Pins

LEMMA PinnedVersion ==
    ASSUME Held, Pins, NEW s \in Session, pinned[s] # None
    PROVE  pinned[s] \in 0..Len(published) /\ Len(published) \in Nat
BY ListLength DEF Held, Shape, Pins

LEMMA AlikeStays ==
    ASSUME Held, Pins, Alike, Extends(published', published), UNCHANGED <<pinned, seen>>
    PROVE  Alike'
<1>1. ASSUME NEW s \in Session, pinned[s] \notin {None, 0}
      PROVE  DecisionIn(published', pinned[s]) = DecisionIn(published, pinned[s])
  <2>1. pinned[s] \in 0..Len(published)
    BY <1>1, PinnedVersion
  <2> QED
    BY <1>1, <2>1, AnswerStays DEF Held, Shape
<1> QED
  BY <1>1 DEF Alike

LEMMA WorthStays ==
    ASSUME Held, Worth, Extends(published', published), UNCHANGED tokens
    PROVE  Worth'
<1>1. ASSUME NEW t \in tokens
      PROVE  /\ t.version <= Len(published')
             /\ AnswerIn(published', t.version) = AnswerIn(published, t.version)
  <2>1. t.version \in 0..MaxVersions /\ t.version <= Len(published) /\ Len(published) \in Nat
        /\ Len(published') \in Nat
    BY ListLength DEF Held, Shape, TokenType, Worth, Extends
  <2>2. t.version \in 0..Len(published)
    BY <2>1
  <2>3. AnswerIn(published', t.version) = AnswerIn(published, t.version)
        /\ t.version \in 0..Len(published')
    BY <2>2, AnswerStays DEF Held, Shape
  <2> QED
    BY <2>1, <2>3
<1> QED
  BY <1>1 DEF Worth

(* A step of one request that writes nothing but, perhaps, a row.          *)
LEMMA CalmStep ==
    ASSUME Held, Undisturbed, NEW r \in Slot, Moved(r), CalmSlot(r)',
           Extends(published', published),
           UNCHANGED <<opened, private, cache, pinned, seen, tokens, refused>>
    PROVE  Undisturbed'
<1>1. FreshCaches' /\ Pins' /\ Alike' /\ Worth'
  BY CachesStay, PinsStay, AlikeStays, WorthStays DEF Undisturbed
<1>2. KeptPins
  BY DEF KeptPins
<1>3. \A q \in Slot : CalmSlot(q)'
  BY <1>2, MovedOthers, CalmSlotStays DEF Held, Undisturbed
<1> QED
  BY <1>1, <1>3 DEF Undisturbed

LEMMA StartCalm ==
    ASSUME Held, Undisturbed, NEW r \in Slot, NEW w \in Worker,
           NEW kind \in {"turn", "accept", "publish", "read"},
           NEW v \in 0..MaxVersions \cup {Latest},
           NEW about \in Session \cup TokenType \cup Payload \cup {None},
           Start(r, w, kind, v, about), UNCHANGED <<published, private, tokens>>,
           kind = "turn" => about \in Session /\ pinned'[about] = v,
           kind = "accept" => about \in tokens /\ about.version = v,
           kind = "publish" => about \in Payload,
           kind \in {"turn", "accept"} => v \in 0..Len(published)
    PROVE  Moved(r) /\ CalmSlot(r)'
<1> DEFINE j == [kind |-> kind, at |-> w, want |-> v, about |-> about, number |-> 0,
                 into |-> None]
<1>1. Moved(r)
  BY StartOK
<1>2. /\ pc' = [pc EXCEPT ![r] = IF AtHand(w, v) = None THEN "query" ELSE "loaded"]
      /\ job' = [job EXCEPT ![r] = j] /\ got' = [got EXCEPT ![r] = AtHand(w, v)]
  BY DEF Start, Goto
<1>3. /\ pc'[r] = IF AtHand(w, v) = None THEN "query" ELSE "loaded"
      /\ job'[r] = j /\ got'[r] = AtHand(w, v)
  BY <1>2 DEF Held, Shape
<1>4. ASSUME v \in 0..Len(published), AtHand(w, v) # None
      PROVE  AtHand(w, v) = AnswerIn(published, v)
  <2>1. v # Latest
    BY <1>4, ConfigStoreAssumption
  <2>2. w \in opened
    BY DEF Undisturbed
  <2>3. CASE v = 0
    BY <2>3 DEF AtHand, AnswerIn
  <2>4. CASE v # 0
    <3>1. v \in 1..MaxVersions /\ AtHand(w, v) = cache[w][v]
      BY <2>1, <2>2, <2>4 DEF AtHand
    <3>2. cache[w][v] = Config(published[v])
      BY <1>4, <3>1 DEF Undisturbed, FreshCaches
    <3> QED
      BY <2>4, <3>1, <3>2 DEF AnswerIn
  <2> QED
    BY <2>3, <2>4
<1>5. CalmSlot(r)'
  BY <1>3, <1>4 DEF CalmSlot, Served, Kind
<1> QED
  BY <1>1, <1>5

(* A conversation begins: nobody has pinned it, or decided it, before.     *)
LEMMA OpenCalm ==
    ASSUME Held, Undisturbed, NEW r \in Slot, NEW w \in Worker, NEW s \in Session,
           Open(r, w, s)
    PROVE  Undisturbed'
<1> DEFINE v == CurrentVersion(w)
<1>1. /\ pinned[s] = None /\ pinned' = [pinned EXCEPT ![s] = v] /\ Start(r, w, "turn", v, s)
      /\ UNCHANGED <<published, opened, private, cache, seen, tokens, refused>>
  BY DEF Open, Begin, stores
<1>2. w \in opened /\ v = Len(published) /\ v \in 0..MaxVersions /\ Len(published) \in Nat
  BY CurrentBounded, ListLength DEF Undisturbed, Held, Shape
<1> HIDE DEF v
<1>3. pinned'[s] = v /\ \A u \in Session \ {s} : pinned'[u] = pinned[u]
  BY <1>1 DEF Held, Shape
<1>4. Moved(r) /\ CalmSlot(r)'
  <2>1. v \in 0..MaxVersions \cup {Latest} /\ v \in 0..Len(published)
    BY <1>2
  <2> QED
    BY <1>1, <1>3, <2>1, StartCalm
<1>5. KeptPins /\ Extends(published', published)
  BY <1>1, <1>3, ExtendsItself DEF KeptPins, Held, Shape
<1>6. \A q \in Slot : CalmSlot(q)'
  BY <1>4, <1>5, MovedOthers, CalmSlotStays DEF Held, Undisturbed
<1>7. FreshCaches' /\ Worth'
  BY <1>1, <1>5, CachesStay, WorthStays DEF Undisturbed
<1>8. Pins'
  BY <1>1, <1>2, <1>3 DEF Undisturbed, Pins
<1>9. Alike'
  <2>1. seen[s] = {}
    BY <1>1 DEF Undisturbed, Alike
  <2> QED
    BY <1>1, <1>2, <1>3, <2>1, ConfigStoreAssumption DEF Undisturbed, Alike
<1> QED
  BY <1>1, <1>6, <1>7, <1>8, <1>9 DEF Undisturbed

LEMMA ArriveCalm ==
    ASSUME Held, Undisturbed, NEW r \in Slot, NEW w \in Worker, Arrive(r, w)
    PROVE  Undisturbed'
<1>1. ASSUME NEW kind \in {"turn", "accept", "publish", "read"},
             NEW v \in 0..MaxVersions \cup {Latest},
             NEW about \in Session \cup TokenType \cup Payload \cup {None},
             Start(r, w, kind, v, about),
             UNCHANGED <<stores, cache, customers>>,
             kind = "turn" => about \in Session /\ pinned[about] = v,
             kind = "accept" => about \in tokens /\ about.version = v,
             kind = "publish" => about \in Payload,
             kind \in {"turn", "accept"} => v \in 0..Len(published)
      PROVE  Undisturbed'
  <2>1. UNCHANGED <<published, opened, private, cache, pinned, seen, tokens, refused>>
    BY <1>1 DEF stores, customers
  <2>2. Moved(r) /\ CalmSlot(r)'
    BY <1>1, <2>1, StartCalm
  <2>3. Extends(published', published)
    BY <2>1, ExtendsItself DEF Held, Shape
  <2> QED
    BY <2>1, <2>2, <2>3, CalmStep
<1>2. ASSUME NEW s \in Session, Turn(r, w, s) PROVE Undisturbed'
  <2>1. pinned[s] # None /\ Start(r, w, "turn", pinned[s], s) /\ UNCHANGED <<stores, cache, customers>>
    BY <1>2 DEF Turn
  <2>2. pinned[s] \in 0..MaxVersions /\ pinned[s] \in 0..Len(published)
    BY <2>1, PinnedVersion DEF Undisturbed, Held, Shape
  <2> QED
    BY <1>1, <2>1, <2>2
<1>3. ASSUME NEW t \in tokens, Accept(r, w, t) PROVE Undisturbed'
  <2>1. Start(r, w, "accept", t.version, t) /\ UNCHANGED <<stores, cache, customers>>
    BY <1>3 DEF Accept
  <2>2. t \in TokenType /\ t.version \in 0..MaxVersions /\ t.version <= Len(published)
        /\ Len(published) \in Nat
    BY ListLength DEF Undisturbed, Worth, Held, Shape, TokenType
  <2>3. t.version \in 0..Len(published)
    BY <2>2
  <2> QED
    BY <1>1, <2>1, <2>2, <2>3
<1>4. ASSUME NEW p \in Payload, Publish(r, w, p) PROVE Undisturbed'
  BY <1>1, <1>4 DEF Publish
<1>5. ASSUME ReadPolicy(r, w) PROVE Undisturbed'
  BY <1>1, <1>5 DEF ReadPolicy
<1> QED
  BY <1>2, <1>3, <1>4, <1>5, OpenCalm DEF Arrive

(* The version that was asked for is read and remembered as it is in the   *)
(* table, and a request that needs one finds it.                           *)
LEMMA FindCalm ==
    ASSUME Held, Undisturbed, NEW r \in Slot, Find(r) \/ FindNone(r)
    PROVE  Undisturbed'
<1> DEFINE v == job[r].want
<1>1. PICK c : /\ Loaded(r, c)
               /\ \/ c = Config(Table(v)) /\ InTable(v) /\ Cached(r, c)
                  \/ c = Builtin /\ ~InTable(v) /\ UNCHANGED cache
  BY DEF Find, FindNone
<1>2. /\ pc' = [pc EXCEPT ![r] = "loaded"] /\ job' = job /\ got' = [got EXCEPT ![r] = c]
      /\ UNCHANGED <<published, opened, private, pinned, seen, tokens, refused>>
  BY <1>1 DEF Loaded, Goto, stores, customers
<1>3. At(r, "query") /\ SlotOK(r) /\ CalmSlot(r) /\ job[r].at \in Worker
  BY DEF Find, FindNone, Held, SlotOK, Undisturbed, At
<1>4. Extends(published', published) /\ KeptPins
  BY <1>2, ExtendsItself DEF Held, Shape, KeptPins
<1>5. Moved(r)
  <2>1. job' = [job EXCEPT ![r] = job[r]] /\ job[r] \in Job /\ "loaded" \in Pc
    BY <1>2 DEF Held, Shape, Pc
  <2> QED
    BY <1>2, <2>1 DEF Moved
<1>6. pc'[r] = "loaded" /\ job'[r] = job[r] /\ got'[r] = c
  BY <1>2 DEF Held, Shape
<1>7. Served(r) => c = AnswerIn(published, v)
  <2> SUFFICES ASSUME Served(r) PROVE c = AnswerIn(published, v)
    OBVIOUS
  <2>1. v \in 0..Len(published) /\ Len(published) \in Nat
    BY <1>3, ListLength DEF CalmSlot, Held, Shape
  <2>2. InTable(v) <=> v \in 1..Len(published)
    BY <2>1, TablePlaces DEF Held, Shape
  <2>3. v \in 1..Len(published) => Table(v) = published[v]
    BY TablePlaces DEF Held, Shape
  <2> QED
    BY <1>1, <2>1, <2>2, <2>3 DEF AnswerIn
<1>8. \A q \in Slot : CalmSlot(q)'
  <2>1. CalmSlot(r)'
    BY <1>2, <1>3, <1>6, <1>7 DEF CalmSlot, Served, Kind
  <2> QED
    BY <1>4, <1>5, <2>1, MovedOthers, CalmSlotStays DEF Held, Undisturbed
<1>9. FreshCaches'
  <2>1. CASE InTable(v)
    <3>1. PICK i \in 1..Len(published) : Table(v) = published[i]
      BY <2>1, ListPlaces DEF InTable, Table, Held, Shape
    <3>2. c = Config(published[i]) /\ c.version = i /\ Len(published) \in Nat
      BY <1>1, <2>1, <3>1, ListLength DEF Config, Held, Shape, Numbered
    <3>3. \A w \in Worker, u \in 1..MaxVersions :
              cache'[w][u] = IF w = job[r].at /\ u = i THEN c ELSE cache[w][u]
      <4>1. Cached(r, c)
        BY <1>1, <2>1
      <4>2. cache = [w \in Worker |-> [u \in 1..MaxVersions |-> cache[w][u]]]
        BY DEF Held, Shape
      <4> QED
        BY <1>3, <3>2, <4>1, <4>2 DEF Cached
    <3> QED
      BY <1>2, <3>2, <3>3 DEF FreshCaches, Undisturbed
  <2>2. CASE ~InTable(v)
    BY <1>1, <1>4, <2>2, CachesStay DEF Undisturbed
  <2> QED
    BY <2>1, <2>2
<1>10. Pins' /\ Alike' /\ Worth'
  BY <1>2, <1>4, PinsStay, AlikeStays, WorthStays DEF Undisturbed
<1> QED
  BY <1>2, <1>8, <1>9, <1>10 DEF Undisturbed

LEMMA DoneCalm ==
    ASSUME Held, NEW r \in Slot, Done(r)
    PROVE  Moved(r) /\ CalmSlot(r)'
<1>1. pc'[r] = "idle" /\ job'[r] = NoJob
  BY DEF Done, Goto, Held, Shape
<1>2. NoJob.kind = "none"
  BY DEF NoJob
<1> QED
  BY <1>1, <1>2, DoneOK DEF CalmSlot, Served, Kind

(* A turn is decided with the version of its conversation, and with the    *)
(* automatic refund policy that was published with it.                     *)
LEMMA DecideCalm ==
    ASSUME Held, Undisturbed, NEW r \in Slot, Decide(r)
    PROVE  Undisturbed'
<1> DEFINE s == job[r].about
           v == job[r].want
           auto == IF ~Stored(r) THEN extras[job[r].at]
                   ELSE IF InTable(got[r].version) THEN Table(got[r].version).auto
                   ELSE NoAuto
           x == [config |-> got[r], auto |-> auto]
           t == [version |-> got[r].version, discount |-> Discount(got[r])]
<1>1. /\ At(r, "loaded") /\ Kind(r, "turn") /\ Done(r)
      /\ seen' = [seen EXCEPT ![s] = @ \cup {x}] /\ tokens' = tokens \cup {t}
      /\ UNCHANGED <<published, opened, private, cache, pinned, refused>>
  BY DEF Decide, Decided, stores
<1>2. /\ s \in Session /\ job[r].at \in Worker /\ v = pinned[s] /\ v \in 0..Len(published)
      /\ got[r] = AnswerIn(published, v) /\ Len(published) \in Nat
  BY <1>1, ListLength DEF Held, Shape, SlotOK, Undisturbed, CalmSlot, Served, At
<1>3. got[r].version = v
  BY <1>2, BuiltinProper DEF AnswerIn, Config, Held, Numbered
<1>4. v # 0 => x = DecisionIn(published, v)
  <2> SUFFICES ASSUME v # 0 PROVE x = DecisionIn(published, v)
    OBVIOUS
  <2>1. v \in 1..Len(published) /\ v \in Nat
    BY <1>2
  <2>2. InTable(v) /\ Table(v) = published[v]
    BY <2>1, TablePlaces DEF Held, Shape
  <2>3. Stored(r)
    BY <1>2, <1>3 DEF Stored, Connected, Undisturbed
  <2> QED
    BY <1>2, <1>3, <2>2, <2>3 DEF DecisionIn, AnswerIn
<1> HIDE DEF x
<1>5. Moved(r) /\ CalmSlot(r)' /\ Extends(published', published) /\ KeptPins
  BY <1>1, DoneCalm, ExtendsItself DEF KeptPins, Held, Shape
<1>6. \A q \in Slot : CalmSlot(q)'
  BY <1>5, MovedOthers, CalmSlotStays DEF Held, Undisturbed
<1>7. FreshCaches' /\ Pins'
  BY <1>1, <1>5, CachesStay, PinsStay DEF Undisturbed
<1>8. Alike'
  <2>1. \A u \in Session : seen'[u] = IF u = s THEN seen[u] \cup {x} ELSE seen[u]
    BY <1>1 DEF Held, Shape
  <2>2. pinned[s] # None
    BY <1>2, ConfigStoreAssumption
  <2> QED
    BY <1>1, <1>2, <1>4, <2>1, <2>2 DEF Undisturbed, Alike
<1>9. Worth'
  BY <1>1, <1>2, <1>3 DEF Undisturbed, Worth
<1> QED
  BY <1>1, <1>6, <1>7, <1>8, <1>9 DEF Undisturbed

(* A token is compared with the configuration it was issued under.         *)
LEMMA CheckCalm ==
    ASSUME Held, Undisturbed, NEW r \in Slot, Check(r)
    PROVE  Undisturbed'
<1> DEFINE t == job[r].about
<1>1. /\ At(r, "loaded") /\ Kind(r, "accept") /\ Done(r)
      /\ refused' = IF t.discount > Discount(got[r]) THEN refused \cup {t} ELSE refused
      /\ UNCHANGED <<published, opened, private, cache, pinned, seen, tokens>>
  BY DEF Check, stores
<1>2. t \in tokens /\ got[r] = AnswerIn(published, t.version) /\ Discount(got[r]) \in Int
  BY <1>1, ProperTyped DEF Held, SlotOK, Undisturbed, CalmSlot, Served, At
<1>3. t.discount = Discount(got[r])
  BY <1>2 DEF Undisturbed, Worth
<1>4. UNCHANGED refused
  BY <1>1, <1>2, <1>3
<1>5. Moved(r) /\ CalmSlot(r)' /\ Extends(published', published)
  BY <1>1, DoneCalm, ExtendsItself DEF Held, Shape
<1> QED
  BY <1>1, <1>4, <1>5, CalmStep

LEMMA EndCalm ==
    ASSUME Held, Undisturbed, NEW r \in Slot, PolicyRead(r) \/ Reject(r) \/ InsertConflict(r)
    PROVE  Undisturbed'
<1>1. Done(r) /\ UNCHANGED <<published, opened, private, cache, pinned, seen, tokens, refused>>
  BY DEF PolicyRead, Reject, InsertConflict, stores, customers
<1>2. Moved(r) /\ CalmSlot(r)' /\ Extends(published', published)
  BY <1>1, DoneCalm, ExtendsItself DEF Held, Shape
<1> QED
  BY <1>1, <1>2, CalmStep

(* With a database every publication goes to it.                           *)
LEMMA PublishCalm ==
    ASSUME Held, Undisturbed, NEW r \in Slot,
           Number(r) \/ Insert(r) \/ Acknowledge(r)
    PROVE  Undisturbed'
<1> DEFINE w == job[r].at
<1>1. /\ w \in Worker /\ Kind(r, "publish") /\ job[r] \in Job /\ Connected(r)
      /\ pc[r] \in {"loaded", "insert", "acknowledge"}
  BY DEF Number, Insert, Acknowledge, Held, Shape, SlotOK, Undisturbed, At, Connected
<1>2. UNCHANGED <<opened, private, cache, pinned, seen, tokens, refused>>
  BY DEF Number, Insert, Acknowledge, stores, customers
<1>3. Extends(published', published)
  <2>1. published' = published \/ published' = Append(published, NewRow(r))
    BY DEF Number, Insert, Acknowledge, stores
  <2>2. Listed(published)
    BY DEF Held, Shape
  <2>3. Extends(Append(published, NewRow(r)), published)
    BY <2>2, AppendExtends
  <2> QED
    BY <2>1, <2>2, <2>3, ExtendsItself
<1>4. CASE Number(r)
  <2> DEFINE n == CurrentVersion(w) + 1
             j == [job[r] EXCEPT !.number = n, !.into = "table"]
  <2>1. n \in Nat
    BY <1>1, CurrentBounded
  <2>2. /\ job' = [job EXCEPT ![r].number = n, ![r].into = "table"]
        /\ pc' = [pc EXCEPT ![r] = "insert"] /\ got' = got
    BY <1>1, <1>4 DEF Number, Goto
  <2> HIDE DEF n
  <2>3. j \in Job /\ j.kind = "publish" /\ "insert" \in Pc
    BY <1>1, <2>1 DEF Job, Kind, Pc
  <2>4. job' = [job EXCEPT ![r] = j] /\ got' = [got EXCEPT ![r] = got[r]]
    BY <2>2 DEF Held, Shape
  <2>5. Moved(r)
    BY <2>2, <2>3, <2>4 DEF Moved
  <2>6. pc'[r] = "insert" /\ job'[r] = j
    BY <2>2, <2>4 DEF Held, Shape
  <2>7. CalmSlot(r)'
    BY <2>3, <2>6 DEF CalmSlot, Served, Kind
  <2> QED
    BY <1>2, <1>3, <2>5, <2>7, CalmStep
<1>5. CASE Insert(r)
  <2>1. pc' = [pc EXCEPT ![r] = "acknowledge"] /\ job' = job /\ got' = got
    BY <1>5 DEF Insert, Goto
  <2>2. /\ job' = [job EXCEPT ![r] = job[r]] /\ got' = [got EXCEPT ![r] = got[r]]
        /\ pc'[r] = "acknowledge" /\ "acknowledge" \in Pc
    BY <2>1 DEF Held, Shape, Pc
  <2>3. Moved(r)
    BY <1>1, <2>1, <2>2 DEF Moved
  <2>4. CalmSlot(r)'
    BY <1>1, <2>1, <2>2 DEF CalmSlot, Served, Kind
  <2> QED
    BY <1>2, <1>3, <2>3, <2>4, CalmStep
<1>6. CASE Acknowledge(r)
  <2> DEFINE j == [NoJob EXCEPT !.kind = "read", !.at = w, !.want = Latest]
  <2>1. /\ pc' = [pc EXCEPT ![r] = "query"] /\ job' = [job EXCEPT ![r] = j]
        /\ got' = [got EXCEPT ![r] = AtHand(w, Latest)]
    BY <1>1, <1>6 DEF Acknowledge, Goto
  <2>2. j \in Job /\ j.kind = "read" /\ "query" \in Pc
    BY <1>1 DEF NoJob, Job, Pc
  <2>3. Moved(r)
    BY <2>1, <2>2 DEF Moved
  <2>4. pc'[r] = "query" /\ job'[r] = j
    BY <2>1 DEF Held, Shape
  <2>5. CalmSlot(r)'
    BY <2>2, <2>4 DEF CalmSlot, Served, Kind
  <2> QED
    BY <1>2, <1>3, <2>3, <2>5, CalmStep
<1> QED
  BY <1>4, <1>5, <1>6

(* Steps of no request: a row written by hand, a worker that dies.         *)
LEMMA IdleCalm ==
    ASSUME Held, Undisturbed,
           (\E c \in Seed : WriteByHand(c)) \/ UNCHANGED vars
    PROVE  Undisturbed'
<1>1. UNCHANGED <<pc, job, got, opened, private, cache, pinned, seen, tokens, refused>>
  BY DEF WriteByHand, service, stores, customers, vars
<1>2. Extends(published', published)
  <2>1. Listed(published)
    BY DEF Held, Shape
  <2>2. published' = published \/ \E x : published' = Append(published, x)
    BY DEF WriteByHand, stores, vars
  <2> QED
    BY <2>1, <2>2, ExtendsItself, AppendExtends
<1>3. FreshCaches' /\ Pins' /\ Alike' /\ Worth' /\ KeptPins
  BY <1>1, <1>2, CachesStay, PinsStay, AlikeStays, WorthStays DEF Undisturbed, KeptPins
<1>4. \A q \in Slot : CalmSlot(q)'
  BY <1>1, <1>2, <1>3, CalmSlotStays DEF Undisturbed
<1> QED
  BY <1>1, <1>3, <1>4 DEF Undisturbed

LEMMA CrashCalm ==
    ASSUME Held, Undisturbed, NEW w \in Worker, Crash(w)
    PROVE  Undisturbed'
<1>1. /\ pc' = [r \in Slot |-> IF job[r].at = w THEN "idle" ELSE pc[r]]
      /\ job' = [r \in Slot |-> IF job[r].at = w THEN NoJob ELSE job[r]]
      /\ got' = [r \in Slot |-> IF job[r].at = w THEN None ELSE got[r]]
      /\ private' = [private EXCEPT ![w] = <<>>]
      /\ cache' = [cache EXCEPT ![w] = [v \in 1..MaxVersions |-> None]]
      /\ UNCHANGED <<published, opened, pinned, seen, tokens, refused>>
  BY DEF Crash, customers
<1>2. Extends(published', published) /\ KeptPins
  BY <1>1, ExtendsItself DEF Held, Shape, KeptPins
<1>3. ASSUME NEW q \in Slot PROVE CalmSlot(q)'
  <2>1. CASE job[q].at = w
    <3>1. pc'[q] = "idle" /\ job'[q] = NoJob /\ NoJob.kind = "none"
      BY <1>1, <2>1 DEF NoJob
    <3> QED
      BY <3>1 DEF CalmSlot, Served, Kind
  <2>2. CASE job[q].at # w
    BY <1>1, <1>2, <2>2, CalmSlotStays DEF Undisturbed
  <2> QED
    BY <2>1, <2>2
<1>4. \A u \in Worker : private'[u] = <<>>
  BY <1>1 DEF Held, Shape, Undisturbed
<1>5. FreshCaches'
  BY <1>1 DEF Held, Shape, Undisturbed, FreshCaches
<1>6. Pins' /\ Alike' /\ Worth'
  BY <1>1, <1>2, PinsStay, AlikeStays, WorthStays DEF Undisturbed
<1> QED
  BY <1>1, <1>3, <1>4, <1>5, <1>6 DEF Undisturbed

LEMMA InitCalm == ASSUME UsePostgres = TRUE PROVE Init => Calm
<1> SUFFICES ASSUME Init, ~disturbed PROVE Undisturbed
  BY DEF Calm
<1>1. opened \subseteq Worker /\ Cardinality(Worker \ opened) = faults /\ ~(faults > 0)
  BY DEF Init
<1>2. opened = Worker
  <2>1. IsFiniteSet(Worker \ opened)
    BY ConfigStoreAssumption, FS_Subset
  <2>2. Cardinality(Worker \ opened) = 0
    BY <1>1, <2>1, FS_CardinalityType
  <2>3. Worker \ opened = {}
    BY <2>1, <2>2, FS_EmptySet
  <2> QED
    BY <1>1, <2>3
<1>3. FreshCaches /\ Pins /\ Worth
  BY DEF Init, FreshCaches, Pins, Worth
<1>4. Alike
  BY DEF Init, Alike
<1>5. \A r \in Slot : CalmSlot(r)
  BY DEF Init, CalmSlot, Served, Kind, NoJob
<1> QED
  BY <1>2, <1>3, <1>4, <1>5 DEF Init, Undisturbed

(* A version that is asked for by a request that needs one is there.       *)
LEMMA MissingCalm ==
    ASSUME Held, Undisturbed, NEW r \in Slot, FindMissing(r)
    PROVE  Undisturbed'
<1> DEFINE v == job[r].want
<1>1. /\ At(r, "query") /\ v # Latest /\ ~InTable(v)
      /\ job' = [job EXCEPT ![r].want = Latest]
      /\ UNCHANGED <<pc, got, published, opened, private, pinned, seen, tokens, refused, cache>>
  BY DEF FindMissing, stores, customers
<1>2. SlotOK(r) /\ CalmSlot(r) /\ v # 0
  BY <1>1 DEF Held, Undisturbed, SlotOK, At
<1>3. ~Served(r)
  <2> SUFFICES ASSUME Served(r) PROVE FALSE
    OBVIOUS
  <2>1. v \in 0..Len(published) /\ Len(published) \in Nat
    BY <1>2, ListLength DEF CalmSlot, Held, Shape
  <2>2. InTable(v) <=> v \in 1..Len(published)
    BY <2>1, TablePlaces DEF Held, Shape
  <2> QED
    BY <1>1, <1>2, <2>1, <2>2
<1>4. PICK j \in Job : job' = [job EXCEPT ![r] = j] /\ j.kind = job[r].kind
  <2>1. job[r] \in Job
    BY DEF Held, Shape
  <2>2. [job[r] EXCEPT !.want = Latest] \in Job
    BY <2>1 DEF Job
  <2> QED
    BY <1>1, <2>1, <2>2 DEF Job
<1>5. Moved(r)
  <2>1. pc' = [pc EXCEPT ![r] = pc[r]] /\ got' = [got EXCEPT ![r] = got[r]] /\ pc[r] \in Pc
    BY <1>1 DEF Held, Shape
  <2> QED
    BY <1>4, <2>1 DEF Moved
<1>6. CalmSlot(r)'
  <2>1. job'[r].kind = job[r].kind /\ pc'[r] = "query"
    BY <1>1, <1>4 DEF Held, Shape, At
  <2> QED
    BY <1>3, <2>1 DEF CalmSlot, Served, Kind
<1>7. Extends(published', published) /\ KeptPins
  BY <1>1, ExtendsItself DEF Held, Shape, KeptPins
<1>8. \A q \in Slot : CalmSlot(q)'
  BY <1>5, <1>6, <1>7, MovedOthers, CalmSlotStays DEF Held, Undisturbed
<1> QED
  BY <1>1, <1>8 DEF Undisturbed, FreshCaches, Pins, Worth, Alike

LEMMA NextCalm == ASSUME Held, Calm, [Next]_vars PROVE Calm'
<1> SUFFICES ASSUME ~disturbed' PROVE Undisturbed'
  BY DEF Calm
<1>1. ~Fault
  BY DEF Fault
<1>2. ASSUME Undisturbed, NEW r \in Slot, Step(r) PROVE Undisturbed'
  <2>1. ~AppendToList(r)
    BY <1>2 DEF Undisturbed, CalmSlot, AppendToList, At
  <2> QED
    BY <1>2, <2>1, FindCalm, MissingCalm, DecideCalm, CheckCalm, EndCalm, PublishCalm DEF Step
<1>3. ASSUME NEW r \in Slot, Failure(r) PROVE FALSE
  BY <1>1, <1>3 DEF Failure, FindBare, FindFails, FindLatestFails, DecideFails, InsertFails,
                    InsertUnacknowledged, OpenFails
<1>4. ASSUME Undisturbed, NEW w \in Worker, Connect(w) PROVE FALSE
  BY <1>4 DEF Connect, Undisturbed
<1>5. ~disturbed
  <2>1. ASSUME NEW r \in Slot, NEW w \in Worker, Arrive(r, w) PROVE UNCHANGED disturbed
    BY <2>1 DEF Arrive, Open, Turn, Accept, Publish, ReadPolicy, failures
  <2>2. ASSUME NEW r \in Slot, Step(r) PROVE UNCHANGED disturbed
    BY <2>2 DEF Step, Find, FindMissing, FindNone, Decide, Check, PolicyRead, Reject, Number, Insert,
                InsertConflict, AppendToList, Acknowledge, failures
  <2>3. ASSUME (\E c \in Seed : WriteByHand(c)) \/ (\E w \in Worker : Connect(w) \/ Crash(w))
               \/ UNCHANGED vars
        PROVE  UNCHANGED disturbed
    BY <2>3 DEF WriteByHand, Connect, Crash, vars, failures
  <2> QED
    BY <1>3, <2>1, <2>2, <2>3 DEF Next
<1>6. Undisturbed
  BY <1>5 DEF Calm
<1> QED
  BY <1>2, <1>3, <1>4, <1>6, ArriveCalm, IdleCalm, CrashCalm DEF Next

LEMMA CalmAlways == ASSUME UsePostgres = TRUE PROVE Spec => []Calm
<1>1. Init => Calm
  BY InitCalm
<1>2. Held /\ Calm /\ [Next]_vars => Calm'
  BY NextCalm
<1> QED
  BY <1>1, <1>2, HeldAlways, PTL DEF Spec

-----------------------------------------------------------------------------
(* With a database that all the workers have, the turns of a conversation  *)
(* are decided alike, whatever is published and whatever crashes meanwhile *)
(* (merchant_store.load, deps.build): its version is the row it was pinned *)
(* to, in every cache and in the table.                                    *)
THEOREM TurnsDecidedAlike == ASSUME UsePostgres = TRUE PROVE Spec => []TurnsAgree
<1>1. Held /\ Calm => TurnsAgree
  <2> SUFFICES ASSUME Held, Undisturbed, NEW s \in Session, pinned[s] # 0
               PROVE  Cardinality(seen[s]) <= 1
    BY DEF Calm, TurnsAgree
  <2>1. PICK x : seen[s] \subseteq {x}
    BY DEF Undisturbed, Alike
  <2>2. Cardinality({x}) = 1 /\ IsFiniteSet({x})
    BY FS_Singleton
  <2> QED
    BY <2>1, <2>2, FS_Subset
<1> QED
  BY <1>1, HeldAlways, CalmAlways, PTL

(* Then no token is ever refused as worth more than the cap: it is checked *)
(* against the version it was issued under (guardrails.verify_offer_token).*)
THEOREM PromisesKept == ASSUME UsePostgres = TRUE PROVE Spec => []PromisesHold
<1>1. Calm => PromisesHold
  BY DEF Calm, Undisturbed, PromisesHold
<1> QED
  BY <1>1, CalmAlways, PTL
=============================================================================
