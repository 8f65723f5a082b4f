---------------------------- MODULE StartupProofs ----------------------------
(***************************************************************************)
(* What a start reports and what a serving process can rely on, for every  *)
(* environment and every set of registered providers.                      *)
(***************************************************************************)
EXTENDS Startup, WellFoundedInduction, TLAPS

(* All that the proofs need of the order of the settings and of the         *)
(* defaults.                                                                *)
LEMMA OrderFacts ==
    /\ Len(Order) = 16 /\ DOMAIN Order = 1..Len(Order)
    /\ \A i \in DOMAIN Order : Order[i] # "nil" /\ Order[i] \in DOMAIN Default
BY DEF Order, Default

(* Load reads every setting, and none of them twice.                        *)
LEMMA OrderOnce ==
    /\ \A i, j \in DOMAIN Order : Order[i] = Order[j] => i = j
    /\ \A v \in DOMAIN Default : \E i \in DOMAIN Order : Order[i] = v
BY DEF Order, Default

(* The defaults of the numeric settings are numbers.                        *)
LEMMA DefaultFacts ==
    \A v \in IntVars : v \in DOMAIN Default /\ Default[v] \in Int /\ v # "PROVIDERS"
<1>1. IntVars \subseteq DOMAIN Default /\ "PROVIDERS" \notin IntVars
  BY DEF Default, IntVars
<1>2. /\ Default["SHUTDOWN_TIMEOUT"] = 25 /\ Default["MAX_BODY_BYTES"] = 1
      /\ Default["RATE_LIMIT_BURST"] = 1 /\ Default["CR_SYNC_TIMEOUT"] = 20
  BY DEF Default
<1>3. \A v \in IntVars : Default[v] \in Int
  BY <1>2 DEF IntVars
<1> QED  BY <1>1, <1>3

(***************************************************************************)
(* The sticky error of the loader.                                         *)
(***************************************************************************)
Bad == {i \in DOMAIN Order : env[Order[i]].form = "bad"}

First(i) == i \in Bad /\ err = Order[i] /\ \A j \in Bad : i <= j

\* While it reads, the loader holds the first error among those it has met.
LoadInv ==
    /\ pos \in 1..(Len(Order) + 1)
    /\ pc = "load" =>
         \/ err = "nil" /\ \A i \in Bad : pos <= i
         \/ \E i \in Bad : First(i) /\ i < pos
    /\ pc # "load" /\ Bad # {} => pc = "exit" /\ \E i \in Bad : First(i)

(* Load goes on after an error and keeps the first one it met.             *)
LEMMA LoadStep ==
    ASSUME LoadInv, [Next]_vars
    PROVE  LoadInv'
<1> USE OrderFacts
<1>b. Bad' = Bad
  BY Zenon DEF Next, vars, Bad, ReadSetting, FinishLoad, NewTracerProvider, NewClientsFails,
     BuildProvider, NewDispatcher, NewAdminMux, Fail
<1>1. CASE ReadSetting
  <2>1. /\ pc = "load" /\ pos \in 1..Len(Order) /\ pos' = pos + 1 /\ pc' = pc
        /\ err' = IF err = "nil" /\ pos \in Bad THEN Order[pos] ELSE err
    BY <1>1 DEF ReadSetting, LoadInv, Bad
  <2>2. CASE err = "nil" /\ pos \in Bad /\ \A i \in Bad : pos <= i
    <3>1. err' = Order[pos] /\ pos < pos' /\ pos' \in 1..(Len(Order) + 1)
      BY <2>1, <2>2
    <3>2. \E i \in Bad' : i \in Bad' /\ err' = Order[i] /\ (\A j \in Bad' : i <= j) /\ i < pos'
      BY <1>b, <2>2, <3>1
    <3> QED  BY <2>1, <3>1, <3>2 DEF LoadInv, First
  <2>3. CASE err = "nil" /\ pos \notin Bad /\ \A i \in Bad : pos <= i
    <3>1. \A i \in Bad : pos + 1 <= i
      BY <2>1, <2>3 DEF Bad
    <3> QED  BY <1>b, <2>1, <2>3, <3>1 DEF LoadInv
  <2>4. ASSUME NEW i \in Bad, First(i), i < pos
        PROVE  LoadInv'
    <3>1. err' = err /\ i < pos'
      BY <2>1, <2>4 DEF First, Bad
    <3> QED  BY <1>b, <2>1, <2>4, <3>1 DEF LoadInv, First
  <2> QED  BY <2>1, <2>2, <2>3, <2>4 DEF LoadInv
<1>2. CASE FinishLoad
  <2>1. /\ pc = "load" /\ pos = Len(Order) + 1 /\ pos' = pos
        /\ pc' \in {"exit", "trace"}
        /\ err # "nil" => err' = err /\ pc' = "exit"
    <3>1. pc = "load" /\ pos > Len(Order) /\ pos' = pos
      BY <1>2 DEF FinishLoad
    <3>2. pc' = IF err' # "nil" THEN "exit" ELSE "trace"
      BY <1>2, Zenon DEF FinishLoad
    <3>3. err # "nil" => err' = err
      BY <1>2, Zenon DEF FinishLoad
    <3> QED  BY <3>1, <3>2, <3>3 DEF LoadInv
  <2>2. ASSUME NEW j \in Bad PROVE \E i \in Bad : First(i) /\ err # "nil"
    BY <2>1, <2>2 DEF LoadInv, First, Bad
  <2> QED  BY <1>b, <2>1, <2>2 DEF LoadInv, First
<1>3. CASE NewTracerProvider \/ NewClientsFails \/ BuildProvider \/ NewDispatcher \/ NewAdminMux
  <2>1. pc \notin {"load", "exit"} /\ pc' # "load" /\ pos' = pos
    BY <1>3 DEF NewTracerProvider, NewClientsFails, BuildProvider, NewDispatcher,
       NewAdminMux, Fail
  <2> QED  BY <1>b, <2>1 DEF LoadInv
<1>4. CASE UNCHANGED vars
  BY <1>b, <1>4, Zenon DEF vars, LoadInv, First
<1> QED  BY <1>1, <1>2, <1>3, <1>4, Zenon DEF Next

(* config.Load reports the first of the settings that do not parse, in      *)
(* every environment, and never serves in spite of one.                     *)
THEOREM FirstErrorCorrect == Spec => []FirstErrorReported
<1>1. Init => LoadInv
  BY OrderFacts DEF Init, LoadInv, Bad
<1>2. LoadInv /\ [Next]_vars => LoadInv'
  BY LoadStep
<1>3. LoadInv => FirstErrorReported
  BY DEF LoadInv, First, Bad, FirstErrorReported
<1> QED  BY <1>1, <1>2, <1>3, PTL DEF Spec

(***************************************************************************)
(* The list of providers, by induction over the entries.                   *)
(***************************************************************************)
(* Every non-empty set of natural numbers has a least element, on which a   *)
(* proof by induction can rest.                                             *)
LEMMA Least ==
    ASSUME NEW T \in SUBSET Nat, T # {}
    PROVE  \E x \in T : \A y \in T : x <= y
<1>1. IsWellFoundedOn(OpToRel(<, Nat), Nat)
  BY NatLessThanWellFounded, Zenon
<1>2. PICK x \in T : \A y \in T : ~(<<y, x>> \in OpToRel(<, Nat))
  BY <1>1, WFMin, Zenon
<1>3. \A y \in T : ~(y < x)
  BY <1>2, Zenon DEF OpToRel
<1> QED
  BY <1>3

\* What csv makes of the i-th entry, and the lists it goes through.
Entry(raw, out, i) ==
    IF i = 0 THEN <<>>
    ELSE LET name == Normalized[raw[i]]
         IN  IF name = "" \/ name \in Range(out[i - 1]) THEN out[i - 1]
             ELSE Append(out[i - 1], name)

Lists(raw, n, out) == out = [i \in 0..n |-> Entry(raw, out, i)]

(* An entry is added to, or dropped from, the list before it.               *)
LEMMA EntrySame ==
    ASSUME NEW raw, NEW f, NEW g, NEW i, i = 0 \/ f[i - 1] = g[i - 1]
    PROVE  Entry(raw, f, i) = Entry(raw, g, i)
  BY Zenon DEF Entry

(* The recursion of csv is well-founded: the lists it goes through exist.   *)
LEMMA ListsExist ==
    ASSUME NEW raw, NEW n \in Nat
    PROVE  \E out : Lists(raw, n, out)
<1> DEFINE T == {k \in Nat : ~ \E out : Lists(raw, k, out)}
<1>1. SUFFICES ASSUME n \in T PROVE FALSE
  BY Zenon
<1>2. T \in SUBSET Nat /\ T # {}
  BY <1>1, Zenon
<1>3. PICK k \in T : \A y \in T : k <= y
  BY <1>2, Least, Zenon
<1>4. k \in Nat /\ ~ \E out : Lists(raw, k, out)
  BY Zenon
<1>5. CASE k = 0
  <2> DEFINE f == [i \in 0..0 |-> <<>>]
  <2>1. \A i \in 0..0 : Entry(raw, f, i) = <<>>
    BY DEF Entry
  <2>2. Lists(raw, 0, f)
    BY <2>1, Zenon DEF Lists
  <2> QED
    BY <1>4, <1>5, <2>2, Zenon
<1>6. CASE k # 0
  <2>1. k - 1 \in Nat /\ k - 1 \notin T
    BY <1>3, <1>4, <1>6
  <2>2. PICK g : Lists(raw, k - 1, g)
    BY <2>1, Zenon
  <2> DEFINE f == [i \in 0..k |-> IF i = k THEN Entry(raw, g, k) ELSE g[i]]
  <2>f. f = [i \in 0..k |-> f[i]] /\ \A i \in 0..k : f[i] = IF i = k THEN Entry(raw, g, k) ELSE g[i]
    BY Zenon
  <2> HIDE DEF f
  <2>3. ASSUME NEW i \in 0..k PROVE f[i] = Entry(raw, f, i)
    <3>1. i = 0 \/ (i - 1 \in 0..k /\ i - 1 # k)
      BY <1>4
    <3>2. i = 0 \/ f[i - 1] = g[i - 1]
      <4>1. ASSUME NEW j \in 0..k, j # k PROVE f[j] = g[j]
        BY <2>f, <4>1, Zenon
      <4> QED
        BY <3>1, <4>1, Zenon
    <3>3. Entry(raw, f, i) = Entry(raw, g, i)
      BY <3>2, EntrySame, Zenon
    <3>4. CASE i = k
      BY <2>f, <3>3, <3>4, Zenon
    <3>5. CASE i # k
      <4>1. i \in 0..(k - 1)
        BY <1>4, <3>5
      <4>2. g[i] = Entry(raw, g, i)
        BY <2>2, <4>1, Zenon DEF Lists
      <4> QED
        BY <2>f, <3>3, <3>5, <4>2, Zenon
    <3> QED
      BY <3>4, <3>5, Zenon
  <2>4. Lists(raw, k, f)
    BY <2>f, <2>3 DEF Lists
  <2> QED
    BY <1>4, <2>4, Zenon
<1> QED
  BY <1>5, <1>6, Zenon

(* What csv returns is the last of these lists.                             *)
LEMMA CsvUnfold ==
    ASSUME NEW raw, Len(raw) \in Nat
    PROVE  \E out : Lists(raw, Len(raw), out) /\ csv(raw) = out[Len(raw)]
<1> DEFINE out == CHOOSE f : Lists(raw, Len(raw), f)
<1>1. Lists(raw, Len(raw), out)
  BY ListsExist, Zenon
<1>2. csv(raw) = out[Len(raw)]
  BY Zenon DEF csv, Lists, Entry
<1> QED
  BY <1>1, <1>2, Zenon

\* The list after i entries holds, once each, the names among them.
Deduped(raw, list, i) ==
    /\ list \in Seq(STRING) /\ IsInjective(list)
    /\ \A x : x \in Range(list) <=> x # "" /\ \E j \in 1..i : x = Normalized[raw[j]]

\* t has no repetitions and holds what s holds, and name.
Extended(S, s, name, t) ==
    /\ t \in Seq(S) /\ IsInjective(t)
    /\ \A x : x \in Range(t) <=> x \in Range(s) \/ x = name

(* A new name at the end of a list without repetitions.                     *)
LEMMA AppendFacts ==
    ASSUME NEW S, NEW s \in Seq(S), IsInjective(s), NEW name \in S, name \notin Range(s)
    PROVE  Extended(S, s, name, Append(s, name))
<1> DEFINE t == Append(s, name)
           n == Len(s)
<1>1. t \in Seq(S)
  OBVIOUS
<1>2. n \in Nat
  OBVIOUS
<1>3. /\ DOMAIN s = 1..n /\ DOMAIN t = 1..(n + 1) /\ t[n + 1] = name
      /\ \A i \in 1..n : t[i] = s[i]
  OBVIOUS
<1> HIDE DEF t, n
<1>4. \A i \in 1..(n + 1) : i \in 1..n \/ i = n + 1
  BY <1>2
<1>5. n + 1 \in 1..(n + 1) /\ \A i \in 1..n : i \in 1..(n + 1)
  BY <1>2
<1>6. \A i \in 1..n : s[i] # name
  BY <1>3, Zenon DEF Range
<1>7. \A a, b \in 1..n : s[a] = s[b] => a = b
  BY <1>3, Zenon DEF IsInjective
<1>8. IsInjective(t)
  <2>1. ASSUME NEW a \in 1..(n + 1), NEW b \in 1..(n + 1), t[a] = t[b]
        PROVE  a = b
    <3>1. CASE a \in 1..n /\ b \in 1..n
      BY <1>3, <1>7, <2>1, <3>1, Zenon
    <3>2. CASE a = n + 1 \/ b = n + 1
      BY <1>3, <1>4, <1>6, <2>1, <3>2, Zenon
    <3> QED
      BY <1>4, <3>1, <3>2, Zenon
  <2> QED
    BY <1>3, <2>1, Zenon DEF IsInjective
<1>9. \A x : x \in Range(t) <=> x \in Range(s) \/ x = name
  <2>1. ASSUME NEW x \in Range(t), x # name PROVE x \in Range(s)
    <3>1. PICK i \in 1..(n + 1) : x = t[i]
      BY <1>3, Zenon DEF Range
    <3>2. i \in 1..n
      BY <1>3, <1>4, <2>1, <3>1, Zenon
    <3>3. x = s[i] /\ i \in DOMAIN s
      BY <1>3, <3>1, <3>2, Zenon
    <3> QED
      BY <3>3, Zenon DEF Range
  <2>2. ASSUME NEW x \in Range(s) PROVE x \in Range(t)
    <3>1. PICK i \in 1..n : x = s[i]
      BY <1>3, Zenon DEF Range
    <3>2. x = t[i] /\ i \in DOMAIN t
      BY <1>3, <1>5, <3>1, Zenon
    <3> QED
      BY <3>2, Zenon DEF Range
  <2>3. name \in Range(t)
    <3>1. name = t[n + 1] /\ n + 1 \in DOMAIN t
      BY <1>3, <1>5, Zenon
    <3> QED
      BY <3>1, Zenon DEF Range
  <2> QED
    BY <2>1, <2>2, <2>3, Zenon
<1> QED
  BY <1>1, <1>8, <1>9, Zenon DEF t, Extended

(* One entry keeps the list free of repetitions and of the empty name.      *)
LEMMA EntryFacts ==
    ASSUME NEW raw \in Seq(DOMAIN Normalized), NEW out, NEW i \in 1..Len(raw),
           Deduped(raw, out[i - 1], i - 1)
    PROVE  Deduped(raw, Entry(raw, out, i), i)
<1>1. PICK s \in Seq(STRING) : s = out[i - 1] /\ Deduped(raw, s, i - 1)
  BY Zenon DEF Deduped
<1>2. PICK name \in STRING : name = Normalized[raw[i]]
  <2>1. raw[i] \in DOMAIN Normalized
    OBVIOUS
  <2> QED
    BY <2>1, NormalizedAssumption, Zenon DEF NormalizedAssumption
<1>3. i # 0 /\ \A j : j \in 1..i <=> j \in 1..(i - 1) \/ j = i
  OBVIOUS
<1>4. Entry(raw, out, i) = IF name = "" \/ name \in Range(s) THEN s ELSE Append(s, name)
  BY <1>1, <1>2, <1>3, Zenon DEF Entry
<1>5. \A x : x \in Range(s) <=> x # "" /\ \E j \in 1..(i - 1) : x = Normalized[raw[j]]
  BY <1>1, Zenon DEF Deduped
<1>6. CASE name = ""
  <2>1. \A x : x \in Range(s) <=> x # "" /\ \E j \in 1..i : x = Normalized[raw[j]]
    BY <1>2, <1>3, <1>5, <1>6, Zenon
  <2> QED
    BY <1>1, <1>4, <1>6, <2>1, Zenon DEF Deduped
<1>7. CASE name # "" /\ name \in Range(s)
  <2>1. \A x : x \in Range(s) <=> x # "" /\ \E j \in 1..i : x = Normalized[raw[j]]
    BY <1>2, <1>3, <1>5, <1>7, Zenon
  <2> QED
    BY <1>1, <1>4, <1>7, <2>1, Zenon DEF Deduped
<1>8. CASE name # "" /\ name \notin Range(s)
  <2>1. PICK t : t = Append(s, name) /\ Extended(STRING, s, name, t)
    <3>1. IsInjective(s)
      BY <1>1, Zenon DEF Deduped
    <3>2. Extended(STRING, s, name, Append(s, name))
      BY <1>8, <3>1, AppendFacts, Zenon
    <3> QED
      BY <3>2, Zenon
  <2>2. /\ t \in Seq(STRING) /\ IsInjective(t)
        /\ \A x : x \in Range(t) <=> x \in Range(s) \/ x = name
    BY <2>1, Zenon DEF Extended
  <2>3. \A x : x \in Range(t) <=> x # "" /\ \E j \in 1..i : x = Normalized[raw[j]]
    BY <1>2, <1>3, <1>5, <1>8, <2>2, Zenon
  <2> QED
    BY <1>4, <1>8, <2>1, <2>2, <2>3, Zenon DEF Deduped
<1> QED
  BY <1>6, <1>7, <1>8, Zenon

(* loader.csv: whatever the spelling and the repetitions, the list holds    *)
(* every name of the setting once, and nothing else.                        *)
LEMMA CsvFacts ==
    ASSUME NEW raw \in Seq(DOMAIN Normalized)
    PROVE  Deduped(raw, csv(raw), Len(raw))
<1>1. PICK n \in Nat : n = Len(raw)
  OBVIOUS
<1>2. PICK out : Lists(raw, n, out) /\ csv(raw) = out[n]
  BY <1>1, CsvUnfold, Zenon
<1>3. \A i \in 0..n : out[i] = Entry(raw, out, i)
  BY <1>2, Zenon DEF Lists
<1> DEFINE T == {i \in Nat : i <= n /\ ~Deduped(raw, out[i], i)}
<1>4. SUFFICES ASSUME n \in T PROVE FALSE
  <2>1. n <= n
    OBVIOUS
  <2> QED
    BY <1>1, <1>2, <2>1, Zenon
<1>5. T \in SUBSET Nat /\ T # {}
  BY <1>4, Zenon
<1>6. PICK k \in T : \A y \in T : k <= y
  BY <1>5, Least, Zenon
<1>7. k \in Nat /\ k <= n /\ ~Deduped(raw, out[k], k)
  BY Zenon
<1>8. CASE k = 0
  <2>1. out[0] = <<>>
    <3>1. 0 \in 0..n
      OBVIOUS
    <3> QED
      BY <1>3, <3>1, Zenon DEF Entry
  <2>2. <<>> \in Seq(STRING) /\ DOMAIN <<>> = {} /\ 1..0 = {}
    OBVIOUS
  <2>3. Deduped(raw, <<>>, 0)
    BY <2>2, Zenon DEF Deduped, IsInjective, Range
  <2> QED
    BY <1>7, <1>8, <2>1, <2>3, Zenon
<1>9. CASE k # 0
  <2>1. k - 1 \in Nat /\ k - 1 <= n /\ ~(k <= k - 1) /\ k \in 0..n /\ k \in 1..n
    BY <1>7, <1>9
  <2>2. Deduped(raw, out[k - 1], k - 1)
    BY <1>6, <2>1, Zenon
  <2>3. Deduped(raw, Entry(raw, out, k), k)
    BY <1>1, <2>1, <2>2, EntryFacts, Zenon
  <2> QED
    BY <1>3, <1>7, <2>1, <2>3, Zenon
<1> QED
  BY <1>8, <1>9, Zenon

(***************************************************************************)
(* The configuration of a serving process.                                 *)
(***************************************************************************)
(* What a configuration that validate accepts is known to be.               *)
LEMMA ValidateFacts ==
    ASSUME NEW c, validate(c) = "nil",
           c.CR_SYNC_TIMEOUT \in Int, c.SHUTDOWN_TIMEOUT \in Int,
           c.MAX_BODY_BYTES \in Int, c.RATE_LIMIT_BURST \in Int
    PROVE  /\ 0 < c.CR_SYNC_TIMEOUT /\ c.CR_SYNC_TIMEOUT < c.SHUTDOWN_TIMEOUT
           /\ c.MAX_BODY_BYTES > 0 /\ c.RATE_LIMIT_BURST > 0
           /\ c.RATE_LIMIT_RPS \notin {"negative", "zero"}
           /\ c.TRACING_SAMPLE_RATIO \notin {"negative", "above 1"}
           /\ "jsm" \in Range(c.PROVIDERS) =>
                "" \notin {c.JSM_FIELD_PROVIDER_GROUP_ID, c.JSM_FIELD_ROLE,
                           c.JSM_FIELD_PROJECT, c.JSM_IDENTITY_PROVIDER_ID}
<1>1. /\ ~Below0(c.TRACING_SAMPLE_RATIO) /\ ~Above1(c.TRACING_SAMPLE_RATIO)
      /\ ~(c.MAX_BODY_BYTES <= 0) /\ ~AtMost0(c.RATE_LIMIT_RPS)
      /\ ~(c.RATE_LIMIT_BURST <= 0) /\ ~(c.CR_SYNC_TIMEOUT <= 0)
      /\ ~SyncTooLong(c)
      /\ ProviderEnabled(c, "jsm") =>
           /\ "" \notin {c.JSM_FIELD_PROVIDER_GROUP_ID, c.JSM_FIELD_ROLE, c.JSM_FIELD_PROJECT}
           /\ c.JSM_IDENTITY_PROVIDER_ID # ""
  BY DEF validate
<1>2. /\ 0 < c.CR_SYNC_TIMEOUT /\ c.CR_SYNC_TIMEOUT < c.SHUTDOWN_TIMEOUT
      /\ c.MAX_BODY_BYTES > 0 /\ c.RATE_LIMIT_BURST > 0
  <2> DEFINE sync == c.CR_SYNC_TIMEOUT
             drain == c.SHUTDOWN_TIMEOUT
             body == c.MAX_BODY_BYTES
             burst == c.RATE_LIMIT_BURST
  <2>1. /\ {sync, drain, body, burst} \subseteq Int
        /\ ~(body <= 0) /\ ~(burst <= 0) /\ ~(sync <= 0) /\ ~(sync >= drain)
    BY <1>1, Zenon DEF SyncTooLong
  <2> HIDE DEF sync, drain, body, burst
  <2>2. 0 < sync /\ sync < drain /\ body > 0 /\ burst > 0
    BY <2>1
  <2> QED  BY <2>2, Zenon DEF sync, drain, body, burst
<1>3. /\ c.RATE_LIMIT_RPS \notin {"negative", "zero"}
      /\ c.TRACING_SAMPLE_RATIO \notin {"negative", "above 1"}
  BY <1>1 DEF Below0, Above1, AtMost0
<1>4. "jsm" \in Range(c.PROVIDERS) =>
        "" \notin {c.JSM_FIELD_PROVIDER_GROUP_ID, c.JSM_FIELD_ROLE,
                  c.JSM_FIELD_PROJECT, c.JSM_IDENTITY_PROVIDER_ID}
  BY <1>1, Zenon DEF ProviderEnabled
<1> QED  BY <1>2, <1>3, <1>4

\* What the environment makes of a setting.
Setting(v) ==
    IF env[v].form = "ok"
    THEN IF v = "PROVIDERS" THEN csv(env[v].value) ELSE env[v].value
    ELSE Default[v]

Running == {"trace", "build", "mux", "serve"}

\* Load has applied the settings before pos; what runs has all of them.
ReadInv ==
    /\ env \in Environments
    /\ cfg = [v \in DOMAIN Default |-> cfg[v]]
    /\ pc = "load" /\ err = "nil" =>
         \A i \in DOMAIN Order :
            cfg[Order[i]] = IF i < pos THEN Setting(Order[i]) ELSE Default[Order[i]]
    /\ pc \in Running =>
         /\ \A v \in DOMAIN Default : cfg[v] = Setting(v)
         /\ validate(cfg) = "nil" /\ env.SIGNING_SECRET # ""

(* The steps after Load leave the configuration alone.                      *)
LEMMA AfterLoad ==
    ASSUME NewTracerProvider \/ NewClientsFails \/ BuildProvider \/ NewDispatcher \/ NewAdminMux
    PROVE  /\ env' = env /\ cfg' = cfg /\ pc \in Running
           /\ pc' \in {"build", "mux", "serve", "exit", "panic"}
BY DEF NewTracerProvider, NewClientsFails, BuildProvider, NewDispatcher,
   NewAdminMux, Fail, Running

(* Each lookup applies its own setting and disturbs no other.               *)
LEMMA ReadStep ==
    ASSUME LoadInv, ReadInv, [Next]_vars
    PROVE  ReadInv'
<1>1. CASE ReadSetting
  <2>1. /\ pc = "load" /\ pos <= Len(Order) /\ env' = env /\ pc' = pc /\ pos' = pos + 1
        /\ pos \in DOMAIN Order /\ pos \in Nat
    BY <1>1, OrderFacts DEF ReadSetting, LoadInv
  <2>2. PICK v \in DOMAIN Default : v = Order[pos] /\ v # "nil"
    BY <2>1, OrderFacts, Zenon
  <2>3. PICK x : x = IF v = "PROVIDERS" THEN csv(env[v].value) ELSE env[v].value
    BY Zenon
  <2>4. /\ err' = IF err = "nil" /\ env[v].form = "bad" THEN v ELSE err
        /\ cfg' = IF err = "nil" /\ env[v].form = "ok" THEN [cfg EXCEPT ![v] = x] ELSE cfg
    BY <1>1, <2>2, <2>3, Zenon DEF ReadSetting
  <2>5. cfg' = [w \in DOMAIN Default |-> cfg'[w]]
    BY <2>4 DEF ReadInv
  <2>6. ASSUME err' = "nil", NEW i \in DOMAIN Order
        PROVE  cfg'[Order[i]] = IF i < pos' THEN Setting(Order[i]) ELSE Default[Order[i]]
    <3>1. err = "nil" /\ env[v].form # "bad"
      BY <2>2, <2>4, <2>6, Zenon
    <3>2. cfg[Order[i]] = IF i < pos THEN Setting(Order[i]) ELSE Default[Order[i]]
      BY <2>1, <3>1, Zenon DEF ReadInv
    <3>3. CASE i = pos
      <4>1. i < pos' /\ ~(i < pos)
        BY <2>1, <3>3
      <4>2. CASE env[v].form = "ok"
        <5>1. cfg'[v] = x
          BY <2>4, <3>1, <4>2 DEF ReadInv
        <5>2. Setting(v) = x
          BY <2>3, <4>2, Zenon DEF Setting
        <5> QED
          BY <2>2, <3>3, <4>1, <5>1, <5>2, Zenon
      <4>3. CASE env[v].form # "ok"
        <5>1. cfg' = cfg /\ Setting(v) = Default[v]
          BY <2>4, <4>3, Zenon DEF Setting
        <5> QED
          BY <2>2, <3>2, <3>3, <4>1, <5>1, Zenon
      <4> QED
        BY <4>2, <4>3, Zenon
    <3>4. CASE i # pos
      <4>1. i < pos' <=> i < pos
        BY <2>1, <3>4, OrderFacts
      <4>2. Order[i] # v /\ Order[i] \in DOMAIN Default
        BY <2>1, <2>2, <3>4, OrderOnce, OrderFacts, Zenon
      <4>3. cfg'[Order[i]] = cfg[Order[i]]
        BY <2>4, <4>2 DEF ReadInv
      <4> QED
        BY <3>2, <4>1, <4>3, Zenon
    <3> QED
      BY <3>3, <3>4, Zenon
  <2>7. \A w : Setting(w)' = Setting(w)
    BY <2>1, Zenon DEF Setting
  <2>8. pc' \notin Running
    BY <2>1 DEF Running
  <2> QED
    BY <2>1, <2>5, <2>6, <2>7, <2>8, Zenon DEF ReadInv
<1>2. CASE FinishLoad
  <2>1. pc = "load" /\ ~(pos <= Len(Order)) /\ env' = env /\ cfg' = cfg /\ pc' # "load"
    <3>1. pc = "load" /\ pos > Len(Order) /\ env' = env /\ cfg' = cfg
      BY <1>2, Zenon DEF FinishLoad
    <3>2. pc' = IF err' # "nil" THEN "exit" ELSE "trace"
      BY <1>2, Zenon DEF FinishLoad
    <3>3. ~(pos <= Len(Order))
      BY <3>1, OrderFacts DEF LoadInv
    <3> QED
      BY <3>1, <3>2, <3>3
  <2>2. ASSUME pc' \in Running
        PROVE  /\ \A v \in DOMAIN Default : cfg[v] = Setting(v)
               /\ validate(cfg) = "nil" /\ env.SIGNING_SECRET # ""
    <3>1. err' = "nil"
      BY <1>2, <2>2 DEF FinishLoad, Running
    <3>2. err = "nil" /\ validate(cfg) = "nil" /\ env.SIGNING_SECRET # ""
      BY <1>2, <3>1 DEF FinishLoad
    <3>3. \A i \in DOMAIN Order : i < pos
      BY <2>1, OrderFacts DEF LoadInv
    <3>4. \A i \in DOMAIN Order : cfg[Order[i]] = Setting(Order[i])
      BY <2>1, <3>2, <3>3, Zenon DEF ReadInv
    <3>5. \A v \in DOMAIN Default : cfg[v] = Setting(v)
      BY <3>4, OrderOnce, Zenon
    <3> QED
      BY <3>2, <3>5, Zenon
  <2>3. \A w : Setting(w)' = Setting(w)
    BY <2>1, Zenon DEF Setting
  <2> QED
    BY <2>1, <2>2, <2>3, Zenon DEF ReadInv
<1>3. CASE NewTracerProvider \/ NewClientsFails \/ BuildProvider \/ NewDispatcher \/ NewAdminMux
  <2>1. /\ env' = env /\ cfg' = cfg /\ pc \in Running /\ pc' # "load"
    BY <1>3, AfterLoad
  <2>2. \A w : Setting(w)' = Setting(w)
    BY <2>1, Zenon DEF Setting
  <2> QED
    BY <2>1, <2>2, Zenon DEF ReadInv
<1>4. CASE UNCHANGED vars
  <2>1. env' = env /\ cfg' = cfg /\ pc' = pc /\ pos' = pos /\ err' = err
    BY <1>4, Zenon DEF vars
  <2>2. \A w : Setting(w)' = Setting(w)
    BY <2>1, Zenon DEF Setting
  <2> QED
    BY <2>1, <2>2, Zenon DEF ReadInv
<1> QED
  BY <1>1, <1>2, <1>3, <1>4, Zenon DEF Next

\* The names that the environment asks for.
Named == {Normalized[x] : x \in Range(Given("PROVIDERS"))} \ {""}

OneElement(S, e, s) == s \in Seq(S) /\ DOMAIN s = {1} /\ s[1] = e

(* A list of one element.                                                   *)
LEMMA Single ==
    ASSUME NEW S, NEW e \in S
    PROVE  OneElement(S, e, <<e>>)
  BY DEF OneElement

(* The list of providers is the set of names of the environment, without    *)
(* repetitions, whether it was given or left to its default.                *)
LEMMA ListFacts ==
    ASSUME env \in Environments
    PROVE  /\ Setting("PROVIDERS") \in Seq(STRING) /\ IsInjective(Setting("PROVIDERS"))
           /\ \A x : x \in Range(Setting("PROVIDERS")) <=> x \in Named
<1>1. CASE env["PROVIDERS"].form = "ok"
  <2>1. PICK raw \in Seq(DOMAIN Normalized) : raw = env["PROVIDERS"].value
    BY EnvironmentsAssumption, Zenon DEF EnvironmentsAssumption
  <2>2. Setting("PROVIDERS") = csv(raw) /\ Given("PROVIDERS") = raw
    BY <1>1, <2>1, Zenon DEF Setting, Given
  <2>3. PICK list : list = csv(raw) /\ Deduped(raw, list, Len(raw))
    BY CsvFacts, Zenon
  <2>4. DOMAIN raw = 1..Len(raw)
    OBVIOUS
  <2>5. \A x : x \in Named <=> x # "" /\ \E j \in 1..Len(raw) : x = Normalized[raw[j]]
    BY <2>2, <2>4, Zenon DEF Named, Range
  <2> QED
    BY <2>2, <2>3, <2>5, Zenon DEF Deduped
<1>2. CASE env["PROVIDERS"].form # "ok"
  <2>1. Setting("PROVIDERS") = Default["PROVIDERS"] /\ Given("PROVIDERS") = Default["PROVIDERS"]
    BY <1>2, Zenon DEF Setting, Given
  <2> DEFINE list == <<"jsm">>
  <2>2. list = Default["PROVIDERS"]
    BY DEF Default
  <2>3. OneElement(STRING, "jsm", list)
    <3>1. "jsm" \in STRING
      BY NormalizedAssumption, Zenon DEF NormalizedAssumption
    <3> QED
      BY <3>1, Single, Zenon
  <2> HIDE DEF list
  <2>4. IsInjective(list)
    BY <2>3, Zenon DEF OneElement, IsInjective
  <2>5. \A x : x \in Range(list) <=> x = "jsm"
    BY <2>3, Zenon DEF OneElement, Range
  <2>6. "jsm" # "" /\ Normalized["jsm"] = "jsm"
    BY NormalizedAssumption DEF NormalizedAssumption
  <2>7. \A x : x \in Named <=> x = "jsm"
    BY <2>1, <2>2, <2>5, <2>6, Zenon DEF Named
  <2> QED
    BY <2>1, <2>2, <2>3, <2>4, <2>5, <2>7, Zenon DEF OneElement
<1> QED
  BY <1>1, <1>2, Zenon

\* s is the beginning of the list, as far as s goes.
Starts(S, list, s) == s \in Seq(S) /\ \A i \in 1..Len(s) : s[i] = list[i]

\* What run() has built is what the configuration lists.
BuildInv ==
    /\ Starts(Registered, cfg.PROVIDERS, providers)
    /\ pc \in {"load", "trace"} => providers = <<>>
    /\ pc \in {"load", "trace", "build"} => routes = {}
    /\ routes \subseteq Registered
    /\ pc \in {"mux", "serve"} => routes = Range(cfg.PROVIDERS)
    /\ pc # "panic"
    /\ pc \in {"build", "mux", "serve"} => sampler = tracerSampler(cfg)
    /\ pc = "serve" => ("/debug/pprof/" \in adminRoutes <=> cfg.PPROF_ENABLED)

(* Two lists of one length that agree at every place are the same.          *)
LEMMA SameList ==
    ASSUME NEW S, NEW T, NEW s, NEW t \in Seq(T), Len(s) = Len(t), Starts(S, t, s)
    PROVE  s = t
  BY DEF Starts

(* The next element of a longer list, appended.                             *)
LEMMA AppendNext ==
    ASSUME NEW S, NEW s, NEW list, Starts(S, list, s), list[Len(s) + 1] \in S
    PROVE  Starts(S, list, Append(s, list[Len(s) + 1]))
<1> USE DEF Starts
<1> DEFINE t == Append(s, list[Len(s) + 1])
<1>1. t \in Seq(S) /\ Len(t) = Len(s) + 1
  OBVIOUS
<1>2. ASSUME NEW i \in 1..Len(t) PROVE t[i] = list[i]
  <2>1. CASE i = Len(s) + 1
    BY <2>1
  <2>2. CASE i \in 1..Len(s)
    BY <2>2
  <2> QED
    BY <1>1, <2>1, <2>2
<1> QED
  BY <1>1, <1>2, Zenon

(* Registry.Build constructs the allow-list in its order, and NewDispatcher *)
(* then has no duplicate to panic over.                                     *)
LEMMA BuildStep ==
    ASSUME ReadInv, BuildInv, [Next]_vars
    PROVE  BuildInv'
<1>1. CASE ReadSetting \/ FinishLoad
  <2>1. /\ pc = "load" /\ pc' \in {"load", "trace", "exit"}
        /\ providers' = providers /\ routes' = routes
    <3>1. CASE ReadSetting
      BY <3>1 DEF ReadSetting
    <3>2. CASE FinishLoad
      <4>1. pc' = IF err' # "nil" THEN "exit" ELSE "trace"
        BY <3>2, Zenon DEF FinishLoad
      <4>2. pc = "load" /\ providers' = providers /\ routes' = routes
        BY <3>2, Zenon DEF FinishLoad
      <4> QED
        BY <4>1, <4>2
    <3> QED
      BY <1>1, <3>1, <3>2, Zenon
  <2>2. providers = <<>> /\ routes = {}
    BY <2>1 DEF BuildInv
  <2>3. \A list : Starts(Registered, list, <<>>)
    BY DEF Starts
  <2> QED
    BY <2>1, <2>2, <2>3 DEF BuildInv
<1>2. ASSUME NEW e, Fail(e) PROVE BuildInv'
  <2>1. pc' = "exit" /\ cfg' = cfg /\ providers' = providers /\ routes' = routes
    BY <1>2, Zenon DEF Fail
  <2> QED
    BY <2>1 DEF BuildInv
<1>3. CASE NewTracerProvider
  <2>1. CASE \E e : Fail(e)
    BY <1>2, <2>1, Zenon
  <2>2. CASE /\ sampler' = tracerSampler(cfg)
             /\ pc' = IF cfg.PROVIDERS = <<>> THEN "mux" ELSE "build"
             /\ UNCHANGED <<env, pos, cfg, err, providers, routes, adminRoutes>>
    <3>1. /\ pc' \in {"mux", "build"} /\ pc' = "mux" => cfg.PROVIDERS = <<>>
          /\ cfg' = cfg /\ providers' = providers /\ routes' = routes
      BY <2>2
    <3>2. providers = <<>> /\ routes = {}
      BY <1>3 DEF NewTracerProvider, BuildInv
    <3>3. pc' = "mux" => routes = Range(cfg.PROVIDERS)
      <4>1. Range(<<>>) = {}
        BY DEF Range
      <4> QED
        BY <3>1, <3>2, <4>1, Zenon
    <3>4. tracerSampler(cfg)' = tracerSampler(cfg)
      BY <3>1, Zenon DEF tracerSampler
    <3> QED
      BY <2>2, <3>1, <3>2, <3>3, <3>4 DEF BuildInv
  <2> QED
    BY <1>3, <2>1, <2>2, Zenon DEF NewTracerProvider
<1>4. CASE NewClientsFails
  BY <1>2, <1>4, Zenon DEF NewClientsFails
<1>5. CASE BuildProvider
  <2> DEFINE list == cfg.PROVIDERS
             name == list[Len(providers) + 1]
  <2>1. CASE Fail("not registered")
    BY <1>2, <2>1, Zenon
  <2>2. CASE /\ name \in Registered /\ providers' = Append(providers, name)
             /\ UNCHANGED <<env, pc, pos, cfg, err, sampler, routes, adminRoutes>>
    <3>1. /\ pc = "build" /\ pc' = pc /\ cfg' = cfg /\ sampler' = sampler
          /\ routes' = routes /\ adminRoutes' = adminRoutes
      BY <1>5, <2>2, Zenon DEF BuildProvider
    <3>2. Starts(Registered, list, providers)
      BY Zenon DEF BuildInv
    <3>3. Starts(Registered, list, Append(providers, name))
      BY <2>2, <3>2, AppendNext, Zenon
    <3>4. Starts(Registered, cfg'.PROVIDERS, providers')
      BY <2>2, <3>1, <3>3, Zenon
    <3> QED
      BY <3>1, <3>4 DEF BuildInv
  <2> QED
    BY <1>5, <2>1, <2>2, Zenon DEF BuildProvider
<1>6. CASE NewDispatcher
  <2>1. /\ pc = "build" /\ Len(providers) = Len(cfg.PROVIDERS)
        /\ pc' = IF IsInjective(providers) THEN "mux" ELSE "panic"
        /\ routes' = Range(providers)
        /\ cfg' = cfg /\ sampler' = sampler /\ providers' = providers
    BY <1>6, Zenon DEF NewDispatcher
  <2>2. cfg.PROVIDERS \in Seq(STRING) /\ IsInjective(cfg.PROVIDERS)
    <3>1. env \in Environments /\ pc \in Running
      BY <2>1 DEF ReadInv, Running
    <3>2. "PROVIDERS" \in DOMAIN Default
      BY DEF Default
    <3>3. cfg["PROVIDERS"] = Setting("PROVIDERS")
      BY <3>1, <3>2, Zenon DEF ReadInv
    <3> QED
      BY <3>1, <3>3, ListFacts, Zenon
  <2>3. providers = cfg.PROVIDERS
    BY <2>1, <2>2, SameList, Zenon DEF BuildInv
  <2>4. pc' = "mux" /\ routes' = Range(cfg.PROVIDERS)
    BY <2>1, <2>2, <2>3, Zenon
  <2>5. Range(providers) \subseteq Registered
    <3>1. DOMAIN providers = 1..Len(providers) /\ \A i \in 1..Len(providers) : providers[i] \in Registered
      BY DEF BuildInv, Starts
    <3> QED
      BY <3>1, Zenon DEF Range
  <2>6. sampler = tracerSampler(cfg) /\ tracerSampler(cfg)' = tracerSampler(cfg)
    <3>1. sampler = tracerSampler(cfg)
      BY <2>1 DEF BuildInv
    <3> QED
      BY <2>1, <3>1, Zenon DEF tracerSampler
  <2> QED
    BY <2>1, <2>4, <2>5, <2>6 DEF BuildInv
<1>7. CASE NewAdminMux
  <2>1. /\ pc = "mux" /\ pc' = "serve" /\ cfg' = cfg /\ sampler' = sampler
        /\ providers' = providers /\ routes' = routes
    BY <1>7, Zenon DEF NewAdminMux
  <2>2. "/debug/pprof/" \in adminRoutes' <=> cfg.PPROF_ENABLED
    <3>1. adminRoutes' = Probes \cup (IF cfg.PPROF_ENABLED THEN {"/debug/pprof/"} ELSE {})
      BY <1>7, Zenon DEF NewAdminMux
    <3> QED
      BY <3>1 DEF Probes
  <2>3. tracerSampler(cfg)' = tracerSampler(cfg)
    BY <2>1, Zenon DEF tracerSampler
  <2> QED
    BY <2>1, <2>2, <2>3 DEF BuildInv
<1>8. CASE UNCHANGED vars
  BY <1>8, Zenon DEF vars, BuildInv, tracerSampler, Starts
<1> QED
  BY <1>1, <1>3, <1>4, <1>5, <1>6, <1>7, <1>8, Zenon DEF Next

StartInv == LoadInv /\ ReadInv /\ BuildInv

(* Nothing has been read or served when the process starts.                 *)
LEMMA StartInit == ASSUME Init PROVE StartInv
<1>1. LoadInv
  BY OrderFacts DEF Init, LoadInv, Bad
<1>2. ReadInv
  <2>1. env \in Environments /\ pc = "load" /\ pos = 1 /\ cfg = Default
    BY Zenon DEF Init
  <2>2. Default = [v \in DOMAIN Default |-> Default[v]]
    BY DEF Default
  <2>3. \A i \in DOMAIN Order : ~(i < 1)
    BY OrderFacts
  <2>4. pc \notin Running
    BY <2>1 DEF Running
  <2> QED
    BY <2>1, <2>2, <2>3, <2>4, Zenon DEF ReadInv
<1>3. BuildInv
  <2>1. \A list : Starts(Registered, list, <<>>)
    BY DEF Starts
  <2> QED
    BY <2>1 DEF Init, BuildInv
<1> QED
  BY <1>1, <1>2, <1>3, Zenon DEF StartInv

(* Every step of startup keeps the three invariants together.               *)
LEMMA StartStep == ASSUME StartInv, [Next]_vars PROVE StartInv'
  BY LoadStep, ReadStep, BuildStep, Zenon DEF StartInv

(* The start keeps the loader's error, the settings applied so far and what *)
(* has been built from them in step, in every environment.                  *)
THEOREM StartCorrect == Spec => []StartInv
<1>1. Init => StartInv
  BY StartInit
<1>2. StartInv /\ [Next]_vars => StartInv'
  BY StartStep
<1> QED  BY <1>1, <1>2, PTL DEF Spec

(* Where the whole numbers of the configuration come from.                  *)
LEMMA IntSettings ==
    ASSUME env \in Environments, NEW v \in IntVars
    PROVE  Setting(v) \in Int /\ v \in DOMAIN Default
  BY DefaultFacts, EnvironmentsAssumption, Zenon DEF Setting, EnvironmentsAssumption

(* A process serves only with a configuration that validate accepts, and    *)
(* jsm only with its fields, in every environment.                          *)
THEOREM ValidCorrect == Spec => []ServesOnlyValid
<1>1. StartInv => ServesOnlyValid
  <2> SUFFICES ASSUME StartInv, pc = "serve" PROVE ServesOnlyValid
    BY Zenon DEF ServesOnlyValid
  <2>1. pc \in Running /\ ReadInv
    BY DEF Running, StartInv
  <2>2. env \in Environments /\ \A v \in DOMAIN Default : cfg[v] = Setting(v)
    BY <2>1, Zenon DEF ReadInv
  <2>3. \A v \in IntVars : cfg[v] \in Int
    BY <2>2, IntSettings, Zenon
  <2>4. /\ cfg.CR_SYNC_TIMEOUT \in Int /\ cfg.SHUTDOWN_TIMEOUT \in Int
        /\ cfg.MAX_BODY_BYTES \in Int /\ cfg.RATE_LIMIT_BURST \in Int
    BY <2>3 DEF IntVars
  <2>5. validate(cfg) = "nil" /\ env.SIGNING_SECRET # ""
    BY <2>1, Zenon DEF ReadInv
  <2>6. routes = Range(cfg.PROVIDERS)
    BY DEF StartInv, BuildInv
  <2> QED
    BY <2>4, <2>5, <2>6, ValidateFacts DEF ServesOnlyValid
<1> QED  BY <1>1, StartCorrect, PTL

(* The ratios that validate accepts.                                        *)
LEMMA AcceptedRatio ==
    ASSUME NEW c, validate(c) = "nil"
    PROVE  c.TRACING_SAMPLE_RATIO \notin {"negative", "above 1"}
<1>1. ~Below0(c.TRACING_SAMPLE_RATIO) /\ ~Above1(c.TRACING_SAMPLE_RATIO)
  BY DEF validate
<1> QED
  BY <1>1 DEF Below0, Above1

Accepted(c) ==
    /\ c.TRACING_ENABLED \in BOOLEAN
    /\ c.TRACING_SAMPLE_RATIO \notin {"negative", "above 1"}

Sampled(c, s) ==
    /\ s = "off" <=> ~c.TRACING_ENABLED
    /\ s = "never" <=> c.TRACING_ENABLED /\ c.TRACING_SAMPLE_RATIO = "zero"
    /\ s = "always" <=> c.TRACING_ENABLED /\ c.TRACING_SAMPLE_RATIO = "one"

(* What the sampler does with a ratio that validate accepts.                *)
LEMMA SamplerFacts ==
    ASSUME NEW c, Accepted(c)
    PROVE  Sampled(c, tracerSampler(c))
  BY DEF Accepted, Sampled, tracerSampler, samplerFor, AtLeast1, AtMost0

(* An empty list holds nothing, and only an empty one.                      *)
LEMMA EmptyList ==
    ASSUME NEW S, NEW s \in Seq(S)
    PROVE  s = <<>> <=> \A x : x \notin Range(s)
<1>1. CASE s = <<>>
  BY <1>1 DEF Range
<1>2. CASE s # <<>>
  <2>1. 1 \in DOMAIN s
    BY <1>2
  <2> QED
    BY <1>2, <2>1, Zenon DEF Range
<1> QED
  BY <1>1, <1>2, Zenon

(* A serving process dispatches, samples and profiles as its environment    *)
(* says, and no start panics, whatever the environment and the providers.   *)
THEOREM ConfiguredCorrect == Spec => []ServesAsConfigured
<1>1. StartInv => ServesAsConfigured
  <2> SUFFICES ASSUME StartInv PROVE ServesAsConfigured
    OBVIOUS
  <2>1. ReadInv /\ BuildInv /\ pc # "panic"
    BY Zenon DEF StartInv, BuildInv
  <2>2. ASSUME pc = "serve"
        PROVE  /\ \A name \in Registered :
                    Respond(name) = IF Named = {} THEN "503 disabled"
                                    ELSE IF name \in Named THEN "dispatched" ELSE "404"
               /\ sampler = "off" <=> ~Given("TRACING_ENABLED")
               /\ sampler = "never" <=>
                    Given("TRACING_ENABLED") /\ Given("TRACING_SAMPLE_RATIO") = "zero"
               /\ sampler = "always" <=>
                    Given("TRACING_ENABLED") /\ Given("TRACING_SAMPLE_RATIO") = "one"
               /\ "/debug/pprof/" \in adminRoutes <=> Given("PPROF_ENABLED")
    <3>1. env \in Environments /\ \A v \in DOMAIN Default : cfg[v] = Setting(v)
      <4>1. pc \in Running
        BY <2>2 DEF Running
      <4> QED
        BY <2>1, <4>1, Zenon DEF ReadInv
    <3>2. {"PROVIDERS", "TRACING_ENABLED", "TRACING_SAMPLE_RATIO", "PPROF_ENABLED"}
            \subseteq DOMAIN Default
      BY DEF Default
    <3>3. \A v \in DOMAIN Default : v # "PROVIDERS" => cfg[v] = Given(v)
      BY <3>1, Zenon DEF Setting, Given
    <3>4. /\ cfg.TRACING_ENABLED = Given("TRACING_ENABLED")
          /\ cfg.TRACING_SAMPLE_RATIO = Given("TRACING_SAMPLE_RATIO")
          /\ cfg.PPROF_ENABLED = Given("PPROF_ENABLED")
      BY <3>2, <3>3
    <3>5. cfg.TRACING_ENABLED \in BOOLEAN
      <4>1. Default["TRACING_ENABLED"] \in BOOLEAN
        BY DEF Default
      <4>2. env["TRACING_ENABLED"].value \in BOOLEAN
        BY <3>1, EnvironmentsAssumption, Zenon DEF EnvironmentsAssumption
      <4> QED
        BY <3>4, <4>1, <4>2, Zenon DEF Given
    <3>6. cfg.TRACING_SAMPLE_RATIO \notin {"negative", "above 1"}
      <4>1. validate(cfg) = "nil"
        BY <2>1, <2>2 DEF ReadInv, Running
      <4> QED
        BY <4>1, AcceptedRatio, Zenon
    <3>7. sampler = tracerSampler(cfg)
      BY <2>1, <2>2 DEF BuildInv
    <3>8. /\ sampler = "off" <=> ~Given("TRACING_ENABLED")
          /\ sampler = "never" <=>
               Given("TRACING_ENABLED") /\ Given("TRACING_SAMPLE_RATIO") = "zero"
          /\ sampler = "always" <=>
               Given("TRACING_ENABLED") /\ Given("TRACING_SAMPLE_RATIO") = "one"
      <4>1. Accepted(cfg)
        BY <3>5, <3>6 DEF Accepted
      <4>2. Sampled(cfg, sampler)
        BY <3>7, <4>1, SamplerFacts, Zenon
      <4> QED
        BY <3>4, <4>2, Zenon DEF Sampled
    <3>9. "/debug/pprof/" \in adminRoutes <=> Given("PPROF_ENABLED")
      BY <2>1, <2>2, <3>4 DEF BuildInv
    <3>10. ASSUME NEW name \in Registered
           PROVE  Respond(name) = IF Named = {} THEN "503 disabled"
                                  ELSE IF name \in Named THEN "dispatched" ELSE "404"
      <4>1. PICK list \in Seq(STRING) : list = cfg.PROVIDERS /\ \A x : x \in Range(list) <=> x \in Named
        <5>1. cfg["PROVIDERS"] = Setting("PROVIDERS")
          BY <3>1, <3>2
        <5> QED
          BY <3>1, <5>1, ListFacts, Zenon
      <4>2. list = <<>> <=> Named = {}
        BY <4>1, EmptyList
      <4>3. routes = Range(list)
        BY <2>1, <2>2, <4>1 DEF BuildInv
      <4> QED
        BY <4>1, <4>2, <4>3, Zenon DEF Respond
    <3> QED
      BY <3>8, <3>9, <3>10, Zenon
  <2> QED
    BY <2>1, <2>2, Zenon DEF ServesAsConfigured, Named
<1> QED  BY <1>1, StartCorrect, PTL

(***************************************************************************)
(* Types.                                                                  *)
(***************************************************************************)
Samplers == {"none", "off", "never", "ratio", "always"}
AdminPaths == Probes \cup {"/debug/pprof/"}

TypeInv ==
    /\ pc \in {"load", "trace", "build", "mux", "serve", "exit", "panic"}
    /\ err \in Errors
    /\ sampler \in Samplers
    /\ adminRoutes \subseteq AdminPaths

(* The errors that the actions name.                                        *)
LEMMA ErrorFacts ==
    /\ "nil" \in Errors /\ "ErrSigningSecretRequired" \in Errors
    /\ "TRACING_SAMPLE_RATIO" \in Errors /\ "LOG_FORMAT" \in Errors
    /\ "MAX_BODY_BYTES" \in Errors /\ "RATE_LIMIT_RPS" \in Errors
    /\ "RATE_LIMIT_BURST" \in Errors /\ "CR_SYNC_TIMEOUT" \in Errors
    /\ "ErrSyncTimeoutTooLong" \in Errors /\ "ErrJSMFieldsRequired" \in Errors
    /\ "ErrIdentityProviderIDRequired" \in Errors /\ "build resource" \in Errors
    /\ "otlp http exporter" \in Errors /\ "CR_API_GROUP" \in Errors
    /\ "k8s config" \in Errors /\ "k8s client" \in Errors /\ "k8s clientset" \in Errors
    /\ "not registered" \in Errors
BY DEF Errors, Default

(* Every step of startup keeps the types.                                   *)
LEMMA TypeStep ==
    ASSUME LoadInv, TypeInv, [Next]_vars
    PROVE  TypeInv'
<1>1. CASE ReadSetting
  <2>1. /\ pc' = pc /\ sampler' = sampler /\ adminRoutes' = adminRoutes
        /\ err' \in {err, Order[pos]} /\ pos \in DOMAIN Order
    BY <1>1, OrderFacts DEF ReadSetting, LoadInv
  <2>2. Order[pos] \in Errors
    BY <2>1, OrderFacts, Zenon DEF Errors
  <2> QED
    BY <2>1, <2>2 DEF TypeInv
<1>2. CASE FinishLoad
  <2>1. /\ pc' = (IF err' # "nil" THEN "exit" ELSE "trace")
        /\ sampler' = sampler /\ adminRoutes' = adminRoutes
    BY <1>2, Zenon DEF FinishLoad
  <2>2. validate(cfg) \in Errors
    BY ErrorFacts DEF validate
  <2>3. err' \in {err, "ErrSigningSecretRequired", validate(cfg)}
    BY <1>2 DEF FinishLoad
  <2>4. err' \in Errors
    BY <2>2, <2>3, ErrorFacts, Zenon DEF TypeInv
  <2> QED
    BY <2>1, <2>4 DEF TypeInv
<1>3. ASSUME NEW e \in Errors, Fail(e) PROVE TypeInv'
  BY <1>3 DEF Fail, TypeInv
<1>4. CASE NewTracerProvider
  <2>1. CASE Fail("build resource") \/ Fail("otlp http exporter")
    BY <1>3, <2>1, ErrorFacts, Zenon
  <2>2. CASE /\ sampler' = tracerSampler(cfg)
             /\ pc' = IF cfg.PROVIDERS = <<>> THEN "mux" ELSE "build"
             /\ UNCHANGED <<env, pos, cfg, err, providers, routes, adminRoutes>>
    <3>1. tracerSampler(cfg) \in Samplers
      BY DEF tracerSampler, samplerFor, Samplers
    <3> QED
      BY <2>2, <3>1 DEF TypeInv
  <2> QED
    BY <1>4, <2>1, <2>2, Zenon DEF NewTracerProvider
<1>5. CASE NewClientsFails
  BY <1>3, <1>5, ErrorFacts, Zenon DEF NewClientsFails
<1>6. CASE BuildProvider
  <2>1. CASE Fail("not registered")
    BY <1>3, <2>1, ErrorFacts, Zenon
  <2>2. CASE UNCHANGED <<env, pc, pos, cfg, err, sampler, routes, adminRoutes>>
    BY <2>2 DEF TypeInv
  <2> QED
    BY <1>6, <2>1, <2>2, Zenon DEF BuildProvider
<1>7. CASE NewDispatcher
  BY <1>7 DEF NewDispatcher, TypeInv
<1>8. CASE NewAdminMux
  <2>1. /\ pc' = "serve" /\ err' = err /\ sampler' = sampler
        /\ adminRoutes' = Probes \cup (IF cfg.PPROF_ENABLED THEN {"/debug/pprof/"} ELSE {})
    BY <1>8, Zenon DEF NewAdminMux
  <2>2. adminRoutes' \subseteq AdminPaths
    BY <2>1, Zenon DEF AdminPaths
  <2> QED
    BY <2>1, <2>2 DEF TypeInv
<1>9. CASE UNCHANGED vars
  BY <1>9, Zenon DEF vars, TypeInv
<1> QED
  BY <1>1, <1>2, <1>4, <1>5, <1>6, <1>7, <1>8, <1>9, Zenon DEF Next

(* The start keeps its types; only registered providers are built and       *)
(* routed to, whatever WEBHOOK_PROVIDERS names.                             *)
THEOREM TypeCorrect == Spec => []TypeOK
<1>1. Init => TypeInv
  BY ErrorFacts DEF Init, TypeInv, Samplers
<1>2. StartInv /\ TypeInv /\ [Next]_vars => TypeInv'
  BY TypeStep DEF StartInv
<1>3. StartInv /\ TypeInv => TypeOK
  <2> SUFFICES ASSUME StartInv, TypeInv PROVE TypeOK
    OBVIOUS
  <2>1. DOMAIN env = DOMAIN Default \cup {"SIGNING_SECRET"}
    BY EnvironmentsAssumption, Zenon DEF EnvironmentsAssumption, StartInv, ReadInv
  <2>2. DOMAIN cfg = DOMAIN Default
    BY DEF StartInv, ReadInv
  <2>3. pos \in 1..(Len(Order) + 1)
    BY Zenon DEF StartInv, LoadInv
  <2>4. providers \in Seq(Registered) /\ routes \subseteq Registered
    BY Zenon DEF StartInv, BuildInv, Starts
  <2> QED
    BY <2>1, <2>2, <2>3, <2>4, Zenon DEF TypeInv, TypeOK, Samplers, AdminPaths
<1> QED  BY <1>1, <1>2, <1>3, StartCorrect, PTL DEF Spec

=============================================================================
