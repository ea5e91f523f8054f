-------------------------- MODULE SchedulerProofs --------------------------
(***************************************************************************)
(* Theorems about the scheduler for every set of jobs and of polling       *)
(* loops, every batch size and every outcome of the runs.                  *)
(***************************************************************************)
EXTENDS Scheduler, SequenceFiltersProofs

-----------------------------------------------------------------------------
(* What the operations do to the times that have passed *)

Times(s) == s \in Seq(Entries) /\ IsInjective(s)

\* The times of jobs that exist, according to the rows R.
LEMMA TimesOfJobs ==
    ASSUME NEW s, NEW R
    PROVE  s \in Seq({e \in Entries : R[e.job] \in Kind}) /\ IsInjective(s)
              <=> Times(s) /\ \A e : Contains(s, e) => R[e.job] \in Kind
<1>1. ASSUME s \in Seq({e \in Entries : R[e.job] \in Kind})
      PROVE  s \in Seq(Entries) /\ \A e : Contains(s, e) => R[e.job] \in Kind
  <2> DEFINE E == {e \in Entries : R[e.job] \in Kind}
  <2>1. s \in Seq(E) /\ E \subseteq Entries /\ \A e \in E : R[e.job] \in Kind
    BY <1>1
  <2> HIDE DEF E
  <2>2. s \in Seq(Entries)
    BY <2>1, SeqMonotonic
  <2>3. \A i \in 1..Len(s) : R[s[i].job] \in Kind
    BY <2>1
  <2> QED
    BY <2>2, <2>3 DEF Contains
<1>2. ASSUME s \in Seq(Entries), \A e : Contains(s, e) => R[e.job] \in Kind
      PROVE  s \in Seq({e \in Entries : R[e.job] \in Kind})
  <2>1. \A i \in 1..Len(s) : s[i] \in Entries /\ Contains(s, s[i])
    BY <1>2 DEF Contains
  <2>2. \A i \in 1..Len(s) : s[i] \in {e \in Entries : R[e.job] \in Kind}
    BY <1>2, <2>1
  <2> HIDE DEF Entries
  <2> QED
    BY <1>2, <2>2
<1> QED
  BY <1>1, <1>2 DEF Times

\* Every time is one of a job.
LEMMA TimesAreEntries ==
    ASSUME NEW s, s \in Seq(Entries)
    PROVE  \A e : Contains(s, e) => e \in Entries
  BY DEF Contains

\* Dropping a set of times leaves the others.
LEMMA DropTimes ==
    ASSUME NEW s, Times(s), NEW E
    PROVE  Times(Drop(s, E)) /\ \A e : Contains(Drop(s, E), e) <=> Contains(s, e) /\ e \notin E
<1>1. s \in Seq(Entries) /\ \A i, k \in 1..Len(s) : s[i] = s[k] => i = k
  BY DEF Times, IsInjective
<1> DEFINE K == Entries \ E
<1>2. /\ Filter(s, K) \in Seq(Entries)
      /\ \A x : (\E i \in 1..Len(Filter(s, K)) : Filter(s, K)[i] = x)
                   <=> x \in K /\ \E i \in 1..Len(s) : s[i] = x
      /\ \A i, k \in 1..Len(Filter(s, K)) : Filter(s, K)[i] = Filter(s, K)[k] => i = k
  <2> HIDE DEF K
  <2> DEFINE q == Filter(s, K)
  <2>1. q \in Seq(Entries) /\ Filtered(q, s, Len(s), K)
    BY <1>1, FilterElements
  <2>2. q \in Seq(Entries) /\ Len(s) \in Nat
    BY <1>1, <2>1
  <2> HIDE DEF q
  <2>3. \A i, k \in 1..Len(q) : q[i] = q[k] => i = k
    BY <1>1, <2>1 DEF Filtered
  <2>4. \A x : (\E i \in 1..Len(q) : q[i] = x) <=> x \in K /\ \E i \in 1..Len(s) : s[i] = x
    BY <2>1 DEF Filtered
  <2> QED
    BY <2>2, <2>3, <2>4 DEF q
<1>3. Drop(s, E) = Filter(s, K)
  BY DEF Drop
<1>4. \A e : Contains(s, e) => e \in Entries
  BY <1>1 DEF Contains
<1>5. Times(Drop(s, E))
  <2> DEFINE q == Filter(s, K)
  <2>1. q \in Seq(Entries) /\ \A i, k \in 1..Len(q) : q[i] = q[k] => i = k
    BY <1>2
  <2> HIDE DEF q, Entries
  <2>2. DOMAIN q = 1..Len(q)
    BY <2>1
  <2>3. Times(q)
    BY <2>1, <2>2 DEF Times, IsInjective
  <2> QED
    BY <1>3, <2>3 DEF q
<1>6. \A e : Contains(Drop(s, E), e) <=> Contains(s, e) /\ e \in K
  BY <1>2, <1>3 DEF Contains
<1> QED
  BY <1>4, <1>5, <1>6

\* A time that is not there is added at the end.
LEMMA AppendTime ==
    ASSUME NEW s, Times(s), NEW x \in Entries, ~Contains(s, x)
    PROVE  Times(Append(s, x)) /\ \A e : Contains(Append(s, x), e) <=> Contains(s, e) \/ e = x
<1>1. s \in Seq(Entries) /\ \A i, k \in 1..Len(s) : s[i] = s[k] => i = k
  BY DEF Times, IsInjective
<1> DEFINE t == Append(s, x)
<1> HIDE DEF Entries
<1>2. /\ t \in Seq(Entries) /\ Len(t) = Len(s) + 1 /\ t[Len(s) + 1] = x
      /\ \A i \in 1..Len(s) : t[i] = s[i]
  BY <1>1
<1>3. Len(s) \in Nat
  BY <1>1
<1> HIDE DEF t
<1>4. Times(t)
  <2>1. \A i \in 1..Len(s) : s[i] # x
    BY DEF Contains
  <2> QED
    BY <1>1, <1>2, <1>3, <2>1 DEF Times, IsInjective
<1>5. \A e : Contains(t, e) <=> Contains(s, e) \/ e = x
  <2>1. \A i \in 1..Len(t) : i \in 1..Len(s) \/ i = Len(s) + 1
    BY <1>2, <1>3
  <2>2. \A i \in 1..Len(s) : i \in 1..Len(t)
    BY <1>2, <1>3
  <2>3. Len(s) + 1 \in 1..Len(t)
    BY <1>2, <1>3
  <2> QED
    BY <1>2, <2>1, <2>2, <2>3 DEF Contains
<1> QED
  BY <1>4, <1>5 DEF t

\* A time that is not there is put in its place.
LEMMA InsertTime ==
    ASSUME NEW s, Times(s), NEW x \in Entries, ~Contains(s, x), NEW n \in 1..Len(s) + 1
    PROVE  Times(InsertAt(s, n, x)) /\ \A e : Contains(InsertAt(s, n, x), e) <=> Contains(s, e) \/ e = x
<1>1. s \in Seq(Entries) /\ Len(s) \in Nat /\ \A i, k \in 1..Len(s) : s[i] = s[k] => i = k
  BY DEF Times, IsInjective
<1> HIDE DEF Entries
<1> DEFINE a == SubSeq(s, 1, n - 1)
           b == SubSeq(s, n, Len(s))
           t == InsertAt(s, n, x)
<1>2. /\ a \in Seq(Entries) /\ Len(a) = n - 1
      /\ \A i \in 1..n - 1 : a[i] = s[i]
  <2>1. \A i \in 1..n - 1 : s[i] \in Entries
    BY <1>1
  <2>2. 1 \in Int /\ n - 1 \in Int
    BY <1>1
  <2>3. /\ a \in Seq(Entries)
        /\ Len(a) = IF 1 <= n - 1 THEN n - 1 - 1 + 1 ELSE 0
        /\ \A i \in 1..n - 1 - 1 + 1 : a[i] = s[1 + i - 1]
    BY <2>1, <2>2, SubSeqProperties
  <2> HIDE DEF a
  <2>4. \A i \in 1..n - 1 : i \in 1..n - 1 - 1 + 1 /\ 1 + i - 1 = i
    BY <1>1
  <2> QED
    BY <1>1, <2>3, <2>4
<1>3. /\ b \in Seq(Entries) /\ Len(b) = Len(s) - n + 1
      /\ \A i \in 1..Len(s) - n + 1 : b[i] = s[n + i - 1]
  <2>1. \A i \in n..Len(s) : s[i] \in Entries
    BY <1>1
  <2>2. n \in Int /\ Len(s) \in Int
    BY <1>1
  <2>3. /\ b \in Seq(Entries)
        /\ Len(b) = IF n <= Len(s) THEN Len(s) - n + 1 ELSE 0
        /\ \A i \in 1..Len(s) - n + 1 : b[i] = s[n + i - 1]
    BY <2>1, <2>2, SubSeqProperties
  <2> HIDE DEF b
  <2> QED
    BY <1>1, <2>3
<1>4. t = (a \o <<x>>) \o b
  BY DEF InsertAt
<1> HIDE DEF a, b, t
<1>5. /\ t \in Seq(Entries) /\ Len(t) = Len(s) + 1
      /\ \A i \in 1..Len(s) + 1 : t[i] = IF i < n THEN s[i] ELSE IF i = n THEN x ELSE s[i - 1]
  <2> DEFINE c == a \o <<x>>
  <2>1. c \in Seq(Entries) /\ Len(c) = n /\ c[n] = x /\ \A i \in 1..n - 1 : c[i] = a[i]
    BY <1>1, <1>2
  <2>2. t = c \o b
    BY <1>4
  <2> HIDE DEF c
  <2>3. /\ t \in Seq(Entries) /\ Len(t) = Len(c) + Len(b)
        /\ \A i \in 1..Len(c) + Len(b) : t[i] = IF i <= Len(c) THEN c[i] ELSE b[i - Len(c)]
    BY <1>3, <2>1, <2>2, ConcatProperties
  <2>4. Len(c) + Len(b) = Len(s) + 1
    BY <1>1, <1>3, <2>1
  <2>5. ASSUME NEW i \in 1..Len(s) + 1
        PROVE  t[i] = IF i < n THEN s[i] ELSE IF i = n THEN x ELSE s[i - 1]
    <3>1. CASE i < n
      <4>1. i \in 1..n - 1 /\ i <= Len(c)
        BY <2>1, <3>1
      <4> QED
        BY <1>2, <2>1, <2>3, <2>4, <3>1, <4>1
    <3>2. CASE i = n
      BY <2>1, <2>3, <2>4, <3>2
    <3>3. CASE i > n
      <4>1. i - n \in 1..Len(s) - n + 1 /\ n + (i - n) - 1 = i - 1 /\ ~(i <= Len(c))
        BY <1>1, <2>1, <3>3
      <4>2. t[i] = b[i - n]
        BY <2>1, <2>3, <2>4, <4>1
      <4>3. b[i - n] = s[n + (i - n) - 1]
        BY <1>3, <4>1
      <4> QED
        BY <3>3, <4>1, <4>2, <4>3
    <3> QED
      BY <1>1, <3>1, <3>2, <3>3
  <2> QED
    BY <2>3, <2>4, <2>5
<1>6. \A i \in 1..Len(s) : s[i] # x
  BY DEF Contains
<1>7. Times(t)
  <2>1. ASSUME NEW i \in 1..Len(t), NEW k \in 1..Len(t), t[i] = t[k]
        PROVE  i = k
    <3>1. i \in 1..Len(s) + 1 /\ k \in 1..Len(s) + 1
      BY <1>5
    <3>2. /\ i < n => i \in 1..Len(s)
          /\ i > n => i - 1 \in 1..Len(s)
          /\ k < n => k \in 1..Len(s)
          /\ k > n => k - 1 \in 1..Len(s)
      BY <1>1, <3>1
    <3>3. /\ t[i] = IF i < n THEN s[i] ELSE IF i = n THEN x ELSE s[i - 1]
          /\ t[k] = IF k < n THEN s[k] ELSE IF k = n THEN x ELSE s[k - 1]
      BY <1>5, <3>1
    <3> DEFINE P(m) == IF m < n THEN m ELSE m - 1
    <3>4. i # n => P(i) \in 1..Len(s) /\ t[i] = s[P(i)]
      BY <3>1, <3>2, <3>3
    <3>5. k # n => P(k) \in 1..Len(s) /\ t[k] = s[P(k)]
      BY <3>1, <3>2, <3>3
    <3>6. (i = n => t[i] = x) /\ (k = n => t[k] = x)
      BY <3>1, <3>3
    <3>7. i # n /\ k # n => P(i) = P(k)
      <4> HIDE DEF P
      <4> QED
        BY <1>1, <2>1, <3>4, <3>5
    <3>8. i = n <=> k = n
      <4> HIDE DEF P
      <4> QED
        BY <1>6, <2>1, <3>4, <3>5, <3>6
    <3> QED
      BY <3>1, <3>7, <3>8
  <2> QED
    BY <1>5, <2>1 DEF Times, IsInjective
<1>8. \A e : Contains(t, e) <=> Contains(s, e) \/ e = x
  <2>1. ASSUME NEW e, Contains(t, e) PROVE Contains(s, e) \/ e = x
    <3>1. PICK i \in 1..Len(t) : t[i] = e
      BY <2>1 DEF Contains
    <3>2. i \in 1..Len(s) + 1 /\ (i < n => i \in 1..Len(s)) /\ (i > n => i - 1 \in 1..Len(s))
      BY <1>1, <1>5
    <3> QED
      BY <1>1, <1>5, <3>1, <3>2 DEF Contains
  <2>2. ASSUME NEW e, Contains(s, e) PROVE Contains(t, e)
    <3>1. PICK i \in 1..Len(s) : s[i] = e
      BY <2>2 DEF Contains
    <3>2. CASE i < n
      <4>1. i \in 1..Len(t) /\ t[i] = e
        BY <1>1, <1>5, <3>1, <3>2
      <4> QED
        BY <4>1 DEF Contains
    <3>3. CASE ~(i < n)
      <4>1. i + 1 \in 1..Len(t) /\ t[i + 1] = e
        BY <1>1, <1>5, <3>1, <3>3
      <4> QED
        BY <4>1 DEF Contains
    <3> QED
      BY <3>2, <3>3
  <2>3. Contains(t, x)
    BY <1>1, <1>5 DEF Contains
  <2> QED
    BY <2>1, <2>2, <2>3
<1> QED
  BY <1>7, <1>8 DEF t

\* What claim_due_jobs takes: times that have passed, at most one of each job.
LEMMA ClaimsAreTimes ==
    ASSUME Times(passed)
    PROVE  /\ Claims \in Seq(Entries)
           /\ \A e : Contains(Claims, e) => Contains(passed, e)
           /\ \A i, k \in 1..Len(Claims) : Claims[i].job = Claims[k].job => i = k
<1> DEFINE K == {e \in Entries : /\ e.job \in enabled
                                 /\ e.why = "RunNow" \/ ~Passed(e.job, "RunNow")}
           L == {e \in Entries : lease[e.job] # "live"}
           c == Candidates
           q == Prefix(c, Fetch)
<1>1. passed \in Seq(Entries) /\ \A i, k \in 1..Len(passed) : passed[i] = passed[k] => i = k
  BY DEF Times, IsInjective
<1>2. /\ c \in Seq(Entries)
      /\ \A x : (\E i \in 1..Len(c) : c[i] = x) <=> x \in K /\ \E i \in 1..Len(passed) : passed[i] = x
      /\ \A i, k \in 1..Len(c) : c[i] = c[k] => i = k
  <2>1. c = Filter(passed, K)
    BY DEF Candidates
  <2> HIDE DEF c, K
  <2>2. c \in Seq(Entries) /\ Filtered(c, passed, Len(passed), K)
    BY <1>1, <2>1, FilterElements
  <2> QED
    BY <1>1, <2>2 DEF Filtered
<1>3. \A i, k \in 1..Len(c) : c[i].job = c[k].job => i = k
  <2> SUFFICES ASSUME NEW i \in 1..Len(c), NEW k \in 1..Len(c), c[i].job = c[k].job
               PROVE  i = k
    OBVIOUS
  <2>1. /\ c[i] \in K /\ Contains(passed, c[i])
        /\ c[k] \in K /\ Contains(passed, c[k])
    <3> HIDE DEF c, K
    <3> QED
      BY <1>2 DEF Contains
  <2>2. /\ c[i] \in Entries /\ c[k] \in Entries
        /\ c[i].why = "RunNow" \/ ~Passed(c[i].job, "RunNow")
        /\ c[k].why = "RunNow" \/ ~Passed(c[k].job, "RunNow")
    <3> HIDE DEF c
    <3> QED
      BY <2>1
  <2> HIDE DEF c, K
  <2>3. \A e \in Entries : Contains(passed, e) /\ e.why = "RunNow" => Passed(e.job, "RunNow")
    BY DEF Passed, Entry, Entries
  <2>4. c[i].why = c[k].why
    BY <2>1, <2>2, <2>3 DEF Entries, Why
  <2>5. c[i] = c[k]
    BY <2>2, <2>4 DEF Entries
  <2> QED
    BY <1>2, <2>5
<1>4. /\ q \in Seq(Entries)
      /\ \A i \in 1..Len(q) : i \in 1..Len(c) /\ q[i] = c[i]
  <2>1. Fetch \in Nat
    BY SchedulerAssumption
  <2> HIDE DEF c
  <2> QED
    BY <1>2, <2>1, PrefixElements
<1>5. /\ Claims \in Seq(Entries)
      /\ \A x : (\E i \in 1..Len(Claims) : Claims[i] = x) <=> x \in L /\ \E i \in 1..Len(q) : q[i] = x
      /\ (\A i, k \in 1..Len(q) : q[i] = q[k] => i = k)
           => \A i, k \in 1..Len(Claims) : Claims[i] = Claims[k] => i = k
  <2>1. Claims = Filter(q, L)
    BY DEF Claims
  <2> HIDE DEF q, L
  <2>2. Claims \in Seq(Entries) /\ Filtered(Claims, q, Len(q), L)
    BY <1>4, <2>1, FilterElements
  <2> HIDE DEF Entries
  <2>3. /\ \A x : (\E i \in 1..Len(Claims) : Claims[i] = x) <=> x \in L /\ \E i \in 1..Len(q) : q[i] = x
        /\ (\A i, k \in 1..Len(q) : q[i] = q[k] => i = k)
             => \A i, k \in 1..Len(Claims) : Claims[i] = Claims[k] => i = k
    BY <2>2 DEF Filtered
  <2> QED
    BY <2>2, <2>3
<1> HIDE DEF c, q, K, L
<1>6. ASSUME NEW e, Contains(Claims, e) PROVE Contains(passed, e)
  <2>1. PICK m \in 1..Len(q) : q[m] = e
    BY <1>5, <1>6 DEF Contains
  <2>2. PICK n \in 1..Len(passed) : passed[n] = e
    BY <1>2, <1>4, <2>1
  <2> QED
    BY <2>2 DEF Contains
<1>7. \A i, k \in 1..Len(Claims) : Claims[i].job = Claims[k].job => i = k
  <2> SUFFICES ASSUME NEW i \in 1..Len(Claims), NEW k \in 1..Len(Claims),
                      Claims[i].job = Claims[k].job
               PROVE  i = k
    OBVIOUS
  <2>1. PICK m \in 1..Len(q) : q[m] = Claims[i]
    BY <1>5
  <2>2. PICK n \in 1..Len(q) : q[n] = Claims[k]
    BY <1>5
  <2>3. m = n
    BY <1>3, <1>4, <2>1, <2>2
  <2>4. Claims[i] = Claims[k]
    BY <2>1, <2>2, <2>3
  <2>5. \A u, v \in 1..Len(q) : q[u] = q[v] => u = v
    BY <1>2, <1>4
  <2> QED
    BY <1>5, <2>4, <2>5
<1> QED
  BY <1>5, <1>6, <1>7
-----------------------------------------------------------------------------
(* Times and leases keep their shape, and recurring jobs their next time *)

SchedulerInv ==
    /\ row \in [Job -> {"unused", "deleted"} \cup Kind]
    /\ lease \in [Job -> {"none", "live", "expired"}]
    /\ batch \in [Proc -> Seq(Entries)]
    /\ \A p \in executing : p \in Proc /\ batch[p] # <<>>
    /\ \A j \in enabled \cup later \cup succeeded : j \in Job /\ row[j] \in Kind
    /\ Times(passed)
    /\ \A e : Contains(passed, e) => row[e.job] \in Kind
    /\ \A j \in later : ~Contains(passed, Entry(j, "Due"))
    /\ \A j \in Job : row[j] \in {"Repeat", "Ended"} => j \in later \/ Contains(passed, Entry(j, "Due"))

\* It says what the type invariant and RecurringStaysScheduled say together.
LEMMA SchedulerInvMeaning ==
    SchedulerInv <=> SchedulerTypeOK /\ RecurringStaysScheduled
<1>1. /\ passed \in Seq({e \in Entries : row[e.job] \in Kind}) /\ IsInjective(passed)
          <=> Times(passed) /\ \A e : Contains(passed, e) => row[e.job] \in Kind
  BY TimesOfJobs
<1>2. {e \in Entries : Exists(e.job)} = {e \in Entries : row[e.job] \in Kind}
  BY DEF Exists
<1> DEFINE S1 == Seq({e \in Entries : row[e.job] \in Kind})
<1>3. SchedulerTypeOK =
        (/\ row \in [Job -> {"unused", "deleted"} \cup Kind]
         /\ enabled \subseteq {j \in Job : Exists(j)}
         /\ later \subseteq {j \in Job : Exists(j) /\ ~Passed(j, "Due")}
         /\ lease \in [Job -> {"none", "live", "expired"}]
         /\ succeeded \subseteq {j \in Job : Exists(j)}
         /\ passed \in S1
         /\ IsInjective(passed)
         /\ batch \in [Proc -> Seq(Entries)]
         /\ executing \subseteq {p \in Proc : batch[p] # <<>>})
  BY <1>2, Zenon DEF SchedulerTypeOK
<1> QED
  BY <1>1, <1>3 DEF SchedulerInv, RecurringStaysScheduled, Exists, Passed

\* The scheduler starts in a state that satisfies the invariant.
LEMMA SchedulerInitInv == Init => SchedulerInv
<1> SUFFICES ASSUME Init PROVE SchedulerInv
  OBVIOUS
<1>1. Times(<<>>) /\ \A e : ~Contains(<<>>, e)
  BY DEF Times, IsInjective, Contains
<1>2. \A p \in Proc : <<>> \in Seq(Entries)
  OBVIOUS
<1> QED
  BY <1>1, <1>2 DEF Init, SchedulerInv, Kind

\* Users preserve it.
LEMMA UsersStep == SchedulerInv /\ Users => SchedulerInv'
<1> SUFFICES ASSUME SchedulerInv, NEW j \in Job,
                    \/ \E k \in Kind : CreateJob(j, k)
                    \/ \E i \in 1..Len(passed) + 1 : CreateOverdueJob(j, i)
                    \/ PauseJob(j)
                    \/ ResumeJob(j)
                    \/ DeleteJob(j)
                    \/ RequestRunNow(j)
             PROVE  SchedulerInv'
  BY DEF Users
<1>0. \A w \in Why : Entry(j, w) \in Entries
  BY DEF Entry, Entries
<1>00. \A k, v, w : Entry(j, v).job = j /\ (Entry(j, v) = Entry(k, w) <=> j = k /\ v = w)
  BY DEF Entry
<1>1. ASSUME NEW k \in Kind, CreateJob(j, k) PROVE SchedulerInv'
  <2>1. row[j] \notin Kind /\ ~Contains(passed, Entry(j, "Due"))
    BY <1>00, <1>1 DEF CreateJob, SchedulerInv, Kind
  <2> QED
    BY <1>1, <2>1 DEF CreateJob, SchedulerInv, Kind, Entry
<1>2. ASSUME NEW i \in 1..Len(passed) + 1, CreateOverdueJob(j, i) PROVE SchedulerInv'
  <2>1. row[j] \notin Kind /\ ~Contains(passed, Entry(j, "Due")) /\ j \notin later
    BY <1>00, <1>2 DEF CreateOverdueJob, SchedulerInv, Kind
  <2>2. /\ Times(passed')
        /\ \A e : Contains(passed', e) <=> Contains(passed, e) \/ e = Entry(j, "Due")
    BY <1>0, <1>2, <2>1, InsertTime DEF CreateOverdueJob, SchedulerInv, Why
  <2> QED
    BY <1>00, <1>2, <2>1, <2>2 DEF CreateOverdueJob, SchedulerInv, Kind
<1>3. CASE PauseJob(j)
  BY <1>3 DEF PauseJob, SchedulerInv
<1>4. CASE ResumeJob(j)
  BY <1>4 DEF ResumeJob, SchedulerInv, Exists
<1>5. CASE DeleteJob(j)
  <2> DEFINE E == {Entry(j, w) : w \in Why}
  <2>1. /\ Times(passed')
        /\ \A e : Contains(passed', e) <=> Contains(passed, e) /\ e \notin E
    BY <1>5, DropTimes DEF DeleteJob, SchedulerInv
  <2>2. \A e : Contains(passed', e) => e.job \in Job /\ e.job # j
    <3>1. \A e \in Entries : e.job = j => e \in E
      BY DEF Entries, Entry
    <3>2. \A e : Contains(passed', e) => e \in Entries
      BY <2>1, TimesAreEntries DEF Times
    <3>3. \A e \in Entries : e.job \in Job
      BY DEF Entries
    <3> HIDE DEF E
    <3> QED
      BY <2>1, <3>1, <3>2, <3>3
  <2>3. \A k : k # j => Entry(k, "Due") \notin E
    BY DEF Entry
  <2> HIDE DEF E
  <2> QED
    BY <1>5, <2>1, <2>2, <2>3 DEF DeleteJob, SchedulerInv, Kind
<1>6. CASE RequestRunNow(j)
  <2> DEFINE d == Drop(passed, {Entry(j, "RunNow")})
  <2>1. /\ Times(d)
        /\ \A e : Contains(d, e) <=> Contains(passed, e) /\ e # Entry(j, "RunNow")
    BY DropTimes DEF SchedulerInv
  <2> HIDE DEF d
  <2>2. /\ Times(Append(d, Entry(j, "RunNow")))
        /\ \A e : Contains(Append(d, Entry(j, "RunNow")), e) <=> Contains(d, e) \/ e = Entry(j, "RunNow")
    BY <1>0, <2>1, AppendTime DEF Why
  <2>3. passed' = Append(d, Entry(j, "RunNow"))
    BY <1>6 DEF RequestRunNow, d
  <2>4. /\ Times(passed')
        /\ \A e : Contains(passed', e) <=> Contains(passed, e) \/ e = Entry(j, "RunNow")
    BY <2>1, <2>2, <2>3
  <2>5. \A k : Entry(k, "Due") # Entry(j, "RunNow")
    BY DEF Entry
  <2> QED
    BY <1>00, <1>6, <2>4, <2>5 DEF RequestRunNow, SchedulerInv, Exists
<1> QED
  BY <1>1, <1>2, <1>3, <1>4, <1>5, <1>6

\* The clock preserves it.
LEMMA ClockStep ==
    ASSUME NEW j \in Job, SchedulerInv, Clock(j)
    PROVE  SchedulerInv'
<1>1. CASE BecomeDue(j)
  <2>1. Entry(j, "Due") \in Entries /\ ~Contains(passed, Entry(j, "Due"))
    BY <1>1 DEF BecomeDue, SchedulerInv, Entry, Entries, Why
  <2>2. /\ Times(passed')
        /\ \A e : Contains(passed', e) <=> Contains(passed, e) \/ e = Entry(j, "Due")
    BY <1>1, <2>1, AppendTime DEF BecomeDue, SchedulerInv
  <2>3. \A k : Entry(j, "Due").job = j /\ (Entry(k, "Due") = Entry(j, "Due") <=> j = k)
    BY DEF Entry
  <2> QED
    BY <1>1, <2>2, <2>3 DEF BecomeDue, SchedulerInv
<1>2. CASE LastOccurrence(j)
  BY <1>2 DEF LastOccurrence, SchedulerInv, Kind
<1>3. CASE ExpireLease(j)
  BY <1>3 DEF ExpireLease, SchedulerInv
<1> QED
  BY <1>1, <1>2, <1>3 DEF Clock

\* The end of a run writes the next time of its job.
LEMMA RescheduleTimes ==
    ASSUME NEW j \in Job, NEW o, SchedulerInv, Reschedule(j, o)
    PROVE  /\ Times(passed')
           /\ \A e : Contains(passed', e) => Contains(passed, e)
           /\ \A e : Contains(passed, e) => Contains(passed', e) \/ e = Entry(j, "Due")
           /\ o # "Failed" => ~Contains(passed', Entry(j, "Due"))
           /\ \A k \in later' : k \in later \/ (k = j /\ o # "Failed" /\ row[j] = "Repeat")
           /\ \A k \in later : k \in later' \/ k = j
           /\ o # "Failed" => (row[j] = "Repeat" <=> j \in later')
           /\ o = "Failed" => later' = later /\ passed' = passed
<1>1. CASE o = "Failed"
  BY <1>1 DEF Reschedule, SchedulerInv
<1>2. CASE o # "Failed"
  <2>1. /\ Times(passed')
        /\ \A e : Contains(passed', e) <=> Contains(passed, e) /\ e # Entry(j, "Due")
    BY <1>2, DropTimes DEF Reschedule, SchedulerInv
  <2>2. later' = IF row[j] = "Repeat" THEN later \cup {j} ELSE later \ {j}
    BY <1>2 DEF Reschedule
  <2> QED
    BY <1>2, <2>1, <2>2
<1> QED
  BY <1>1, <1>2

\* The polling loops preserve it, and so does a crash.
LEMMA LoopStep ==
    ASSUME NEW p \in Proc, SchedulerInv, Loop(p) \/ Crash(p)
    PROVE  SchedulerInv'
<1>1. CASE ClaimDueJobs(p)
  <2> DEFINE E == {e \in ToSet(Claims) : e.why = "RunNow"}
  <2>1. /\ Times(passed')
        /\ \A e : Contains(passed', e) <=> Contains(passed, e) /\ e \notin E
    BY <1>1, DropTimes DEF ClaimDueJobs, SchedulerInv
  <2>2. \A k : Entry(k, "Due") \notin E
    BY DEF Entry
  <2>3. Claims \in Seq(Entries) /\ Batch \in Nat
    BY ClaimsAreTimes, SchedulerAssumption DEF SchedulerInv
  <2>4. Prefix(Claims, Batch) \in Seq(Entries)
    BY <2>3, PrefixElements
  <2>5. batch' \in [Proc -> Seq(Entries)] /\ \A q \in Proc : batch[q] # <<>> => batch'[q] = batch[q]
    BY <1>1, <2>4 DEF ClaimDueJobs, SchedulerInv
  <2>6. lease' \in [Job -> {"none", "live", "expired"}]
    BY <1>1 DEF ClaimDueJobs, SchedulerInv
  <2>7. UNCHANGED <<row, enabled, later, succeeded, executing>>
    BY <1>1 DEF ClaimDueJobs
  <2> HIDE DEF E
  <2> QED
    BY <2>1, <2>2, <2>5, <2>6, <2>7 DEF SchedulerInv
<1>0. <<>> \in Seq(Entries)
  OBVIOUS
<1>2. CASE StartRun(p)
  <2>0. \/ executing' = executing \cup {p} /\ batch' = batch
        \/ executing' = executing /\ batch' = [batch EXCEPT ![p] = <<>>]
    BY <1>2 DEF StartRun
  <2>1. batch' \in [Proc -> Seq(Entries)]
    BY <1>0, <2>0 DEF SchedulerInv
  <2>2. \A q \in executing' : q \in Proc /\ batch'[q] # <<>>
    BY <1>2, <2>0 DEF StartRun, SchedulerInv
  <2> QED
    BY <1>2, <2>1, <2>2 DEF StartRun, SchedulerInv
<1>3. ASSUME NEW o \in Outcome, FinishRun(p, o) PROVE SchedulerInv'
  <2> DEFINE j == Head(batch[p]).job
  <2>1. batch[p] \in Seq(Entries) /\ batch[p] # <<>> /\ Head(batch[p]) \in Entries
    BY <1>3 DEF FinishRun, SchedulerInv
  <2>2. Tail(batch[p]) \in Seq(Entries) /\ j \in Job
    BY <2>1 DEF Entries
  <2>3. batch' \in [Proc -> Seq(Entries)] /\ \A q \in Proc : q # p => batch'[q] = batch[q]
    <3>1. \/ batch' = [batch EXCEPT ![p] = Tail(batch[p])]
          \/ batch' = [batch EXCEPT ![p] = <<>>]
      BY <1>3 DEF FinishRun
    <3> QED
      BY <1>0, <2>2, <3>1 DEF SchedulerInv
  <2>4. \A q \in executing' : q \in Proc /\ batch'[q] # <<>>
    BY <1>3, <2>3 DEF FinishRun, SchedulerInv
  <2> HIDE DEF j
  <2>5. CASE Finishes(j, o)
    <3>1. /\ Reschedule(j, o)
          /\ lease' = [lease EXCEPT ![j] = "none"]
          /\ succeeded' \subseteq succeeded \cup {j}
          /\ UNCHANGED <<row, enabled>>
      BY <1>3, <2>5 DEF FinishRun, j
    <3>2. row[j] \in Kind
      BY <2>5 DEF Finishes, Exists
    <3>3. /\ Times(passed')
          /\ \A e : Contains(passed', e) => Contains(passed, e)
          /\ \A e : Contains(passed, e) => Contains(passed', e) \/ e = Entry(j, "Due")
          /\ o # "Failed" => ~Contains(passed', Entry(j, "Due"))
          /\ \A k \in later' : k \in later \/ (k = j /\ o # "Failed" /\ row[j] = "Repeat")
          /\ \A k \in later : k \in later' \/ k = j
          /\ o # "Failed" => (row[j] = "Repeat" <=> j \in later')
          /\ o = "Failed" => later' = later /\ passed' = passed
      BY <2>2, <3>1, RescheduleTimes
    <3>4. \A k : Entry(k, "Due") = Entry(j, "Due") <=> k = j
      BY DEF Entry
    <3>5. \A k \in later' : k \in Job /\ row[k] \in Kind /\ ~Contains(passed', Entry(k, "Due"))
      BY <2>2, <3>2, <3>3 DEF SchedulerInv
    <3>6. \A k \in Job : row[k] \in {"Repeat", "Ended"} => k \in later' \/ Contains(passed', Entry(k, "Due"))
      BY <2>5, <3>3, <3>4 DEF Finishes, SchedulerInv
    <3> QED
      BY <2>2, <2>3, <2>4, <3>1, <3>2, <3>3, <3>5, <3>6 DEF SchedulerInv
  <2>6. CASE ~Finishes(j, o)
    <3>1. UNCHANGED <<row, enabled, passed, later, lease, succeeded>>
      BY <1>3, <2>6 DEF FinishRun, j
    <3> QED
      BY <2>3, <2>4, <3>1 DEF SchedulerInv
  <2> QED
    BY <2>5, <2>6
<1>4. CASE Crash(p)
  <2>1. batch' \in [Proc -> Seq(Entries)]
    BY <1>4 DEF Crash, SchedulerInv
  <2>2. \A q \in executing' : q \in Proc /\ batch'[q] # <<>>
    BY <1>4 DEF Crash, SchedulerInv
  <2> QED
    BY <1>4, <2>1, <2>2 DEF Crash, SchedulerInv
<1> QED
  BY <1>1, <1>2, <1>3, <1>4 DEF Loop

\* The invariant holds in every reachable state.
LEMMA SchedulerInvariance == SafetySpec => []SchedulerInv
<1>1. SchedulerInv /\ [Next]_vars => SchedulerInv'
  <2>1. SchedulerInv /\ UNCHANGED vars => SchedulerInv'
    BY DEF vars, SchedulerInv
  <2> QED
    BY <2>1, UsersStep, ClockStep, LoopStep DEF Next
<1> QED
  BY <1>1, SchedulerInitInv, PTL DEF SafetySpec

\* Times, leases and claims keep their shape, whatever users, loops, the clock and
\* crashes do: the times that have passed belong to existing jobs and stand once.
THEOREM SchedulerTypes == SafetySpec => []SchedulerTypeOK
<1>1. SchedulerInv => SchedulerTypeOK
  BY SchedulerInvMeaning
<1> QED
  BY <1>1, SchedulerInvariance, PTL

\* No step of anybody takes the next occurrence of a recurring job away (finish_run,
\* claim_due_jobs).
THEOREM RecurringJobsStay == SafetySpec => []RecurringStaysScheduled
<1>1. SchedulerInv => RecurringStaysScheduled
  BY SchedulerInvMeaning
<1> QED
  BY <1>1, SchedulerInvariance, PTL
-----------------------------------------------------------------------------
(* Success is final *)

\* A job has a next time: one that has passed or one to come.
HasTime(j) == j \in later \/ Contains(passed, Entry(j, "Due"))

\* A user gives a next time to new jobs only, and the clock to none.
LEMMA TimesAreGivenOnce ==
    ASSUME SchedulerInv, Users \/ \E j \in Job : Clock(j)
    PROVE  /\ \A j \in Job : HasTime(j)' => HasTime(j) \/ row[j] = "unused"
           /\ \A j \in succeeded' : j \in succeeded /\ (row'[j] = "At" => row[j] = "At")
           /\ batch' = batch
<1>0. Times(passed) /\ \A j, k, w : Entry(k, w) = Entry(j, "Due") <=> j = k /\ w = "Due"
  BY DEF SchedulerInv, Entry
<1>00. \A j \in Job, w \in Why : Entry(j, w) \in Entries
  BY DEF Entry, Entries
<1>1. ASSUME NEW j \in Job, NEW k \in Kind, CreateJob(j, k)
      PROVE  /\ \A i \in Job : HasTime(i)' => HasTime(i) \/ row[i] = "unused"
             /\ \A i \in succeeded' : i \in succeeded /\ (row'[i] = "At" => row[i] = "At")
             /\ batch' = batch
  <2>1. j \notin succeeded
    BY <1>1 DEF CreateJob, SchedulerInv, Kind
  <2> QED
    BY <1>1, <2>1 DEF CreateJob, SchedulerInv, HasTime
<1>2. ASSUME NEW j \in Job, NEW n \in 1..Len(passed) + 1, CreateOverdueJob(j, n)
      PROVE  /\ \A i \in Job : HasTime(i)' => HasTime(i) \/ row[i] = "unused"
             /\ \A i \in succeeded' : i \in succeeded /\ (row'[i] = "At" => row[i] = "At")
             /\ batch' = batch
  <2>1. row[j] \notin Kind /\ ~Contains(passed, Entry(j, "Due")) /\ j \notin succeeded
    BY <1>2 DEF CreateOverdueJob, SchedulerInv, Kind, Entry
  <2>2. \A e : Contains(passed', e) <=> Contains(passed, e) \/ e = Entry(j, "Due")
    BY <1>0, <1>00, <1>2, <2>1, InsertTime DEF CreateOverdueJob, Why
  <2> QED
    BY <1>0, <1>2, <2>1, <2>2 DEF CreateOverdueJob, SchedulerInv, HasTime
<1>3. ASSUME NEW j \in Job, PauseJob(j) \/ ResumeJob(j)
      PROVE  /\ \A i \in Job : HasTime(i)' => HasTime(i) \/ row[i] = "unused"
             /\ \A i \in succeeded' : i \in succeeded /\ (row'[i] = "At" => row[i] = "At")
             /\ batch' = batch
  BY <1>3 DEF PauseJob, ResumeJob, HasTime
<1>4. ASSUME NEW j \in Job, DeleteJob(j)
      PROVE  /\ \A i \in Job : HasTime(i)' => HasTime(i) \/ row[i] = "unused"
             /\ \A i \in succeeded' : i \in succeeded /\ (row'[i] = "At" => row[i] = "At")
             /\ batch' = batch
  <2>1. \A e : Contains(passed', e) => Contains(passed, e)
    BY <1>0, <1>4, DropTimes DEF DeleteJob
  <2> QED
    BY <1>4, <2>1 DEF DeleteJob, SchedulerInv, HasTime
<1>5. ASSUME NEW j \in Job, RequestRunNow(j)
      PROVE  /\ \A i \in Job : HasTime(i)' => HasTime(i) \/ row[i] = "unused"
             /\ \A i \in succeeded' : i \in succeeded /\ (row'[i] = "At" => row[i] = "At")
             /\ batch' = batch
  <2> DEFINE d == Drop(passed, {Entry(j, "RunNow")})
  <2>1. /\ Times(d)
        /\ \A e : Contains(d, e) <=> Contains(passed, e) /\ e # Entry(j, "RunNow")
    BY <1>0, DropTimes
  <2> HIDE DEF d
  <2>2. \A e : Contains(Append(d, Entry(j, "RunNow")), e) <=> Contains(d, e) \/ e = Entry(j, "RunNow")
    BY <1>00, <2>1, AppendTime DEF Why
  <2>3. passed' = Append(d, Entry(j, "RunNow"))
    BY <1>5 DEF RequestRunNow, d
  <2>4. \A i : Contains(passed', Entry(i, "Due")) => Contains(passed, Entry(i, "Due"))
    BY <1>0, <2>1, <2>2, <2>3
  <2> QED
    BY <1>5, <2>4 DEF RequestRunNow, HasTime
<1>6. ASSUME NEW j \in Job, BecomeDue(j)
      PROVE  /\ \A i \in Job : HasTime(i)' => HasTime(i) \/ row[i] = "unused"
             /\ \A i \in succeeded' : i \in succeeded /\ (row'[i] = "At" => row[i] = "At")
             /\ batch' = batch
  <2>1. Entry(j, "Due") \in Entries /\ ~Contains(passed, Entry(j, "Due"))
    BY <1>00, <1>6 DEF BecomeDue, SchedulerInv, Why
  <2>2. \A e : Contains(passed', e) <=> Contains(passed, e) \/ e = Entry(j, "Due")
    BY <1>0, <1>6, <2>1, AppendTime DEF BecomeDue
  <2> QED
    BY <1>0, <1>6, <2>2 DEF BecomeDue, HasTime
<1>7. ASSUME NEW j \in Job, LastOccurrence(j)
      PROVE  /\ \A i \in Job : HasTime(i)' => HasTime(i) \/ row[i] = "unused"
             /\ \A i \in succeeded' : i \in succeeded /\ (row'[i] = "At" => row[i] = "At")
             /\ batch' = batch
  BY <1>7 DEF LastOccurrence, SchedulerInv, HasTime
<1>8. ASSUME NEW j \in Job, ExpireLease(j)
      PROVE  /\ \A i \in Job : HasTime(i)' => HasTime(i) \/ row[i] = "unused"
             /\ \A i \in succeeded' : i \in succeeded /\ (row'[i] = "At" => row[i] = "At")
             /\ batch' = batch
  BY <1>8 DEF ExpireLease, HasTime
<1> HIDE DEF HasTime
<1> QED
  BY <1>1, <1>2, <1>3, <1>4, <1>5, <1>6, <1>7, <1>8, Zenon DEF Users, Clock

\* The invariant of the theorem below: no step gives a time to a job that is not new,
\* except that the end of a run gives one to a recurring job.
SpentInv == SchedulerInv /\ \A j \in succeeded : row[j] = "At" => ~HasTime(j)

\* Every step of any number of loops preserves it.
LEMMA SpentStep == SpentInv /\ [Next]_vars => SpentInv'
<1> SUFFICES ASSUME SpentInv, [Next]_vars PROVE SpentInv'
  OBVIOUS
<1>0. SchedulerInv /\ SchedulerInv'
  <2>1. SchedulerInv /\ UNCHANGED vars => SchedulerInv'
    BY DEF vars, SchedulerInv
  <2> QED
    BY <2>1, UsersStep, ClockStep, LoopStep DEF Next, SpentInv
<1>1. CASE Users \/ \E j \in Job : Clock(j)
  <2>1. /\ \A j \in Job : HasTime(j)' => HasTime(j) \/ row[j] = "unused"
        /\ \A j \in succeeded' : j \in succeeded /\ (row'[j] = "At" => row[j] = "At")
    BY <1>0, <1>1, TimesAreGivenOnce
  <2>2. \A j \in succeeded : j \in Job /\ row[j] # "unused"
    BY <1>0 DEF SchedulerInv, Kind
  <2> HIDE DEF HasTime
  <2> QED
    BY <1>0, <2>1, <2>2 DEF SpentInv
<1>2. ASSUME NEW p \in Proc, ClaimDueJobs(p) PROVE SpentInv'
  <2>1. \A e : Contains(passed', e) => Contains(passed, e)
    BY <1>0, <1>2, DropTimes DEF ClaimDueJobs, SchedulerInv
  <2>2. UNCHANGED <<row, later, succeeded>>
    BY <1>2 DEF ClaimDueJobs
  <2> QED
    BY <1>0, <2>1, <2>2 DEF SpentInv, HasTime
<1>3. CASE UNCHANGED <<row, passed, later, succeeded>>
  BY <1>0, <1>3 DEF SpentInv, HasTime
<1>4. ASSUME NEW p \in Proc, NEW o \in Outcome, FinishRun(p, o), Finishes(Head(batch[p]).job, o)
      PROVE  SpentInv'
  <2> DEFINE j == Head(batch[p]).job
  <2>1. j \in Job
    <3>1. batch[p] \in Seq(Entries) /\ batch[p] # <<>>
      BY <1>0, <1>4 DEF FinishRun, SchedulerInv
    <3>2. Head(batch[p]) \in Entries
      BY <3>1
    <3> QED
      BY <3>2 DEF Entries
  <2>2. /\ Reschedule(j, o) /\ row' = row
        /\ succeeded' = IF o = "Succeeded" THEN succeeded \cup {j} ELSE succeeded
    BY <1>4 DEF FinishRun
  <2> HIDE DEF j
  <2>3. /\ \A e : Contains(passed', e) => Contains(passed, e)
        /\ o # "Failed" => ~Contains(passed', Entry(j, "Due"))
        /\ \A k \in later' : k \in later \/ (k = j /\ o # "Failed" /\ row[j] = "Repeat")
        /\ o # "Failed" => (row[j] = "Repeat" <=> j \in later')
    BY <1>0, <2>1, <2>2, RescheduleTimes
  <2>4. ASSUME NEW k \in succeeded', row[k] = "At" PROVE ~HasTime(k)'
    <3>1. CASE k = j /\ o = "Succeeded"
      BY <2>3, <2>4, <3>1 DEF HasTime
    <3>2. CASE k \in succeeded
      <4>1. ~HasTime(k)
        BY <2>4, <3>2 DEF SpentInv
      <4> QED
        BY <2>3, <2>4, <4>1 DEF HasTime
    <3> QED
      BY <2>2, <3>1, <3>2
  <2> QED
    BY <1>0, <2>2, <2>4 DEF SpentInv
<1>5. ASSUME NEW p \in Proc, Loop(p) \/ Crash(p) PROVE SpentInv'
  <2>1. CASE StartRun(p)
    BY <1>3, <2>1 DEF StartRun
  <2>2. ASSUME NEW o \in Outcome, FinishRun(p, o), ~Finishes(Head(batch[p]).job, o)
        PROVE  SpentInv'
    BY <1>3, <2>2 DEF FinishRun
  <2>3. CASE Crash(p)
    BY <1>3, <2>3 DEF Crash
  <2> QED
    BY <1>2, <1>4, <1>5, <2>1, <2>2, <2>3 DEF Loop
<1> QED
  BY <1>1, <1>3, <1>5 DEF Next, vars

\* A one-shot job that has succeeded never has a time again, for any number of loops,
\* leases that end in the middle of a run and late ends of overtaken runs
\* (claim_due_jobs, finish_run).
THEOREM SucceededIsSpent == SafetySpec => []SuccessIsFinal
<1>1. Init => SpentInv
  BY SchedulerInitInv DEF Init, SpentInv
<1>2. SpentInv => SuccessIsFinal
  BY DEF SpentInv, SuccessIsFinal, HasTime, Passed
<1> QED
  BY <1>1, <1>2, SpentStep, PTL DEF SafetySpec

-----------------------------------------------------------------------------
(* A one-shot job runs once *)

\* No job is claimed twice, by one loop or by two.
Exclusive ==
    \A p, q \in Proc : \A i \in 1..Len(batch[p]), k \in 1..Len(batch[q]) :
        batch[p][i].job = batch[q][k].job => p = q /\ i = k

\* Claims that are dropped or done leave the others apart.
LEMMA ShrunkBatches ==
    ASSUME batch \in [Proc -> Seq(Entries)], Exclusive,
           \A r \in Proc : \/ batch'[r] = batch[r]
                           \/ batch'[r] = <<>>
                           \/ batch[r] # <<>> /\ batch'[r] = Tail(batch[r])
    PROVE  /\ Exclusive'
           /\ \A r \in Proc : \A e : Contains(batch'[r], e) => Contains(batch[r], e)
<1>1. ASSUME NEW r \in Proc
      PROVE  \E d \in {0, 1} : \A i \in 1..Len(batch'[r]) :
                i + d \in 1..Len(batch[r]) /\ batch'[r][i] = batch[r][i + d]
  <2> DEFINE b == batch[r]
  <2>1. b \in Seq(Entries)
    OBVIOUS
  <2>2. batch'[r] = b \/ batch'[r] = <<>> \/ (b # <<>> /\ batch'[r] = Tail(b))
    OBVIOUS
  <2> HIDE DEF b, Entries
  <2>3. CASE batch'[r] = b
    <3>1. \A i \in 1..Len(batch'[r]) : i + 0 \in 1..Len(b) /\ batch'[r][i] = b[i + 0]
      BY <2>3
    <3> QED
      BY <3>1 DEF b
  <2>4. CASE batch'[r] = <<>>
    BY <2>4
  <2>5. CASE b # <<>> /\ batch'[r] = Tail(b)
    <3>1. \A i \in 1..Len(Tail(b)) : i + 1 \in 1..Len(b) /\ Tail(b)[i] = b[i + 1]
      BY <2>1, <2>5
    <3> QED
      BY <2>5, <3>1 DEF b
  <2> QED
    BY <2>2, <2>3, <2>4, <2>5
<1>2. Exclusive'
  <2> SUFFICES ASSUME NEW p \in Proc, NEW q \in Proc,
                      NEW i \in 1..Len(batch'[p]), NEW k \in 1..Len(batch'[q]),
                      batch'[p][i].job = batch'[q][k].job
               PROVE  p = q /\ i = k
    BY DEF Exclusive
  <2>1. PICK d \in {0, 1} : \A n \in 1..Len(batch'[p]) :
                n + d \in 1..Len(batch[p]) /\ batch'[p][n] = batch[p][n + d]
    BY <1>1
  <2>2. p = q
    <3>1. PICK c \in {0, 1} : \A n \in 1..Len(batch'[q]) :
                n + c \in 1..Len(batch[q]) /\ batch'[q][n] = batch[q][n + c]
      BY <1>1
    <3>2. /\ i + d \in 1..Len(batch[p]) /\ k + c \in 1..Len(batch[q])
          /\ batch[p][i + d].job = batch[q][k + c].job
      BY <2>1, <3>1
    <3> QED
      BY <3>2 DEF Exclusive
  <2>3. /\ i + d \in 1..Len(batch[p]) /\ k + d \in 1..Len(batch[p])
        /\ batch[p][i + d].job = batch[p][k + d].job
    BY <2>1, <2>2
  <2>4. i + d = k + d
    BY <2>3 DEF Exclusive
  <2>5. i \in Int /\ k \in Int /\ d \in Int
    OBVIOUS
  <2> QED
    BY <2>2, <2>4, <2>5
<1>3. ASSUME NEW r \in Proc, NEW e, Contains(batch'[r], e) PROVE Contains(batch[r], e)
  BY <1>1, <1>3 DEF Contains
<1> QED
  BY <1>2, <1>3

\* The end of a run takes the only claim of its job.
LEMMA FinishTakesClaim ==
    ASSUME NEW p \in Proc, NEW o, batch \in [Proc -> Seq(Entries)], Exclusive, batch[p] # <<>>,
           batch' = [batch EXCEPT ![p] = Tail(batch[p])]
    PROVE  \A r \in Proc : \A e : Contains(batch'[r], e) =>
              Contains(batch[r], e) /\ e.job # Head(batch[p]).job
<1> DEFINE b == batch[p]
<1>1. b \in Seq(Entries) /\ b # <<>> /\ batch'[p] = Tail(b)
  OBVIOUS
<1>2. /\ 1 \in 1..Len(b) /\ Head(b) = b[1]
      /\ \A i \in 1..Len(Tail(b)) : i + 1 \in 1..Len(b) /\ Tail(b)[i] = b[i + 1]
  <2> HIDE DEF b, Entries
  <2> QED
    BY <1>1
<1> HIDE DEF b
<1>3. ASSUME NEW r \in Proc, NEW e, Contains(batch'[r], e)
      PROVE  Contains(batch[r], e) /\ e.job # Head(batch[p]).job
  <2>1. CASE r = p
    <3>1. PICK i \in 1..Len(Tail(b)) : Tail(b)[i] = e
      BY <1>1, <1>3, <2>1 DEF Contains
    <3>2. i + 1 \in 1..Len(b) /\ b[i + 1] = e /\ i + 1 # 1
      BY <1>2, <3>1
    <3>3. e.job # b[1].job
      BY <1>2, <3>2 DEF Exclusive, b
    <3> QED
      BY <1>2, <2>1, <3>2, <3>3 DEF Contains, b
  <2>2. CASE r # p
    <3>1. batch'[r] = batch[r]
      BY <2>2
    <3>2. PICK i \in 1..Len(batch[r]) : batch[r][i] = e
      BY <1>3, <3>1 DEF Contains
    <3>3. e.job # b[1].job
      BY <1>2, <2>2, <3>2 DEF Exclusive, b
    <3> QED
      BY <1>2, <1>3, <3>1, <3>3 DEF b
  <2> QED
    BY <2>1, <2>2
<1> QED
  BY <1>3

\* What one loop or several keep in their batches after a step that claims nothing.
LEMMA BatchesShrink ==
    ASSUME SchedulerInv, Exclusive, [Next]_vars, \A p \in Proc : ~ClaimDueJobs(p)
    PROVE  /\ Exclusive'
           /\ \A r \in Proc : \A e : Contains(batch'[r], e) => Contains(batch[r], e)
<1>0. batch \in [Proc -> Seq(Entries)]
  BY DEF SchedulerInv
<1>1. \A r \in Proc : \/ batch'[r] = batch[r]
                      \/ batch'[r] = <<>>
                      \/ batch[r] # <<>> /\ batch'[r] = Tail(batch[r])
  <2>1. CASE Users \/ \E j \in Job : Clock(j)
    BY <2>1, TimesAreGivenOnce
  <2>2. ASSUME NEW p \in Proc, Loop(p) \/ Crash(p)
        PROVE  \A r \in Proc : \/ batch'[r] = batch[r]
                               \/ batch'[r] = <<>>
                               \/ batch[r] # <<>> /\ batch'[r] = Tail(batch[r])
    <3>1. CASE StartRun(p)
      BY <1>0, <3>1 DEF StartRun
    <3>2. ASSUME NEW o \in Outcome, FinishRun(p, o)
          PROVE  \A r \in Proc : \/ batch'[r] = batch[r]
                                 \/ batch'[r] = <<>>
                                 \/ batch[r] # <<>> /\ batch'[r] = Tail(batch[r])
      <4>1. batch[p] # <<>>
        BY <3>2 DEF FinishRun, SchedulerInv
      <4>2. \/ batch' = [batch EXCEPT ![p] = Tail(batch[p])]
            \/ batch' = [batch EXCEPT ![p] = <<>>]
        BY <3>2 DEF FinishRun
      <4> QED
        BY <1>0, <4>1, <4>2
    <3>3. CASE Crash(p)
      BY <1>0, <3>3 DEF Crash
    <3> QED
      BY <2>2, <3>1, <3>2, <3>3 DEF Loop
  <2>3. CASE UNCHANGED vars
    BY <2>3 DEF vars
  <2> QED
    BY <2>1, <2>2, <2>3 DEF Next
<1> QED
  BY <1>0, <1>1, ShrunkBatches

\* What a tick claims: times that have passed, each job once.
LEMMA ClaimedBatch ==
    ASSUME SchedulerInv, NEW p \in Proc, ClaimDueJobs(p)
    PROVE  /\ \A r \in Proc \ {p} : batch'[r] = batch[r]
           /\ \A i \in 1..Len(batch'[p]) : Contains(passed, batch'[p][i])
           /\ \A i, k \in 1..Len(batch'[p]) : batch'[p][i].job = batch'[p][k].job => i = k
<1>1. Times(passed) /\ Batch \in Nat
  BY SchedulerAssumption DEF SchedulerInv
<1>2. /\ Claims \in Seq(Entries)
      /\ \A e : Contains(Claims, e) => Contains(passed, e)
      /\ \A i, k \in 1..Len(Claims) : Claims[i].job = Claims[k].job => i = k
  BY <1>1, ClaimsAreTimes
<1> DEFINE b == Prefix(Claims, Batch)
<1>3. \A i \in 1..Len(b) : i \in 1..Len(Claims) /\ b[i] = Claims[i]
  BY <1>1, <1>2, PrefixElements
<1>4. batch' = [batch EXCEPT ![p] = b] /\ batch \in [Proc -> Seq(Entries)]
  BY DEF ClaimDueJobs, SchedulerInv
<1> HIDE DEF b
<1>5. batch'[p] = b /\ \A r \in Proc \ {p} : batch'[r] = batch[r]
  BY <1>4
<1>6. \A i \in 1..Len(Claims) : Contains(passed, Claims[i])
  BY <1>2 DEF Contains
<1> QED
  BY <1>2, <1>3, <1>5, <1>6

\* With one loop, a batch is claimed when there is no other.
LEMMA OneLoopExcludes ==
    ASSUME \A p, q \in Proc : p = q, SchedulerInv, Exclusive, [Next]_vars
    PROVE  Exclusive'
<1>1. ASSUME NEW p \in Proc, ClaimDueJobs(p) PROVE Exclusive'
  BY <1>1, ClaimedBatch DEF Exclusive
<1> QED
  BY <1>1, BatchesShrink

\* A one-shot job that has succeeded is not among the claims for its time.
Unclaimed ==
    \A j \in succeeded : row[j] = "At" =>
        \A p \in Proc : ~Contains(batch[p], Entry(j, "Due"))

\* As long as the loops do not claim the same job, they leave it so.
LEMMA UnclaimedStep == SpentInv /\ Exclusive /\ Unclaimed /\ [Next]_vars => Unclaimed'
<1> SUFFICES ASSUME SpentInv, Exclusive, Unclaimed, [Next]_vars PROVE Unclaimed'
  OBVIOUS
<1>0. SchedulerInv /\ \A j, w : Entry(j, w).job = j
  BY DEF SpentInv, Entry
<1>1. ASSUME NEW p \in Proc, ClaimDueJobs(p) PROVE Unclaimed'
  <2>1. /\ \A r \in Proc \ {p} : batch'[r] = batch[r]
        /\ \A e : Contains(batch'[p], e) => Contains(passed, e)
    BY <1>0, <1>1, ClaimedBatch DEF Contains
  <2>2. UNCHANGED <<row, succeeded>>
    BY <1>1 DEF ClaimDueJobs
  <2>3. \A j \in succeeded : row[j] = "At" => ~Contains(passed, Entry(j, "Due"))
    BY DEF SpentInv, HasTime
  <2> QED
    BY <2>1, <2>2, <2>3 DEF Unclaimed
<1>2. CASE \A p \in Proc : ~ClaimDueJobs(p)
  <2>1. \A r \in Proc : \A e : Contains(batch'[r], e) => Contains(batch[r], e)
    BY <1>0, <1>2, BatchesShrink
  <2>2. CASE Users \/ \E j \in Job : Clock(j)
    <3>1. \A j \in succeeded' : j \in succeeded /\ (row'[j] = "At" => row[j] = "At")
      BY <1>0, <2>2, TimesAreGivenOnce
    <3> QED
      BY <2>1, <3>1 DEF Unclaimed
  <2>3. CASE UNCHANGED <<row, succeeded>>
    BY <2>1, <2>3 DEF Unclaimed
  <2>4. ASSUME NEW p \in Proc, NEW o \in Outcome, FinishRun(p, o) PROVE Unclaimed'
    <3>1. CASE Finishes(Head(batch[p]).job, o)
      <4>1. /\ row' = row /\ succeeded' \subseteq succeeded \cup {Head(batch[p]).job}
            /\ batch' = [batch EXCEPT ![p] = Tail(batch[p])]
            /\ batch[p] # <<>>
        BY <1>0, <2>4, <3>1 DEF FinishRun, SchedulerInv
      <4>2. \A r \in Proc : \A e : Contains(batch'[r], e) =>
                Contains(batch[r], e) /\ e.job # Head(batch[p]).job
        BY <1>0, <4>1, FinishTakesClaim DEF SchedulerInv
      <4> QED
        BY <1>0, <4>1, <4>2 DEF Unclaimed
    <3>2. CASE ~Finishes(Head(batch[p]).job, o)
      BY <2>3, <2>4, <3>2 DEF FinishRun
    <3> QED
      BY <3>1, <3>2
  <2>5. ASSUME NEW p \in Proc, Loop(p) \/ Crash(p) PROVE Unclaimed'
    <3>1. CASE StartRun(p) \/ Crash(p)
      BY <2>3, <3>1 DEF StartRun, Crash
    <3> QED
      BY <1>2, <2>4, <2>5, <3>1 DEF Loop
  <2> QED
    BY <2>2, <2>3, <2>5 DEF Next, vars
<1> QED
  BY <1>1, <1>2

\* So no loop starts it for its time.
LEMMA UnclaimedIsNotRun ==
    SchedulerInv /\ Unclaimed =>
        [\A p \in Proc, j \in Job :
            Starts(p, j, "Due") /\ row[j] = "At" => j \notin succeeded]_vars
<1> SUFFICES ASSUME SchedulerInv, Unclaimed, NEW p \in Proc, NEW j \in Job, Starts(p, j, "Due"),
                    row[j] = "At", j \in succeeded
             PROVE  FALSE
  OBVIOUS
<1>1. batch[p] \in Seq(Entries) /\ batch[p] # <<>> /\ Head(batch[p]) = Entry(j, "Due")
  BY DEF Starts, StartRun, SchedulerInv
<1>2. 1 \in 1..Len(batch[p]) /\ batch[p][1] = Entry(j, "Due")
  BY <1>1
<1> QED
  BY <1>2 DEF Unclaimed, Contains

\* The loops start without claims.
LEMMA NothingClaimed == Init => SpentInv /\ Exclusive /\ Unclaimed
<1>1. \A e : ~Contains(<<>>, e)
  BY DEF Contains
<1> QED
  BY <1>1, SchedulerInitInv DEF Init, SpentInv, Exclusive, Unclaimed

\* If a single loop works on the database, a one-shot job that has succeeded is never
\* started for its time again (due_one_shot_job_fires_once), for any crashes,
\* pauses, expired leases and requests to run now.
THEOREM OneShotRunsOnce ==
    ASSUME \A p, q \in Proc : p = q
    PROVE  SafetySpec => OneShotFiresOnce
<1> DEFINE Inv == SpentInv /\ Exclusive /\ Unclaimed
<1>1. Init => Inv
  BY NothingClaimed
<1>2. Inv /\ [Next]_vars => Inv'
  BY SpentStep, UnclaimedStep, OneLoopExcludes DEF SpentInv
<1>3. Inv => [\A p \in Proc, j \in Job :
                Starts(p, j, "Due") /\ row[j] = "At" => j \notin succeeded]_vars
  BY UnclaimedIsNotRun DEF SpentInv
<1> HIDE DEF Inv
<1> QED
  BY <1>1, <1>2, <1>3, PTL DEF SafetySpec, OneShotFiresOnce
=============================================================================
