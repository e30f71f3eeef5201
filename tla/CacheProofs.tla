---------------------------- MODULE CacheProofs -----------------------------
(***************************************************************************)
(* The member cache (MemberCache), for every set of limits, addresses and  *)
(* concurrent requests and every time to live: its types, and that nothing *)
(* older than what the stream announced is served.                         *)
(***************************************************************************)
EXTENDS MemberCache, SequenceTheorems, TLAPS

Announcements == [Keys -> Versions]
Jobs == {Scan, DelList} \cup {DelSummary(a) : a \in Addresses} \cup {Notify(v) : v \in Announcements}

\* What a folder has left to do: the announcement comes last, and a SCAN first,
\* with the DEL of what it finds right behind it.
Ordered(js) ==
    \A i \in 1..Len(js) :
        /\ js[i].op = "notify" <=> i = Len(js)
        /\ js[i] = Scan => i = 1 /\ Len(js) >= 2 /\ js[2] = DelList

\* Job j is going to delete key k, when the last SCAN of its folder found `found`.
Deletes(found, j, k) ==
    \/ j = Scan /\ k \in ListKeys
    \/ j = DelList /\ k \in found
    \/ \E a \in Addresses : j = DelSummary(a) /\ k = memberSummaryCacheKey(a)

\* A cached entry that no excuse covers is as new as what was announced, and each
\* announcement under way of something newer comes after a deletion of the entry.
Fresh(k) ==
    redis[k] # Absent /\ k \notin excused =>
        /\ told[k] <= redis[k].value
        /\ \A f \in Folders : \A i \in 1..Len(todo[f]) :
             todo[f][i].op = "notify" /\ todo[f][i].versions[k] > redis[k].value
                => \E j \in 1..Len(todo[f]) : Deletes(scanned[f], todo[f][j], k)

CacheInv ==
    /\ TypeOK
    /\ todo \in [Folders -> Seq(Jobs)] /\ \A f \in Folders : Ordered(todo[f])
    /\ \A k \in Keys : db[k] <= commits /\ told[k] <= db[k]
    /\ \A f \in Folders : \A i \in 1..Len(todo[f]) :
          todo[f][i].op = "notify" => \A k \in Keys : todo[f][i].versions[k] <= db[k]
    /\ \A k \in Keys : Fresh(k)

-----------------------------------------------------------------------------
\* Jobs and lists of jobs.

\* A job is told by its op.
LEMMA JobOps ==
    ASSUME NEW j \in Jobs
    PROVE  /\ j.op \in Ops
           /\ j.op = "scan" <=> j = Scan
           /\ j.op = "delList" <=> j = DelList
           /\ j.op = "delSummary" <=> \E a \in Addresses : j = DelSummary(a)
           /\ j.op = "notify" <=> \E v \in Announcements : j = Notify(v)
           /\ j.op = "notify" => j.versions \in Announcements
  BY DEF Jobs, Scan, DelList, DelSummary, Notify, Ops

\* What is left of a list without its first n elements.
LEMMA Dropped ==
    ASSUME NEW S, NEW s \in Seq(S), NEW n \in 1..Len(s)
    PROVE  /\ SubSeq(s, n + 1, Len(s)) \in Seq(S)
           /\ Len(SubSeq(s, n + 1, Len(s))) = Len(s) - n
           /\ \A i \in 1..(Len(s) - n) : SubSeq(s, n + 1, Len(s))[i] = s[n + i]
<1>1. Len(s) \in Nat /\ \A i \in 1..Len(s) : s[i] \in S
  BY LenProperties, ElementOfSeq
<1>2. n + 1 \in Int /\ Len(s) \in Int /\ \A i \in (n + 1)..Len(s) : s[i] \in S
  BY <1>1
<1>3. /\ SubSeq(s, n + 1, Len(s)) \in Seq(S)
      /\ Len(SubSeq(s, n + 1, Len(s))) = IF n + 1 <= Len(s) THEN Len(s) - (n + 1) + 1 ELSE 0
      /\ \A i \in 1..(Len(s) - (n + 1) + 1) : SubSeq(s, n + 1, Len(s))[i] = s[n + 1 + i - 1]
  BY <1>2, SubSeqProperties
<1> QED
  BY <1>1, <1>3

\* Tail drops one.
LEMMA TailDrops ==
    ASSUME NEW S, NEW s \in Seq(S), s # <<>>
    PROVE  /\ 1 \in 1..Len(s) /\ Head(s) = s[1] /\ Tail(s) = SubSeq(s, 2, Len(s))
           /\ Tail(s) \in Seq(S) /\ Len(Tail(s)) = Len(s) - 1
           /\ \A i \in 1..(Len(s) - 1) : Tail(s)[i] = s[i + 1]
<1>1. Len(s) \in Nat /\ Len(s) # 0
  BY LenProperties, EmptySeq
<1> QED
  BY <1>1, HeadTailProperties

\* A list stays in order as jobs are done or lost.
LEMMA OrderedRest ==
    ASSUME NEW s \in Seq(Jobs), Ordered(s), NEW n \in 1..Len(s),
           NEW d \in Seq(Jobs), Len(d) = Len(s) - n, \A i \in 1..Len(d) : d[i] = s[n + i]
    PROVE  Ordered(d)
<1>1. Len(s) \in Nat /\ Len(d) \in Nat
  BY LenProperties
<1> QED
  BY <1>1 DEF Ordered

\* WillDelete, job by job.
LEMMA WillDeleteMeans ==
    ASSUME NEW f, NEW js \in Seq(Jobs), NEW k
    PROVE  k \in WillDelete(f, js) <=> k \in Keys /\ \E i \in 1..Len(js) : Deletes(scanned[f], js[i], k)
<1>1. DOMAIN js = 1..Len(js)
  BY LenProperties
<1> QED
  BY <1>1 DEF WillDelete, Deletes

\* What follows a commit: jobs in order, ending in the announcement.
Plan(js, v) == js \in Seq(Jobs) /\ Len(js) >= 1 /\ js[Len(js)] = Notify(v) /\ Ordered(js)

\* The two lists that begin with a SCAN, and the announcement alone.
LEMMA PlanForms ==
    ASSUME NEW v \in Announcements, NEW js \in Seq(Jobs),
           \/ Len(js) = 1 /\ js[1] = Notify(v)
           \/ Len(js) = 3 /\ js[1] = Scan /\ js[2] = DelList /\ js[3] = Notify(v)
           \/ /\ Len(js) = 4 /\ js[1] = Scan /\ js[2] = DelList /\ js[4] = Notify(v)
              /\ \E a \in Addresses : js[3] = DelSummary(a)
    PROVE  Plan(js, v)
<1>1. /\ Notify(v).op = "notify" /\ Scan.op = "scan" /\ DelList.op = "delList"
      /\ \A a \in Addresses : DelSummary(a).op = "delSummary"
  BY DEF Notify, Scan, DelList, DelSummary
<1>2. CASE Len(js) = 1 /\ js[1] = Notify(v)
  <2>1. \A i \in 1..Len(js) : i = 1
    BY <1>2
  <2> QED
    BY <1>1, <1>2, <2>1 DEF Plan, Ordered
<1>3. CASE Len(js) = 3 /\ js[1] = Scan /\ js[2] = DelList /\ js[3] = Notify(v)
  <2>1. \A i \in 1..Len(js) : i = 1 \/ i = 2 \/ i = 3
    BY <1>3
  <2> QED
    BY <1>1, <1>3, <2>1 DEF Plan, Ordered
<1>4. ASSUME NEW a \in Addresses, Len(js) = 4, js[1] = Scan, js[2] = DelList, js[4] = Notify(v),
             js[3] = DelSummary(a)
      PROVE  Plan(js, v)
  <2>1. \A i \in 1..Len(js) : i = 1 \/ i = 2 \/ i = 3 \/ i = 4
    BY <1>4
  <2> QED
    BY <1>1, <1>4, <2>1 DEF Plan, Ordered
<1> QED
  BY <1>2, <1>3, <1>4

\* The list <<x, y>> \o mid \o <<z>>, element by element.
LEMMA Between ==
    ASSUME NEW S, NEW x \in S, NEW y \in S, NEW mid \in Seq(S), NEW z \in S
    PROVE  LET js == <<x, y>> \o mid \o <<z>>
           IN  /\ js \in Seq(S) /\ Len(js) = Len(mid) + 3 /\ js[1] = x /\ js[2] = y
               /\ js[Len(mid) + 3] = z /\ \A i \in 1..Len(mid) : js[i + 2] = mid[i]
<1> DEFINE s == <<x, y>>
           t == s \o mid
           js == t \o <<z>>
<1>1. s \in Seq(S) /\ Len(s) = 2 /\ s[1] = x /\ s[2] = y /\ <<z>> \in Seq(S) /\ Len(<<z>>) = 1 /\ <<z>>[1] = z
  OBVIOUS
<1>2. Len(mid) \in Nat
  BY LenProperties
<1> HIDE DEF s
<1>3. /\ t \in Seq(S) /\ Len(t) = Len(mid) + 2
      /\ \A i \in 1..(Len(mid) + 2) : t[i] = IF i <= 2 THEN s[i] ELSE mid[i - 2]
  <2>1. /\ t \in Seq(S) /\ Len(t) = Len(s) + Len(mid)
        /\ \A i \in 1..Len(s) + Len(mid) : t[i] = IF i <= Len(s) THEN s[i] ELSE mid[i - Len(s)]
    BY <1>1, ConcatProperties
  <2> QED
    BY <1>1, <1>2, <2>1
<1> HIDE DEF t
<1>4. /\ js \in Seq(S) /\ Len(js) = Len(mid) + 3
      /\ \A i \in 1..(Len(mid) + 3) : js[i] = IF i <= Len(mid) + 2 THEN t[i] ELSE <<z>>[i - (Len(mid) + 2)]
  <2> DEFINE u == <<z>>
  <2> HIDE DEF u
  <2>1. u \in Seq(S) /\ Len(u) = 1 /\ js = t \o u
    BY <1>1 DEF u
  <2>2. /\ js \in Seq(S) /\ Len(js) = Len(t) + Len(u)
        /\ \A i \in 1..Len(t) + Len(u) : js[i] = IF i <= Len(t) THEN t[i] ELSE u[i - Len(t)]
    BY <1>3, <2>1, ConcatProperties
  <2> HIDE DEF js
  <2>3. /\ js \in Seq(S) /\ Len(js) = Len(mid) + 3
        /\ \A i \in 1..(Len(mid) + 3) : js[i] = IF i <= Len(mid) + 2 THEN t[i] ELSE u[i - (Len(mid) + 2)]
    BY <1>2, <1>3, <2>1, <2>2
  <2> QED
    BY <2>3 DEF u
<1> HIDE DEF js
<1>5. /\ js \in Seq(S) /\ Len(js) = Len(mid) + 3 /\ js[1] = x /\ js[2] = y
      /\ js[Len(mid) + 3] = z /\ \A i \in 1..Len(mid) : js[i + 2] = mid[i]
  <2>1. js[1] = t[1] /\ js[2] = t[2] /\ t[1] = x /\ t[2] = y
    BY <1>1, <1>2, <1>3, <1>4
  <2>2. js[Len(mid) + 3] = z
    <3>1. Len(mid) + 3 \in 1..(Len(mid) + 3) /\ ~(Len(mid) + 3 <= Len(mid) + 2)
          /\ Len(mid) + 3 - (Len(mid) + 2) = 1
      BY <1>2
    <3>2. js[Len(mid) + 3] = <<z>>[Len(mid) + 3 - (Len(mid) + 2)]
      BY <1>4, <3>1
    <3> QED
      BY <1>1, <3>1, <3>2
  <2>3. ASSUME NEW i \in 1..Len(mid) PROVE js[i + 2] = mid[i]
    <3>1. i + 2 \in 1..(Len(mid) + 2) /\ i + 2 \in 1..(Len(mid) + 3) /\ ~(i + 2 <= 2) /\ i + 2 - 2 = i
      BY <1>2
    <3> QED
      BY <1>3, <1>4, <3>1
  <2> QED
    BY <1>4, <2>1, <2>2, <2>3
<1> QED
  BY <1>5 DEF js, t, s

LEMMA Plans ==
    ASSUME NEW v \in Announcements
    PROVE  /\ \A ev \in Event : Plan(AfterPage(ev, v), v) /\ Plan(AfterReplay(ev, v), v)
           /\ Plan(AfterReindex(v), v)
<1>1. Notify(v) \in Jobs /\ Scan \in Jobs /\ DelList \in Jobs /\ \A a \in Addresses : DelSummary(a) \in Jobs
  BY DEF Jobs
<1>2. Plan(<<Scan, DelList>> \o <<>> \o <<Notify(v)>>, v)
  <2>1. <<>> \in Seq(Jobs) /\ Len(<<>>) = 0
    BY EmptySeq
  <2> DEFINE js == <<Scan, DelList>> \o <<>> \o <<Notify(v)>>
  <2>2. js \in Seq(Jobs) /\ Len(js) = 3 /\ js[1] = Scan /\ js[2] = DelList /\ js[3] = Notify(v)
    BY <1>1, <2>1, Between
  <2> HIDE DEF js
  <2>3. Plan(js, v)
    BY <2>2, PlanForms
  <2> QED
    BY <2>3 DEF js
<1>3. ASSUME NEW a \in Addresses PROVE Plan(<<Scan, DelList>> \o <<DelSummary(a)>> \o <<Notify(v)>>, v)
  <2>1. <<DelSummary(a)>> \in Seq(Jobs) /\ Len(<<DelSummary(a)>>) = 1 /\ <<DelSummary(a)>>[1] = DelSummary(a)
    BY <1>1
  <2> DEFINE mid == <<DelSummary(a)>>
             js == <<Scan, DelList>> \o mid \o <<Notify(v)>>
  <2> HIDE DEF mid
  <2>2. /\ js \in Seq(Jobs) /\ Len(js) = Len(mid) + 3 /\ js[1] = Scan /\ js[2] = DelList
        /\ js[Len(mid) + 3] = Notify(v) /\ \A i \in 1..Len(mid) : js[i + 2] = mid[i]
    BY <1>1, <2>1, Between DEF mid
  <2> HIDE DEF js
  <2>3. Len(mid) = 1 /\ mid[1] = DelSummary(a)
    BY <2>1 DEF mid
  <2>4. Plan(js, v)
    BY <2>2, <2>3, PlanForms
  <2> QED
    BY <2>4 DEF js, mid
<1>4. Plan(<<Notify(v)>>, v)
  <2>1. <<Notify(v)>> \in Seq(Jobs) /\ Len(<<Notify(v)>>) = 1 /\ <<Notify(v)>>[1] = Notify(v)
    BY <1>1
  <2> QED
    BY <2>1, PlanForms
<1>5. Plan(AfterReindex(v), v)
  <2>1. /\ AfterReindex(v) \in Seq(Jobs) /\ Len(AfterReindex(v)) = 3 /\ AfterReindex(v)[1] = Scan
        /\ AfterReindex(v)[2] = DelList /\ AfterReindex(v)[3] = Notify(v)
    BY <1>1 DEF AfterReindex
  <2> QED
    BY <2>1, PlanForms
<1>6. ASSUME NEW ev \in Event PROVE Plan(AfterPage(ev, v), v) /\ Plan(AfterReplay(ev, v), v)
  <2>1. ev.of \in Addresses
    BY DEF Event
  <2>2. \/ AfterPage(ev, v) = <<Notify(v)>>
        \/ AfterPage(ev, v) = <<Scan, DelList>> \o <<>> \o <<Notify(v)>>
        \/ AfterPage(ev, v) = <<Scan, DelList>> \o <<DelSummary(ev.of)>> \o <<Notify(v)>>
    BY DEF AfterPage
  <2>3. \/ AfterReplay(ev, v) = <<Scan, DelList>> \o <<>> \o <<Notify(v)>>
        \/ AfterReplay(ev, v) = <<Scan, DelList>> \o <<DelSummary(ev.of)>> \o <<Notify(v)>>
    BY DEF AfterReplay
  <2> QED
    BY <1>2, <1>3, <1>4, <2>1, <2>2, <2>3, Zenon
<1> QED
  BY <1>5, <1>6

\* What an announcement says of a key.
LEMMA NotifyVersions == \A v : Notify(v).versions = v
  BY DEF Notify

-----------------------------------------------------------------------------
\* The invariant.

\* A key is one of the list's or one member's.
LEMMA KeyForms == ListKeys \subseteq Keys /\ \A a \in Addresses : memberSummaryCacheKey(a) \in Keys
  BY DEF Keys

LEMMA CacheInvInit ==
    ASSUME MaxCommits \in Nat, MaxFaults \in Nat
    PROVE  Init => CacheInv
<1> SUFFICES ASSUME Init PROVE CacheInv
  OBVIOUS
<1>1. 0 \in Versions /\ 0 \in 0..MaxFaults
  BY DEF Versions
<1>2. \A f \in Folders : todo[f] = <<>> /\ Len(todo[f]) = 0
  BY DEF Init
<1>3. todo \in [Folders -> Seq(Jobs)]
  BY EmptySeq DEF Init
<1>4. TypeOK
  BY <1>1, <1>2, <1>3 DEF Init, TypeOK, Versions
<1> QED
  BY <1>2, <1>3, <1>4 DEF Init, CacheInv, Ordered, Fresh

\* A step that leaves everything but the requests under way as it is.
LEMMA ReaderStep ==
    ASSUME CacheInv, reader' \in [Readers -> Lookups \cup {Idle}], faults' \in 0..MaxFaults,
           UNCHANGED <<db, redis, todo, scanned, commits, told, excused>>
    PROVE  CacheInv'
<1>1. TypeOK'
  BY DEF CacheInv, TypeOK
<1>2. \A k \in Keys : Fresh(k)'
  BY DEF CacheInv, Fresh
<1> QED
  BY <1>1, <1>2 DEF CacheInv

\* A commit: the changed keys that are cached are going to be deleted, or excused.
LEMMA CommitStep ==
    ASSUME CacheInv, MaxCommits \in Nat, NEW f \in Folders, NEW keys \in SUBSET Keys, NEW jobs,
           Raised(keys) \in Announcements => Plan(jobs, Raised(keys)), Commit(f, keys, jobs)
    PROVE  CacheInv'
<1>0. /\ TypeOK /\ commits \in Nat /\ commits < MaxCommits /\ commits' = commits + 1
      /\ UNCHANGED <<redis, reader, scanned, faults, told>>
      /\ db' = [k \in Keys |-> IF k \in keys THEN db[k] + 1 ELSE db[k]]
      /\ todo' = [todo EXCEPT ![f] = jobs]
      /\ excused' = excused \cup {k \in keys \ WillDelete(f, jobs) : redis[k] # Absent}
  BY DEF CacheInv, TypeOK, Commit
<1>1. \A k \in Keys : db[k] \in Nat /\ db[k] <= commits
  BY DEF CacheInv, TypeOK, Versions
<1>2. \A k \in Keys : db'[k] \in Nat /\ db[k] <= db'[k] /\ db'[k] <= commits' /\ (k \in keys => db'[k] = db[k] + 1)
  BY <1>0, <1>1
<1>3. Raised(keys) \in Announcements
  BY <1>0, <1>1 DEF Raised, Announcements, Versions
<1>4. Plan(jobs, Raised(keys))
  BY <1>3
<1>5. /\ todo'[f] = jobs /\ \A g \in Folders : g # f => todo'[g] = todo[g]
      /\ todo' \in [Folders -> Seq(Jobs)] /\ \A g \in Folders : Ordered(todo'[g])
  BY <1>0, <1>4 DEF CacheInv, Plan
<1>6. TypeOK'
  <2>1. \A g \in Folders : \A i \in DOMAIN todo'[g] : todo'[g][i].op \in Ops
    BY <1>5, LenProperties, ElementOfSeq, JobOps
  <2>2. db' \in [Keys -> Versions]
    BY <1>0, <1>2 DEF Versions
  <2> QED
    BY <1>0, <2>1, <2>2 DEF TypeOK
<1>7. \A i \in 1..Len(jobs) : jobs[i].op = "notify" => jobs[i] = Notify(Raised(keys))
  BY <1>4 DEF Plan, Ordered
<1>8. \A g \in Folders : \A i \in 1..Len(todo'[g]) :
          todo'[g][i].op = "notify" => \A k \in Keys : todo'[g][i].versions[k] <= db'[k]
  <2> SUFFICES ASSUME NEW g \in Folders, NEW i \in 1..Len(todo'[g]), todo'[g][i].op = "notify", NEW k \in Keys
               PROVE  todo'[g][i].versions[k] <= db'[k]
    OBVIOUS
  <2>1. CASE g = f
    <3>1. todo'[g][i].versions[k] = IF k \in keys THEN db[k] + 1 ELSE 0
      <4>1. todo'[g][i] = Notify(Raised(keys))
        BY <1>5, <1>7, <2>1
      <4>2. todo'[g][i].versions = Raised(keys)
        BY <4>1, NotifyVersions
      <4> QED
        BY <4>2 DEF Raised
    <3> QED
      BY <1>2, <3>1
  <2>2. CASE g # f
    <3>1. todo[g][i].op = "notify" /\ todo'[g][i] = todo[g][i] /\ todo[g] \in Seq(Jobs) /\ i \in 1..Len(todo[g])
      BY <1>5, <2>2 DEF CacheInv
    <3>a. todo[g][i] \in Jobs
      BY <3>1, ElementOfSeq
    <3>b. todo[g][i].versions \in Announcements
      BY <3>1, <3>a, JobOps
    <3>2. todo[g][i].versions[k] \in Nat /\ todo[g][i].versions[k] <= db[k]
      BY <3>1, <3>b DEF CacheInv, Announcements, Versions
    <3> QED
      BY <1>1, <1>2, <3>1, <3>2
  <2> QED
    BY <2>1, <2>2
<1>9. ASSUME NEW k \in Keys PROVE Fresh(k)'
  <2> SUFFICES ASSUME redis[k] # Absent, k \notin excused'
               PROVE  /\ told[k] <= redis[k].value
                      /\ \A g \in Folders : \A i \in 1..Len(todo'[g]) :
                           todo'[g][i].op = "notify" /\ todo'[g][i].versions[k] > redis[k].value
                              => \E j \in 1..Len(todo'[g]) : Deletes(scanned[g], todo'[g][j], k)
    BY <1>0 DEF Fresh
  <2>1. Fresh(k) /\ k \notin excused /\ (k \in keys => k \in WillDelete(f, jobs))
    BY <1>0 DEF CacheInv
  <2>2. redis[k].value \in Nat
    BY <1>0 DEF TypeOK, Entries, Absent, Versions
  <2>3. \A i \in 1..Len(jobs) :
            jobs[i].op = "notify" /\ jobs[i].versions[k] > redis[k].value => \E j \in 1..Len(jobs) : Deletes(scanned[f], jobs[j], k)
    <3>1. CASE k \in keys
      BY <2>1, <3>1, <1>4, WillDeleteMeans DEF Plan
    <3>2. CASE k \notin keys
      <4>1. \A i \in 1..Len(jobs) : jobs[i].op = "notify" => jobs[i].versions[k] = 0
        BY <3>2, <1>7, NotifyVersions DEF Raised
      <4> QED
        BY <2>2, <4>1
    <3> QED
      BY <3>1, <3>2
  <2> QED
    BY <1>5, <2>1, <2>3 DEF Fresh
<1> QED
  BY <1>0, <1>2, <1>5, <1>6, <1>8, <1>9 DEF CacheInv, TypeOK, Versions

\* A folder's jobs are done or lost from the front.
LEMMA FewerJobs ==
    ASSUME CacheInv, NEW f \in Folders, NEW n \in 1..Len(todo[f]),
           todo' = [todo EXCEPT ![f] = SubSeq(todo[f], n + 1, Len(todo[f]))]
    PROVE  /\ todo' \in [Folders -> Seq(Jobs)] /\ \A g \in Folders : Ordered(todo'[g])
           /\ \A g \in Folders : \A i \in DOMAIN todo'[g] : todo'[g][i].op \in Ops
           /\ \A g \in Folders : g # f => todo'[g] = todo[g]
           /\ Len(todo[f]) \in Nat /\ Len(todo'[f]) = Len(todo[f]) - n
           /\ \A i \in 1..Len(todo'[f]) : todo'[f][i] = todo[f][n + i]
           /\ \A g \in Folders : \A i \in 1..Len(todo'[g]) : \E j \in 1..Len(todo[g]) : todo'[g][i] = todo[g][j]
<1>1. todo \in [Folders -> Seq(Jobs)] /\ todo[f] \in Seq(Jobs) /\ Len(todo[f]) \in Nat
  BY LenProperties DEF CacheInv
<1> DEFINE d == SubSeq(todo[f], n + 1, Len(todo[f]))
<1>2. d \in Seq(Jobs) /\ Len(d) = Len(todo[f]) - n /\ \A i \in 1..(Len(todo[f]) - n) : d[i] = todo[f][n + i]
  BY <1>1, Dropped
<1>3. todo'[f] = d /\ \A g \in Folders : g # f => todo'[g] = todo[g]
  BY <1>1
<1> HIDE DEF d
<1>4. Ordered(d)
  BY <1>1, <1>2, OrderedRest DEF CacheInv
<1>5. todo' \in [Folders -> Seq(Jobs)]
  BY <1>1, <1>2 DEF d
<1>6. \A g \in Folders : Ordered(todo'[g])
  BY <1>3, <1>4 DEF CacheInv
<1>7. \A g \in Folders : \A i \in DOMAIN todo'[g] : todo'[g][i].op \in Ops
  BY <1>5, LenProperties, ElementOfSeq, JobOps
<1>8. ASSUME NEW g \in Folders, NEW i \in 1..Len(todo'[g]) PROVE \E j \in 1..Len(todo[g]) : todo'[g][i] = todo[g][j]
  <2>1. CASE g = f
    <3>1. n + i \in 1..Len(todo[f]) /\ todo'[f][i] = todo[f][n + i]
      BY <1>1, <1>2, <1>3, <2>1
    <3> QED
      BY <2>1, <3>1
  <2>2. CASE g # f
    BY <1>3, <2>2
  <2> QED
    BY <2>1, <2>2
<1> QED
  BY <1>1, <1>2, <1>3, <1>5, <1>6, <1>7, <1>8

\* Jobs are lost: what they would have deleted is excused.
LEMMA LoseStep ==
    ASSUME CacheInv, MaxFaults \in Nat, NEW f \in Folders, NEW n \in 1..Len(todo[f]), Lose(f, n)
    PROVE  CacheInv'
<1> DEFINE lost == SubSeq(todo[f], 1, n)
<1>0. /\ TypeOK /\ faults' \in 0..MaxFaults /\ UNCHANGED <<db, redis, reader, scanned, commits, told>>
      /\ todo' = [todo EXCEPT ![f] = SubSeq(todo[f], n + 1, Len(todo[f]))]
      /\ excused' = excused \cup {k \in WillDelete(f, lost) : redis[k] # Absent}
  BY DEF CacheInv, TypeOK, Lose
<1>1. /\ todo' \in [Folders -> Seq(Jobs)] /\ \A g \in Folders : Ordered(todo'[g])
      /\ \A g \in Folders : \A i \in DOMAIN todo'[g] : todo'[g][i].op \in Ops
      /\ \A g \in Folders : g # f => todo'[g] = todo[g]
      /\ Len(todo[f]) \in Nat /\ Len(todo'[f]) = Len(todo[f]) - n
      /\ \A i \in 1..Len(todo'[f]) : todo'[f][i] = todo[f][n + i]
      /\ \A g \in Folders : \A i \in 1..Len(todo'[g]) : \E j \in 1..Len(todo[g]) : todo'[g][i] = todo[g][j]
  BY <1>0, FewerJobs
<1>2. lost \in Seq(Jobs) /\ Len(lost) = n /\ \A i \in 1..n : lost[i] = todo[f][i]
  <2>1. todo[f] \in Seq(Jobs)
    BY DEF CacheInv
  <2>2. 1 \in Int /\ n \in Int /\ \A i \in 1..n : todo[f][i] \in Jobs
    BY <1>1, <2>1, ElementOfSeq
  <2>3. /\ lost \in Seq(Jobs) /\ Len(lost) = IF 1 <= n THEN n - 1 + 1 ELSE 0
        /\ \A i \in 1..(n - 1 + 1) : lost[i] = todo[f][1 + i - 1]
    BY <2>2, SubSeqProperties
  <2> QED
    BY <1>1, <2>3
<1> HIDE DEF lost
<1>3. excused' \subseteq Keys
  BY <1>0 DEF TypeOK, WillDelete
<1>4. TypeOK'
  BY <1>0, <1>1, <1>3 DEF TypeOK
<1>5. ASSUME NEW k \in Keys PROVE Fresh(k)'
  <2> SUFFICES ASSUME redis[k] # Absent, k \notin excused'
               PROVE  /\ told[k] <= redis[k].value
                      /\ \A g \in Folders : \A i \in 1..Len(todo'[g]) :
                           todo'[g][i].op = "notify" /\ todo'[g][i].versions[k] > redis[k].value
                              => \E j \in 1..Len(todo'[g]) : Deletes(scanned[g], todo'[g][j], k)
    BY <1>0 DEF Fresh
  <2>1. Fresh(k) /\ k \notin excused /\ ~\E i \in 1..n : Deletes(scanned[f], todo[f][i], k)
    BY <1>0, <1>2, WillDeleteMeans DEF CacheInv
  <2>2. ASSUME NEW i \in 1..Len(todo'[f]), todo'[f][i].op = "notify", todo'[f][i].versions[k] > redis[k].value
        PROVE  \E j \in 1..Len(todo'[f]) : Deletes(scanned[f], todo'[f][j], k)
    <3>1. n + i \in 1..Len(todo[f]) /\ todo[f][n + i] = todo'[f][i]
      BY <1>1
    <3>2. PICK j \in 1..Len(todo[f]) : Deletes(scanned[f], todo[f][j], k)
      BY <2>1, <2>2, <3>1 DEF Fresh
    <3>3. j \notin 1..n
      BY <2>1, <3>2
    <3>4. j - n \in 1..Len(todo'[f]) /\ todo'[f][j - n] = todo[f][j]
      BY <1>1, <3>3
    <3> QED
      BY <3>2, <3>4
  <2> QED
    BY <1>1, <2>1, <2>2 DEF Fresh
<1> QED
  BY <1>0, <1>1, <1>4, <1>5 DEF CacheInv

\* A job is done: a SCAN leaves the list keys it found to the DEL behind it, a DEL
\* removes its keys, and the announcement finds nothing older left.
LEMMA DoJobStep ==
    ASSUME CacheInv, NEW f \in Folders, DoJob(f)
    PROVE  CacheInv'
<1> DEFINE job == Head(todo[f])
<1>0. TypeOK /\ todo[f] # <<>> /\ todo[f] \in Seq(Jobs) /\ UNCHANGED <<db, reader, commits, faults>>
  BY DEF CacheInv, DoJob
<1>1. /\ 1 \in 1..Len(todo[f]) /\ job = todo[f][1] /\ job \in Jobs
      /\ todo' = [todo EXCEPT ![f] = SubSeq(todo[f], 1 + 1, Len(todo[f]))]
  <2>1. /\ 1 \in 1..Len(todo[f]) /\ job = todo[f][1]
        /\ Tail(todo[f]) = SubSeq(todo[f], 1 + 1, Len(todo[f]))
    BY <1>0, TailDrops
  <2>2. job \in Jobs
    BY <1>0, <2>1, ElementOfSeq
  <2>3. todo' = [todo EXCEPT ![f] = Tail(todo[f])]
    BY DEF DoJob
  <2> QED
    BY <2>1, <2>2, <2>3
<1>2. /\ todo' \in [Folders -> Seq(Jobs)] /\ \A g \in Folders : Ordered(todo'[g])
      /\ \A g \in Folders : \A i \in DOMAIN todo'[g] : todo'[g][i].op \in Ops
      /\ \A g \in Folders : g # f => todo'[g] = todo[g]
      /\ Len(todo[f]) \in Nat /\ Len(todo'[f]) = Len(todo[f]) - 1
      /\ \A i \in 1..Len(todo'[f]) : todo'[f][i] = todo[f][1 + i]
      /\ \A g \in Folders : \A i \in 1..Len(todo'[g]) : \E j \in 1..Len(todo[g]) : todo'[g][i] = todo[g][j]
  BY <1>1, FewerJobs
<1>3. \A g \in Folders : \A i \in 1..Len(todo'[g]) :
          todo'[g][i].op = "notify" => \A k \in Keys : todo'[g][i].versions[k] <= db[k]
  BY <1>2 DEF CacheInv
\* What the first job does not delete, a later one does.
<1>4. ASSUME NEW k, NEW j \in 1..Len(todo[f]), Deletes(scanned[f], todo[f][j], k), ~Deletes(scanned[f], job, k)
      PROVE  \E i \in 1..Len(todo'[f]) : todo'[f][i] = todo[f][j]
  <2>1. j # 1
    BY <1>1, <1>4
  <2>2. j - 1 \in 1..Len(todo'[f]) /\ todo'[f][j - 1] = todo[f][j]
    BY <1>2, <2>1
  <2> QED
    BY <2>2
<1> HIDE DEF job
<1>5. CASE job.op = "scan"
  <2>1. /\ scanned' = [scanned EXCEPT ![f] = {k \in Matching : redis[k] # Absent}]
        /\ UNCHANGED <<redis, told, excused>>
    BY <1>5 DEF DoJob, job
  <2>2. job = Scan /\ Len(todo[f]) >= 2 /\ todo[f][2] = DelList
    BY <1>1, <1>5, JobOps DEF CacheInv, Ordered
  <2>3. 1 \in 1..Len(todo'[f]) /\ todo'[f][1] = DelList
    BY <1>2, <2>2
  <2>4. /\ scanned' \in [Folders -> SUBSET ListKeys] /\ \A g \in Folders : g # f => scanned'[g] = scanned[g]
        /\ scanned'[f] = {k \in ListKeys : redis[k] # Absent}
    BY <1>0, <2>1 DEF TypeOK, Matching
  <2>5. TypeOK'
    BY <1>0, <1>2, <2>1, <2>4 DEF TypeOK
  <2>6. ASSUME NEW k \in Keys, redis[k] # Absent, NEW j \in 1..Len(todo[f]), Deletes(scanned[f], todo[f][j], k)
        PROVE  \E i \in 1..Len(todo'[f]) : Deletes(scanned'[f], todo'[f][i], k)
    <3>1. CASE k \in ListKeys
      BY <2>3, <2>4, <2>6, <3>1 DEF Deletes
    <3>2. CASE k \notin ListKeys
      <4>1. ~Deletes(scanned[f], job, k) /\ \E a \in Addresses : todo[f][j] = DelSummary(a) /\ k = memberSummaryCacheKey(a)
        BY <1>0, <2>2, <2>6, <3>2, JobOps DEF Deletes, TypeOK, Scan, DelSummary, DelList
      <4> QED
        BY <1>4, <2>6, <4>1 DEF Deletes
    <3> QED
      BY <3>1, <3>2
  <2>7. ASSUME NEW k \in Keys PROVE Fresh(k)'
    <3> SUFFICES ASSUME redis[k] # Absent, k \notin excused
                 PROVE  /\ told[k] <= redis[k].value
                        /\ \A g \in Folders : \A i \in 1..Len(todo'[g]) :
                             todo'[g][i].op = "notify" /\ todo'[g][i].versions[k] > redis[k].value
                                => \E j \in 1..Len(todo'[g]) : Deletes(scanned'[g], todo'[g][j], k)
      BY <2>1 DEF Fresh
    <3>1. Fresh(k)
      BY DEF CacheInv
    <3>2. ASSUME NEW g \in Folders, NEW i \in 1..Len(todo'[g]),
                 todo'[g][i].op = "notify", todo'[g][i].versions[k] > redis[k].value
          PROVE  \E j \in 1..Len(todo'[g]) : Deletes(scanned'[g], todo'[g][j], k)
      <4>1. \E j \in 1..Len(todo[g]) : Deletes(scanned[g], todo[g][j], k)
        <5>1. PICK h \in 1..Len(todo[g]) : todo'[g][i] = todo[g][h]
          BY <1>2
        <5> QED
          BY <3>1, <3>2, <5>1 DEF Fresh
      <4>2. CASE g = f
        BY <2>6, <4>1, <4>2
      <4>3. CASE g # f
        BY <1>2, <2>4, <4>1, <4>3
      <4> QED
        BY <4>2, <4>3
    <3> QED
      BY <3>1, <3>2 DEF Fresh
  <2> QED
    BY <1>0, <1>2, <1>3, <2>1, <2>5, <2>7 DEF CacheInv
<1>6. ASSUME NEW K \in SUBSET Keys, Delete(K), \A k \in Keys : Deletes(scanned[f], job, k) => k \in K
      PROVE  CacheInv'
  <2>1. /\ redis' = [k \in Keys |-> IF k \in K THEN Absent ELSE redis[k]]
        /\ excused' = excused \ K /\ UNCHANGED <<scanned, told>>
    BY <1>6 DEF Delete
  <2>2. TypeOK'
    BY <1>0, <1>2, <2>1 DEF TypeOK
  <2>3. ASSUME NEW k \in Keys PROVE Fresh(k)'
    <3> SUFFICES ASSUME redis'[k] # Absent, k \notin excused'
                 PROVE  /\ told[k] <= redis'[k].value
                        /\ \A g \in Folders : \A i \in 1..Len(todo'[g]) :
                             todo'[g][i].op = "notify" /\ todo'[g][i].versions[k] > redis'[k].value
                                => \E j \in 1..Len(todo'[g]) : Deletes(scanned[g], todo'[g][j], k)
      BY <2>1 DEF Fresh
    <3>1. Fresh(k) /\ k \notin K /\ redis'[k] = redis[k] /\ k \notin excused /\ ~Deletes(scanned[f], job, k)
      BY <1>6, <2>1 DEF CacheInv
    <3>2. ASSUME NEW g \in Folders, NEW i \in 1..Len(todo'[g]),
                 todo'[g][i].op = "notify", todo'[g][i].versions[k] > redis[k].value
          PROVE  \E j \in 1..Len(todo'[g]) : Deletes(scanned[g], todo'[g][j], k)
      <4>1. \E j \in 1..Len(todo[g]) : Deletes(scanned[g], todo[g][j], k)
        <5>1. PICK h \in 1..Len(todo[g]) : todo'[g][i] = todo[g][h]
          BY <1>2
        <5> QED
          BY <3>1, <3>2, <5>1 DEF Fresh
      <4>2. CASE g = f
        BY <1>4, <3>1, <4>1, <4>2
      <4>3. CASE g # f
        BY <1>2, <4>1, <4>3
      <4> QED
        BY <4>2, <4>3
    <3> QED
      BY <3>1, <3>2 DEF Fresh
  <2> QED
    BY <1>0, <1>2, <1>3, <2>1, <2>2, <2>3 DEF CacheInv
<1>7. CASE job.op = "delList"
  <2>1. Delete(scanned[f]) /\ job = DelList /\ scanned[f] \in SUBSET Keys
    BY <1>0, <1>1, <1>7, JobOps, KeyForms DEF DoJob, job, TypeOK
  <2>2. \A k \in Keys : Deletes(scanned[f], job, k) => k \in scanned[f]
    BY <2>1 DEF Deletes, DelList, Scan, DelSummary
  <2> QED
    BY <1>6, <2>1, <2>2
<1>8. CASE job.op = "delSummary"
  <2>1. PICK a \in Addresses : job = DelSummary(a)
    BY <1>1, <1>8, JobOps
  <2>2. Delete({job.key}) /\ job.key = memberSummaryCacheKey(a) /\ {job.key} \in SUBSET Keys
    BY <1>8, <2>1, KeyForms DEF DoJob, job, DelSummary
  <2>3. \A k \in Keys : Deletes(scanned[f], job, k) => k \in {job.key}
    BY <2>1, <2>2 DEF Deletes, DelList, Scan, DelSummary
  <2> QED
    BY <1>6, <2>2, <2>3
<1>9. CASE job.op = "notify"
  <2>1. /\ told' = [k \in Keys |-> IF job.versions[k] > told[k] THEN job.versions[k] ELSE told[k]]
        /\ UNCHANGED <<redis, scanned, excused>>
    BY <1>9 DEF DoJob, job
  <2>2. job.versions \in [Keys -> Versions] /\ \A k \in Keys : job.versions[k] <= db[k]
    BY <1>1, <1>9, JobOps DEF CacheInv, Announcements
  <2>3. told' \in [Keys -> Versions]
    BY <1>0, <2>1, <2>2 DEF TypeOK
  <2>4. TypeOK'
    BY <1>0, <1>2, <2>1, <2>3 DEF TypeOK
  <2>5. Len(todo[f]) = 1 /\ Len(todo'[f]) = 0
    BY <1>1, <1>2, <1>9 DEF CacheInv, Ordered
  <2>6. \A k \in Keys : told'[k] <= db[k]
    BY <2>1, <2>2 DEF CacheInv
  <2>7. ASSUME NEW k \in Keys PROVE Fresh(k)'
    <3> SUFFICES ASSUME redis[k] # Absent, k \notin excused
                 PROVE  /\ told'[k] <= redis[k].value
                        /\ \A g \in Folders : \A i \in 1..Len(todo'[g]) :
                             todo'[g][i].op = "notify" /\ todo'[g][i].versions[k] > redis[k].value
                                => \E j \in 1..Len(todo'[g]) : Deletes(scanned[g], todo'[g][j], k)
      BY <2>1 DEF Fresh
    <3>1. Fresh(k)
      BY DEF CacheInv
    <3>2. \A j \in 1..Len(todo[f]) : todo[f][j] = job
      BY <1>1, <2>5
    <3>3. ~Deletes(scanned[f], job, k)
      BY <1>9 DEF Deletes, DelList, Scan, DelSummary
    <3>4. redis[k].value \in Nat /\ job.versions[k] \in Nat /\ told[k] \in Nat
      BY <1>0, <2>2 DEF TypeOK, Entries, Absent, Versions
    <3>5. told[k] <= redis[k].value /\ ~(job.versions[k] > redis[k].value)
      BY <1>1, <1>9, <3>1, <3>2, <3>3 DEF Fresh
    <3>6. told'[k] <= redis[k].value
      BY <2>1, <3>4, <3>5
    <3>7. ASSUME NEW g \in Folders, NEW i \in 1..Len(todo'[g]),
                 todo'[g][i].op = "notify", todo'[g][i].versions[k] > redis[k].value
          PROVE  \E j \in 1..Len(todo'[g]) : Deletes(scanned[g], todo'[g][j], k)
      <4>1. g # f
        BY <2>5
      <4> QED
        BY <1>2, <3>1, <3>7, <4>1 DEF Fresh
    <3> QED
      BY <3>6, <3>7
  <2> QED
    BY <1>0, <1>2, <1>3, <2>1, <2>4, <2>6, <2>7 DEF CacheInv
<1> QED
  BY <1>1, <1>5, <1>7, <1>8, <1>9, JobOps DEF Ops

\* A request stores what it read: as new as the database, or excused.
LEMMA SetStep ==
    ASSUME CacheInv, TTL \in Nat \ {0}, NEW r \in Readers, Set(r)
    PROVE  CacheInv'
<1> DEFINE k0 == reader[r].key
           v == reader[r].value
<1>1. k0 \in Keys /\ v \in Versions /\ v \in Nat /\ TypeOK
  <2>1. TypeOK /\ reader[r].step = "fetched" /\ reader[r] \in Lookups \cup {Idle}
    BY DEF CacheInv, TypeOK, Set
  <2>2. reader[r] \in [step : {"fetched"}, key : Keys, value : Versions]
    BY <2>1 DEF Lookups, Idle
  <2> QED
    BY <2>1, <2>2 DEF Versions
<1>2. /\ redis' = [redis EXCEPT ![k0] = [value |-> v, left |-> TTL]]
      /\ excused' = IF v < db[k0] THEN excused \cup {k0} ELSE excused \ {k0}
      /\ reader' = [reader EXCEPT ![r] = Idle]
      /\ UNCHANGED <<db, todo, scanned, commits, faults, told>>
  BY DEF Set
<1> HIDE DEF k0, v
<1>3. [value |-> v, left |-> TTL] \in Entries
  BY <1>1 DEF Entries
<1>4. TypeOK'
  BY <1>1, <1>2, <1>3 DEF TypeOK
<1>5. ASSUME NEW k \in Keys PROVE Fresh(k)'
  <2>1. CASE k # k0
    <3>1. redis'[k] = redis[k] /\ (k \in excused' <=> k \in excused) /\ Fresh(k)
      BY <1>1, <1>2, <2>1 DEF CacheInv, TypeOK
    <3> QED
      BY <1>2, <3>1 DEF Fresh
  <2>2. CASE k = k0
    <3> SUFFICES ASSUME k \notin excused' PROVE Fresh(k)'
      BY DEF Fresh
    <3>1. redis'[k].value = v /\ ~(v < db[k]) /\ db[k] \in Nat
      BY <1>1, <1>2, <2>2 DEF TypeOK, Versions
    <3>2. told[k] <= db[k] /\ told[k] \in Nat
      BY <1>1 DEF CacheInv, TypeOK, Versions
    <3>3. ASSUME NEW g \in Folders, NEW i \in 1..Len(todo[g]), todo[g][i].op = "notify"
          PROVE  ~(todo[g][i].versions[k] > v)
      <4>1. todo[g][i] \in Jobs
        BY ElementOfSeq DEF CacheInv
      <4>2. todo[g][i].versions[k] \in Nat /\ todo[g][i].versions[k] <= db[k]
        BY <3>3, <4>1, JobOps DEF CacheInv, Announcements, Versions
      <4> QED
        BY <1>1, <3>1, <4>2
    <3> QED
      BY <1>1, <1>2, <3>1, <3>2, <3>3 DEF Fresh
  <2> QED
    BY <2>1, <2>2
<1> QED
  BY <1>2, <1>4, <1>5 DEF CacheInv

\* An entry's age changes nothing else about it, and its end removes it.
LEMMA TickStep ==
    ASSUME CacheInv, TTL \in Nat \ {0}, Tick
    PROVE  CacheInv'
<1>1. /\ redis' = [k \in Keys |-> Aged(redis[k])] /\ excused' = {k \in excused : Aged(redis[k]) # Absent}
      /\ UNCHANGED <<db, reader, todo, scanned, commits, faults, told>> /\ TypeOK
  BY DEF CacheInv, Tick
<1>2. ASSUME NEW k \in Keys
      PROVE  /\ Aged(redis[k]) \in Entries \cup {Absent}
             /\ Aged(redis[k]) # Absent => redis[k] # Absent /\ Aged(redis[k]).value = redis[k].value
  <2>1. CASE redis[k] = Absent
    BY <2>1 DEF Aged, Absent
  <2>2. CASE redis[k] \in Entries
    BY <2>2 DEF Aged, Absent, Entries
  <2> QED
    BY <1>1, <2>1, <2>2 DEF TypeOK
<1>3. TypeOK'
  BY <1>1, <1>2 DEF TypeOK
<1>4. ASSUME NEW k \in Keys PROVE Fresh(k)'
  <2>1. Fresh(k) /\ redis'[k] = Aged(redis[k]) /\ (redis'[k] # Absent => (k \in excused' <=> k \in excused))
    BY <1>1 DEF CacheInv
  <2> QED
    BY <1>1, <1>2, <2>1 DEF Fresh
<1> QED
  BY <1>1, <1>3, <1>4 DEF CacheInv

LEMMA CacheInvStep ==
    ASSUME TTL \in Nat \ {0}, MaxCommits \in Nat, MaxFaults \in Nat
    PROVE  CacheInv /\ [Next]_vars => CacheInv'
<1> SUFFICES ASSUME CacheInv, [Next]_vars PROVE CacheInv'
  OBVIOUS
<1>0. TypeOK
  BY DEF CacheInv
<1>1. ASSUME NEW r \in Readers, NEW k \in Keys, Hit(r, k) PROVE CacheInv'
  BY <1>0, <1>1, ReaderStep DEF Hit, AfterHit, TypeOK
<1>2. ASSUME NEW r \in Readers, NEW k \in Keys, Miss(r, k) PROVE CacheInv'
  BY <1>0, <1>2, ReaderStep DEF Miss, TypeOK, Lookups
<1>3. ASSUME NEW r \in Readers, Fetch(r) PROVE CacheInv'
  <2>1. reader[r].key \in Keys /\ db[reader[r].key] \in Versions
    BY <1>0, <1>3 DEF Fetch, TypeOK, Lookups, Idle
  <2>2. reader' \in [Readers -> Lookups \cup {Idle}]
    BY <1>0, <1>3, <2>1 DEF Fetch, TypeOK, Lookups
  <2> QED
    BY <1>0, <1>3, <2>2, ReaderStep DEF Fetch, TypeOK
<1>4. ASSUME NEW r \in Readers, SetFails(r) PROVE CacheInv'
  BY <1>0, <1>4, ReaderStep DEF SetFails, TypeOK
<1>5. ASSUME NEW r \in Readers, Set(r) PROVE CacheInv'
  BY <1>5, SetStep
<1>6. CASE Tick
  BY <1>6, TickStep
<1>7. Poller \in Folders /\ Operator \in Folders
  BY DEF Folders
<1>8. ASSUME NEW ev \in Event, FoldEvent(ev) \/ ReplayEvent(ev) PROVE CacheInv'
  <2>1. Changes(ev) \in SUBSET Keys
    BY KeyForms DEF Changes, Event
  <2> QED
    BY <1>7, <1>8, <2>1, Plans, CommitStep DEF FoldEvent, ReplayEvent
<1>9. CASE Reindex
  BY <1>7, <1>9, Plans, CommitStep DEF Reindex
<1>10. ASSUME NEW f \in Folders, DoJob(f) PROVE CacheInv'
  BY <1>10, DoJobStep
<1>11. ASSUME NEW f \in Folders, JobFails(f) PROVE CacheInv'
  <2>1. todo[f] \in Seq(Jobs) /\ todo[f] # <<>> /\ Ordered(todo[f]) /\ Lose(f, Skipped(todo[f]))
    BY <1>11 DEF CacheInv, JobFails
  <2>2. Skipped(todo[f]) \in 1..Len(todo[f])
    BY <2>1, TailDrops, LenProperties DEF Skipped, Ordered
  <2> QED
    BY <2>1, <2>2, LoseStep
<1>12. ASSUME NEW f \in Folders, Crash(f) PROVE CacheInv'
  <2>1. todo[f] \in Seq(Jobs) /\ todo[f] # <<>> /\ Lose(f, Len(todo[f]))
    BY <1>12 DEF CacheInv, Crash
  <2>2. Len(todo[f]) \in 1..Len(todo[f])
    BY <2>1, TailDrops, LenProperties
  <2> QED
    BY <2>1, <2>2, LoseStep
<1>13. CASE UNCHANGED vars
  BY <1>0, <1>13, ReaderStep DEF vars, TypeOK
<1> QED
  BY <1>1, <1>2, <1>3, <1>4, <1>5, <1>6, <1>8, <1>9, <1>10, <1>11, <1>12, <1>13 DEF Next

(***************************************************************************)
(* The variables of the member cache keep their types.                     *)
(***************************************************************************)
THEOREM CacheTypeCorrect ==
    ASSUME TTL \in Nat \ {0}, MaxCommits \in Nat, MaxFaults \in Nat
    PROVE  Spec => []TypeOK
<1>1. CacheInv => TypeOK
  BY DEF CacheInv
<1> QED
  BY <1>1, CacheInvInit, CacheInvStep, PTL DEF Spec

(***************************************************************************)
(* Nothing older than what the stream announced is in the cache, but for   *)
(* the excused entries: commit, invalidate, announce, in whatever way two  *)
(* folders, their failures and any number of requests interleave           *)
(* (poller.ts 289-296, redis.ts 90-154).                                   *)
(***************************************************************************)
THEOREM CacheToldIsFresh ==
    ASSUME TTL \in Nat \ {0}, MaxCommits \in Nat, MaxFaults \in Nat
    PROVE  Spec => []ToldIsFresh
<1>1. CacheInv => ToldIsFresh
  <2> SUFFICES ASSUME CacheInv, NEW k \in Keys, redis[k] # Absent, redis[k].value < told[k]
               PROVE  k \in excused
    BY DEF ToldIsFresh
  <2>1. redis[k].value \in Nat /\ told[k] \in Nat
    BY DEF CacheInv, TypeOK, Entries, Absent, Versions
  <2> QED
    BY <2>1 DEF CacheInv, Fresh
<1> QED
  BY <1>1, CacheInvInit, CacheInvStep, PTL DEF Spec
=============================================================================
