----------------------------- MODULE StartupProofs -----------------------------
(***************************************************************************)
(* What the first command runs with, for any command line, files and       *)
(* environment: the rules of redaction have the names they should, for any *)
(* lists at GitHub, any page size, and any changes made there while psh    *)
(* reads (RulesAreRight); a run that goes on has a queue and a sink, and   *)
(* files it was told of (LoggerCanAlwaysWork); and each setting is what    *)
(* the strongest source that mentions it says (PrecedenceAlwaysHolds).     *)
(***************************************************************************)
EXTENDS Startup, SequenceTheorems, FiniteSetTheorems, WellFoundedInduction, TLAPS

USE PerPageAssumption, ListsAssumption

\* The secrets an endpoint lists that are not behind the reader.
Ahead(e) ==
  {server[e][i] : i \in {j \in DOMAIN server[e] :
                           e > endpoint \/ (e = endpoint /\ j > (page - 1) * PerPage)}}

\* The reader's place, and what the two lists hold.
Reader ==
  /\ endpoint \in Endpoints /\ page \in Nat \ {0}
  /\ fetch = "idle" => endpoint = 1 /\ page = 1 /\ collected = {}
  /\ fetch = "reading" => at = "discovery" /\ server \in [Endpoints -> Seq(Names)]
  /\ fetch = "reading" => \A e \in Endpoints : Range(server[e]) \subseteq listed

\* While nothing is deleted, each name that was listed when psh began is collected
\* or still ahead: an addition moves names away from the reader, never behind it.
NothingPassedOver ==
  fetch = "reading" /\ ~deleted =>
    /\ \A e \in Endpoints : IsInjective(server[e])
    /\ collected \subseteq Range(server[endpoint])
    /\ atStart \subseteq found \cup collected \cup Ahead(1) \cup Ahead(2)

\* What has been read was listed; a reading that ended has it all, one that failed
\* or never was has nothing.
Found ==
  /\ fetch \in {"idle", "reading", "done", "skipped", "failed"}
  /\ found \cup collected \subseteq listed
  /\ fetch \in {"idle", "skipped", "failed"} => found = {}
  /\ fetch = "done" /\ ~deleted => atStart \subseteq found

\* The steps of Run: nothing is read before or after discovery.
Steps ==
  /\ at \in {"parse", "sinks", "replayLog", "replay"} => fetch = "idle"
  /\ at = "session" => parsed.as \in {"direct", "shell", "repl"}
  /\ at \in {"sinks", "discovery"} => parsed.as \in {"direct", "shell", "repl"}
  /\ at \in {"session"} \cup Modes => rules = Range(parsed.cfg.secret_names) \cup found

IInv == Reader /\ NothingPassedOver /\ Found /\ Steps

-----------------------------------------------------------------------------
\* As many names as a list without repetitions has, all of them on it, are all.
LEMMA AsManyAreAll ==
  ASSUME NEW list \in Seq(Names), IsInjective(list),
         NEW names \in SUBSET Range(list), Cardinality(names) >= Len(list)
  PROVE  names = Range(list)
  <1>1. Len(list) \in Nat /\ IsFiniteSet(1..Len(list)) /\ Cardinality(1..Len(list)) = Len(list)
    BY FS_Interval
  <1>2. list \in Surjection(1..Len(list), Range(list))
    BY DEF Range, Surjection
  <1>3. IsFiniteSet(Range(list)) /\ Cardinality(Range(list)) <= Len(list)
    BY <1>1, <1>2, FS_Surjection
  <1>4. /\ IsFiniteSet(names) /\ Cardinality(names) <= Cardinality(Range(list))
        /\ Cardinality(Range(list)) = Cardinality(names) => Range(list) = names
    BY <1>3, FS_Subset
  <1>5. Cardinality(names) \in Nat /\ Cardinality(Range(list)) \in Nat
    BY <1>3, <1>4, FS_CardinalityType
  <1> QED
    BY <1>1, <1>3, <1>4, <1>5

\* A page has the names at its places, and is short only at the end of the list.
LEMMA PageFacts ==
  ASSUME NEW list \in Seq(Names), page \in Nat \ {0}
  PROVE  LET before == (page - 1) * PerPage
             payload == PageOf(list)
         IN  /\ before \in Nat /\ page * PerPage = before + PerPage
             /\ payload \in Seq(Names)
             /\ Range(payload) = {list[j] : j \in {i \in DOMAIN list : before < i /\ i <= before + PerPage}}
             /\ payload = <<>> \/ Len(payload) < PerPage => Len(list) <= before + PerPage
             /\ payload = <<>> => Len(list) <= before
  <1> DEFINE before  == (page - 1) * PerPage
             end     == IF page * PerPage < Len(list) THEN page * PerPage ELSE Len(list)
             payload == PageOf(list)
  <1>1. before \in Nat /\ page * PerPage = before + PerPage /\ Len(list) \in Nat
        /\ PerPage \in Nat /\ PerPage > 0
    <2>1. page - 1 \in Nat /\ PerPage \in Nat /\ PerPage > 0 /\ Len(list) \in Nat
      OBVIOUS
    <2>2. \A m, n \in Nat : m * n \in Nat /\ (m + 1) * n = m * n + n
      OBVIOUS
    <2>3. page = (page - 1) + 1
      OBVIOUS
    <2> QED
      BY <2>1, <2>2, <2>3
  <1>2. payload = SubSeq(list, before + 1, end)
    BY DEF PageOf
  <1>3. /\ end \in Nat /\ end <= Len(list) /\ end <= before + PerPage
        /\ end = Len(list) \/ end = before + PerPage
    BY <1>1
  <1> HIDE DEF before, end, payload
  <1>4. \A i \in (before + 1)..end : list[i] \in Names
    BY <1>1, <1>3
  <1>5. /\ payload \in Seq(Names)
        /\ Len(payload) = IF before + 1 <= end THEN end - before ELSE 0
        /\ \A i \in 1..Len(payload) : payload[i] = list[before + i]
    <2>1. /\ payload \in Seq(Names)
          /\ Len(payload) = IF before + 1 <= end THEN end - (before + 1) + 1 ELSE 0
          /\ \A i \in 1..(end - (before + 1) + 1) : payload[i] = list[(before + 1) + i - 1]
      BY <1>1, <1>2, <1>3, <1>4, SubSeqProperties
    <2>2. \A i \in Int : (before + 1) + i - 1 = before + i
      BY <1>1
    <2>3. Len(payload) <= end - before \/ Len(payload) = 0
      BY <1>1, <1>3, <2>1
    <2> QED
      BY <1>1, <1>3, <2>1, <2>2, <2>3
  <1>6. Range(payload) = {list[j] : j \in {i \in DOMAIN list : before < i /\ i <= before + PerPage}}
    <2>1. ASSUME NEW i \in 1..Len(payload)
          PROVE  /\ before + i \in DOMAIN list /\ before < before + i
                 /\ before + i <= before + PerPage /\ payload[i] = list[before + i]
      BY <1>1, <1>3, <1>5
    <2>2. ASSUME NEW j \in DOMAIN list, before < j, j <= before + PerPage
          PROVE  j - before \in 1..Len(payload) /\ payload[j - before] = list[j]
      <3>1. j <= end /\ j \in Nat /\ before + (j - before) = j
        BY <1>1, <1>3, <2>2
      <3>2. j - before \in 1..Len(payload)
        BY <1>1, <1>3, <1>5, <2>2, <3>1
      <3> QED
        BY <1>5, <3>1, <3>2
    <2>3. DOMAIN payload = 1..Len(payload)
      BY <1>5
    <2> QED
      BY <2>1, <2>2, <2>3 DEF Range
  <1>7. payload = <<>> \/ Len(payload) < PerPage => Len(list) <= before + PerPage
    BY <1>1, <1>3, <1>5
  <1>8. payload = <<>> => Len(list) <= before
    BY <1>1, <1>3, <1>5
  <1> QED
    BY <1>1, <1>5, <1>6, <1>7, <1>8 DEF before, payload

\* The settings are refused, or ask for help or for one of the modes.
LEMMA ParsedAs ==
  ASSUME NEW args, NEW direct, NEW files, NEW env
  PROVE  ParseArgs(args, direct, files, env).as \in {"help", "error"} \cup Modes
  <1> DEFINE cfg  == Settings(args, files, env)
             as1  == IF args[Min(Stops(args))].flag = "help" THEN "help" ELSE "error"
             as3  == IF ~Valid(cfg) \/ ~OneMode(cfg, "c" \in Mentioned(args), direct) THEN "error"
                     ELSE IF cfg.replay_files # <<>> THEN "replay"
                     ELSE IF direct THEN "direct"
                     ELSE IF "c" \in Mentioned(args) THEN "shell" ELSE "repl"
  <1>1. \/ ParseArgs(args, direct, files, env) = Result(as1, Defaults)
        \/ ParseArgs(args, direct, files, env) = Result("error", Defaults)
        \/ ParseArgs(args, direct, files, env) = Result(as3, cfg)
    <2>1. CASE Stops(args) # {}
      BY <2>1, Zenon DEF ParseArgs
    <2>2. CASE Stops(args) = {} /\ FileFails(args, files)
      BY <2>2, Zenon DEF ParseArgs
    <2>3. CASE Stops(args) = {} /\ ~FileFails(args, files)
      BY <2>3, Zenon DEF ParseArgs
    <2> QED
      BY <2>1, <2>2, <2>3
  <1>2. as1 \in {"help", "error"} /\ as3 \in {"error"} \cup Modes
    BY DEF Modes
  <1> HIDE DEF as1, as3, cfg
  <1>3. \A a, c : Result(a, c).as = a
    BY DEF Result
  <1> QED
    BY <1>1, <1>2, <1>3

-----------------------------------------------------------------------------
\* The initial state satisfies the invariant.
LEMMA InitIInv == Init => IInv
  BY DEF Init, GithubInit, IInv, Reader, NothingPassedOver, Found, Steps, Endpoints, Modes

\* A page that is not the last: the reader moves past names it has collected.
LEMMA PageArrivesIInv == IInv /\ PageArrives /\ UNCHANGED startup => IInv'
  <1> SUFFICES ASSUME IInv, PageArrives, UNCHANGED startup PROVE IInv'
    OBVIOUS
  <1> USE DEF IInv
  <1> DEFINE list    == server[endpoint]
             payload == PageOf(list)
             names   == collected \cup Range(payload)
             before  == (page - 1) * PerPage
             last    == LastPage(payload, names, Len(list))
  <1>1. /\ fetch = "reading" /\ UNCHANGED serving /\ UNCHANGED <<at, parsed, rules>>
        /\ at = "discovery" /\ endpoint \in {1, 2} /\ page \in Nat \ {0}
        /\ server \in [Endpoints -> Seq(Names)] /\ list \in Seq(Names)
    BY DEF PageArrives, Reader, startup, Endpoints
  <1>2. /\ last => /\ found' = found \cup names /\ collected' = {} /\ page' = 1
                   /\ endpoint = 2 => fetch' = "done" /\ endpoint' = endpoint
                   /\ endpoint = 1 => endpoint' = 2 /\ fetch' = fetch
        /\ ~last => /\ collected' = names /\ page' = page + 1
                    /\ UNCHANGED <<found, endpoint, fetch>>
    BY <1>1 DEF PageArrives
  <1>3. /\ before \in Nat /\ page * PerPage = before + PerPage
        /\ Range(payload) = {list[j] : j \in {i \in DOMAIN list : before < i /\ i <= before + PerPage}}
        /\ payload = <<>> \/ Len(payload) < PerPage => Len(list) <= before + PerPage
        /\ payload = <<>> => Len(list) <= before
    BY <1>1, PageFacts
  <1>4. Range(payload) \subseteq Range(list) /\ Range(list) \subseteq listed
    <2>1. Range(payload) \subseteq Range(list)
      BY <1>3 DEF Range
    <2>2. Range(list) \subseteq listed
      BY <1>1 DEF Reader, Endpoints
    <2> QED
      BY <2>1, <2>2
  <1>5. DOMAIN list = 1..Len(list) /\ Len(list) \in Nat /\ PerPage \in Nat
    BY <1>1
  <1>6. last /\ ~deleted => \A j \in DOMAIN list : j > before => list[j] \in names
    <2> SUFFICES ASSUME last, ~deleted, NEW j \in DOMAIN list, j > before
                 PROVE  list[j] \in names
      OBVIOUS
    <2>1. CASE payload = <<>> \/ Len(payload) < PerPage
      <3>1. j <= before + PerPage
        BY <1>3, <1>5, <2>1
      <3>2. list[j] \in Range(payload)
        BY <1>3, <3>1
      <3> QED
        BY <3>2
    <2>2. CASE Cardinality(names) >= Len(list)
      <3>1. IsInjective(list) /\ names \subseteq Range(list)
        BY <1>1, <1>4 DEF NothingPassedOver, Endpoints
      <3>2. names = Range(list)
        BY <1>1, <2>2, <3>1, AsManyAreAll
      <3> QED
        BY <3>2 DEF Range
    <2> QED
      BY <2>1, <2>2 DEF LastPage
  <1>7. ~last => \A j \in DOMAIN list : j > before => list[j] \in names \/ j > before + PerPage
    <2> SUFFICES ASSUME NEW j \in DOMAIN list, j > before, ~(j > before + PerPage)
                 PROVE  list[j] \in names
      OBVIOUS
    <2>1. list[j] \in Range(payload)
      BY <1>3, <1>5
    <2> QED
      BY <2>1
  <1> HIDE DEF last, names, payload
  <1>8. names \subseteq listed /\ (~deleted => names \subseteq Range(list)) /\ collected \subseteq names
        /\ found \subseteq listed
    BY <1>1, <1>4 DEF Found, NothingPassedOver, names
  <1>9. Reader'
    BY <1>1, <1>2 DEF Reader, serving, Endpoints
  <1>10. CASE ~last
    <2>1. page' \in Nat /\ (page' - 1) * PerPage = before + PerPage
      BY <1>1, <1>2, <1>3, <1>10
    <2>2. ~deleted => atStart \subseteq found \cup names \cup Ahead(1)' \cup Ahead(2)'
      <3> SUFFICES ASSUME ~deleted, NEW name \in atStart, name \notin found, name \notin names
                   PROVE  name \in Ahead(1)' \cup Ahead(2)'
        OBVIOUS
      <3>1. PICK e \in {1, 2} : name \in Ahead(e)
        BY <1>1, <1>8 DEF NothingPassedOver
      <3>2. PICK j \in DOMAIN server[e] :
              server[e][j] = name /\ (e > endpoint \/ (e = endpoint /\ j > before))
        BY <3>1 DEF Ahead
      <3>3. e > endpoint \/ (e = endpoint /\ j > before + PerPage)
        BY <1>7, <1>10, <3>2
      <3>4. name \in Ahead(e)'
        BY <1>1, <1>2, <1>10, <2>1, <3>2, <3>3 DEF Ahead, serving
      <3> QED
        BY <3>1, <3>4
    <2>3. NothingPassedOver'
      BY <1>1, <1>2, <1>8, <1>10, <2>2 DEF NothingPassedOver, serving
    <2>4. Found' /\ Steps'
      BY <1>1, <1>2, <1>8, <1>10 DEF Found, Steps, Modes, serving
    <2> QED
      BY <1>9, <2>3, <2>4
  <1>11. CASE last
    <2>1. ~deleted => Ahead(endpoint) \subseteq names
      BY <1>1, <1>6, <1>11 DEF Ahead
    <2>2. CASE endpoint = 1
      <3>1. fetch' = "reading" /\ endpoint' = 2 /\ page' = 1 /\ collected' = {}
            /\ found' = found \cup names /\ (page' - 1) * PerPage = 0
        BY <1>1, <1>2, <1>11, <2>2
      <3>2. Ahead(2) \subseteq Ahead(2)'
        <4>1. \A j \in DOMAIN server[2] : j > 0
          BY <1>1 DEF Endpoints
        <4> QED
          BY <1>1, <3>1, <4>1 DEF Ahead, serving
      <3>3. NothingPassedOver'
        BY <1>1, <1>8, <2>1, <2>2, <3>1, <3>2 DEF NothingPassedOver, serving, Endpoints
      <3>4. Found' /\ Steps'
        BY <1>1, <1>8, <3>1 DEF Found, Steps, Modes, serving
      <3> QED
        BY <1>9, <3>3, <3>4
    <2>3. CASE endpoint = 2
      <3>1. fetch' = "done" /\ found' = found \cup names /\ collected' = {}
        BY <1>1, <1>2, <1>11, <2>3
      <3>2. Ahead(1) = {}
        BY <2>3 DEF Ahead
      <3>3. ~deleted => atStart \subseteq found'
        BY <1>1, <1>8, <2>1, <2>3, <3>1, <3>2 DEF NothingPassedOver
      <3>4. NothingPassedOver' /\ Found' /\ Steps'
        BY <1>1, <1>8, <3>1, <3>3 DEF NothingPassedOver, Found, Steps, Modes, serving
      <3> QED
        BY <1>9, <3>4
    <2> QED
      BY <1>1, <2>2, <2>3
  <1> QED
    BY <1>10, <1>11

\* A name put first or last moves the others back or leaves them.
LEMMA AddedFacts ==
  ASSUME NEW old \in Seq(Names), NEW name \in Names, name \notin Range(old),
         NEW new \in {<<name>> \o old, Append(old, name)}
  PROVE  /\ new \in Seq(Names) /\ Range(new) = Range(old) \cup {name}
         /\ \A j \in DOMAIN old : \E k \in DOMAIN new : k >= j /\ new[k] = old[j]
         /\ IsInjective(old) => IsInjective(new)
  <1>1. DOMAIN old = 1..Len(old) /\ Len(old) \in Nat /\ \A i \in 1..Len(old) : old[i] # name
    BY DEF Range
  <1>2. CASE new = <<name>> \o old
    <2>1. /\ new \in Seq(Names) /\ Len(new) = Len(old) + 1
          /\ new[1] = name /\ \A i \in 1..Len(old) : new[i + 1] = old[i]
      <3>1. <<name>> \in Seq(Names) /\ Len(<<name>>) = 1 /\ <<name>>[1] = name
        OBVIOUS
      <3>2. /\ new \in Seq(Names) /\ Len(new) = 1 + Len(old)
            /\ \A i \in 1..(1 + Len(old)) : new[i] = IF i <= 1 THEN <<name>>[i] ELSE old[i - 1]
        BY <1>2, <3>1, ConcatProperties
      <3>3. \A i \in 1..Len(old) : i + 1 \in 1..(1 + Len(old)) /\ ~(i + 1 <= 1) /\ (i + 1) - 1 = i
        BY <1>1
      <3>4. 1 \in 1..(1 + Len(old))
        BY <1>1
      <3> QED
        BY <1>1, <3>1, <3>2, <3>3, <3>4
    <2>2. DOMAIN new = 1..(Len(old) + 1)
      BY <2>1
    <2>3. \A k \in DOMAIN new : k = 1 \/ (k - 1 \in 1..Len(old) /\ new[k] = old[k - 1])
      <3> SUFFICES ASSUME NEW k \in DOMAIN new, k # 1
                   PROVE  k - 1 \in 1..Len(old) /\ new[k] = old[k - 1]
        OBVIOUS
      <3>1. k - 1 \in 1..Len(old) /\ (k - 1) + 1 = k
        BY <1>1, <2>2
      <3> QED
        BY <2>1, <3>1
    <2>4. Range(new) = Range(old) \cup {name}
      <3>1. \A k \in DOMAIN new : new[k] \in Range(old) \cup {name}
        BY <1>1, <2>1, <2>3 DEF Range
      <3>2. \A i \in 1..Len(old) : i + 1 \in DOMAIN new /\ new[i + 1] = old[i]
        BY <1>1, <2>1, <2>2
      <3>3. 1 \in DOMAIN new /\ new[1] = name
        BY <1>1, <2>1, <2>2
      <3> QED
        BY <1>1, <3>1, <3>2, <3>3 DEF Range
    <2>5. \A j \in DOMAIN old : \E k \in DOMAIN new : k >= j /\ new[k] = old[j]
      BY <1>1, <2>1, <2>2
    <2>6. IsInjective(old) => IsInjective(new)
      <3> SUFFICES ASSUME IsInjective(old), NEW k \in DOMAIN new, NEW l \in DOMAIN new, new[k] = new[l]
                   PROVE  k = l
        BY DEF IsInjective
      <3>1. CASE k = 1 \/ l = 1
        BY <1>1, <2>1, <2>3, <3>1
      <3>2. CASE k # 1 /\ l # 1
        <4>1. k - 1 = l - 1
          BY <1>1, <2>3, <3>2 DEF IsInjective
        <4> QED
          BY <1>1, <2>2, <4>1
      <3> QED
        BY <3>1, <3>2
    <2> QED
      BY <2>1, <2>4, <2>5, <2>6
  <1>3. CASE new = Append(old, name)
    <2>1. /\ new \in Seq(Names) /\ DOMAIN new = 1..(Len(old) + 1)
          /\ new[Len(old) + 1] = name /\ \A i \in 1..Len(old) : new[i] = old[i]
      BY <1>3
    <2>2. \A k \in DOMAIN new : k = Len(old) + 1 \/ k \in 1..Len(old)
      BY <1>1, <2>1
    <2>3. Range(new) = Range(old) \cup {name}
      BY <1>1, <2>1, <2>2 DEF Range
    <2>4. \A j \in DOMAIN old : \E k \in DOMAIN new : k >= j /\ new[k] = old[j]
      BY <1>1, <2>1
    <2>5. IsInjective(old) => IsInjective(new)
      BY <1>1, <2>1, <2>2 DEF IsInjective
    <2> QED
      BY <2>1, <2>3, <2>4, <2>5
  <1> QED
    BY <1>2, <1>3

\* A secret added while psh reads leaves nobody behind the reader.
LEMMA SecretAddedIInv == IInv /\ SecretAdded /\ UNCHANGED startup => IInv'
  <1> SUFFICES ASSUME IInv, SecretAdded, UNCHANGED startup PROVE IInv'
    OBVIOUS
  <1> USE DEF IInv
  <1>1. /\ fetch = "reading" /\ UNCHANGED <<deleted, atStart, reading, at, parsed, rules>>
        /\ server \in [Endpoints -> Seq(Names)] /\ endpoint \in Endpoints /\ page \in Nat \ {0}
    BY DEF SecretAdded, Changes, Reader, startup
  <1>2. PICK e \in Endpoints, name \in Names :
          /\ name \notin Range(server[e])
          /\ \E list \in {<<name>> \o server[e], Append(server[e], name)} :
               server' = [server EXCEPT ![e] = list]
          /\ listed' = listed \cup {name}
    BY DEF SecretAdded
  <1>3. PICK list \in {<<name>> \o server[e], Append(server[e], name)} :
          server' = [server EXCEPT ![e] = list]
    BY <1>2
  <1>4. /\ list \in Seq(Names) /\ Range(list) = Range(server[e]) \cup {name}
        /\ \A j \in DOMAIN server[e] : \E k \in DOMAIN list : k >= j /\ list[k] = server[e][j]
        /\ IsInjective(server[e]) => IsInjective(list)
    <2>1. server[e] \in Seq(Names)
      BY <1>1
    <2> QED
      BY <1>2, <2>1, AddedFacts
  <1> HIDE DEF Endpoints
  <1>5. /\ server' \in [Endpoints -> Seq(Names)] /\ server'[e] = list
        /\ \A f \in Endpoints \ {e} : server'[f] = server[f]
    BY <1>1, <1>3, <1>4
  <1>6. \A f \in Endpoints : Range(server[f]) \subseteq Range(server'[f])
                              /\ Range(server'[f]) \subseteq listed'
    BY <1>1, <1>2, <1>4, <1>5 DEF Reader
  <1>7. \A f \in Endpoints : Ahead(f) \subseteq Ahead(f)'
    <2> SUFFICES ASSUME NEW f \in Endpoints, NEW n \in Ahead(f) PROVE n \in Ahead(f)'
      OBVIOUS
    <2>1. PICK j \in DOMAIN server[f] :
            server[f][j] = n /\ (f > endpoint \/ (f = endpoint /\ j > (page - 1) * PerPage))
      BY DEF Ahead
    <2>2. endpoint' = endpoint /\ page' = page /\ (page - 1) * PerPage \in Int
      BY <1>1 DEF reading
    <2>3. PICK k \in DOMAIN server'[f] : k >= j /\ server'[f][k] = n
      <3>1. CASE f = e
        BY <1>4, <1>5, <2>1, <3>1
      <3>2. CASE f # e
        <4>1. j \in Int
          BY <1>1, <2>1
        <4> QED
          BY <1>5, <2>1, <3>2, <4>1
      <3> QED
        BY <3>1, <3>2
    <2>4. j \in Int /\ k \in Int
      BY <1>1, <1>5, <2>1, <2>3
    <2>5. f > endpoint \/ (f = endpoint /\ k > (page - 1) * PerPage)
      BY <2>1, <2>2, <2>3, <2>4
    <2> QED
      BY <2>2, <2>3, <2>5 DEF Ahead
  <1>8. Reader'
    BY <1>1, <1>5, <1>6 DEF Reader, reading
  <1>9. NothingPassedOver'
    <2>1. \A f \in Endpoints : ~deleted => IsInjective(server'[f])
      BY <1>1, <1>4, <1>5 DEF NothingPassedOver
    <2>2. 1 \in Endpoints /\ 2 \in Endpoints
      BY DEF Endpoints
    <2> QED
      BY <1>1, <1>6, <1>7, <2>1, <2>2 DEF NothingPassedOver, reading
  <1>10. Found' /\ Steps'
    BY <1>1, <1>2 DEF Found, Steps, reading
  <1> QED
    BY <1>8, <1>9, <1>10

\* A deletion takes away what could be promised about a reading that goes on, and
\* puts no new name on a list.
LEMMA SecretDeletedIInv == IInv /\ SecretDeleted /\ UNCHANGED startup => IInv'
  <1> SUFFICES ASSUME IInv, SecretDeleted, UNCHANGED startup PROVE IInv'
    OBVIOUS
  <1> USE DEF IInv
  <1>1. /\ fetch = "reading" /\ deleted' = TRUE
        /\ UNCHANGED <<listed, atStart, reading, at, parsed, rules>>
        /\ server \in [Endpoints -> Seq(Names)]
    BY DEF SecretDeleted, Changes, Reader, startup
  <1>2. PICK e \in Endpoints : \E i \in DOMAIN server[e] :
          server' = [server EXCEPT ![e] = RemoveAt(@, i)]
    BY DEF SecretDeleted
  <1>3. PICK i \in DOMAIN server[e] : server' = [server EXCEPT ![e] = RemoveAt(server[e], i)]
    BY <1>2
  <1> HIDE DEF Endpoints
  <1>4. server[e] \in Seq(Range(server[e])) /\ server[e] \in Seq(Names) /\ i \in 1..Len(server[e])
    BY <1>1 DEF Range
  <1>5. RemoveAt(server[e], i) \in Seq(Range(server[e])) /\ RemoveAt(server[e], i) \in Seq(Names)
    BY <1>4 DEF RemoveAt
  <1>6. Range(RemoveAt(server[e], i)) \subseteq Range(server[e])
    <2> DEFINE S == Range(server[e])
               t == RemoveAt(server[e], i)
    <2> HIDE DEF S, t
    <2>1. t \in Seq(S) => {t[x] : x \in DOMAIN t} \subseteq S
      OBVIOUS
    <2> QED
      BY <1>5, <2>1 DEF Range, S, t
  <1>7. Reader'
    BY <1>1, <1>3, <1>5, <1>6 DEF Reader, reading
  <1>8. NothingPassedOver' /\ Found' /\ Steps'
    BY <1>1 DEF NothingPassedOver, Found, Steps, reading
  <1> QED
    BY <1>7, <1>8

\* One failed request gives up what was read; before the first one, everything
\* is ahead.
LEMMA AskOrFailIInv ==
  IInv /\ (Ask \/ (RequestFails /\ UNCHANGED startup)) => IInv'
  <1> SUFFICES ASSUME IInv, Ask \/ (RequestFails /\ UNCHANGED startup) PROVE IInv'
    OBVIOUS
  <1> USE DEF IInv
  <1>1. CASE RequestFails /\ UNCHANGED startup
    BY <1>1 DEF RequestFails, startup, serving, Reader, NothingPassedOver, Found, Steps, Modes
  <1>2. CASE Ask /\ fetch' = "skipped"
    BY <1>2 DEF Ask, StartReading, startup, Reader, NothingPassedOver, Found, Steps, Modes
  <1>3. CASE Ask /\ fetch' = "reading"
    <2>1. /\ at = "discovery" /\ fetch = "idle" /\ endpoint = 1 /\ page = 1 /\ collected = {} /\ found = {}
          /\ server' \in [Endpoints -> Lists]
          /\ atStart' = UNION {Range(server'[e]) : e \in Endpoints} /\ listed' = atStart'
          /\ UNCHANGED <<endpoint, page, collected, found, at, parsed, rules, deleted>>
      BY <1>3 DEF Ask, StartReading, startup, Reader, Found
    <2>2. \A e \in Endpoints : server'[e] \in Seq(Names) /\ IsInjective(server'[e])
                                /\ Range(server'[e]) \subseteq listed'
      BY <2>1
    <2>3. server' \in [Endpoints -> Seq(Names)]
      BY <2>1, <2>2
    <2>4. \A e \in Endpoints : Range(server'[e]) \subseteq Ahead(e)'
      <3> SUFFICES ASSUME NEW e \in Endpoints, NEW j \in DOMAIN server'[e]
                   PROVE  server'[e][j] \in Ahead(e)'
        BY DEF Range
      <3>1. j \in Nat /\ j > 0 /\ (page' - 1) * PerPage = 0 /\ endpoint' = 1
        BY <2>1, <2>2
      <3>2. e > endpoint' \/ (e = endpoint' /\ j > (page' - 1) * PerPage)
        BY <3>1 DEF Endpoints
      <3> QED
        BY <3>2 DEF Ahead
    <2>5. NothingPassedOver'
      BY <2>1, <2>2, <2>4 DEF NothingPassedOver, Endpoints
    <2>6. Reader' /\ Found' /\ Steps'
      BY <1>3, <2>1, <2>2, <2>3 DEF Reader, Found, Steps, Modes, Endpoints
    <2> QED
      BY <2>5, <2>6
  <1> QED
    BY <1>1, <1>2, <1>3 DEF Ask, StartReading

\* The steps of Run before and after discovery leave the reader alone.
LEMMA RunIInv ==
  IInv /\ (Parse \/ BuildSinks \/ OpenReplayLog \/ BuildRules \/ StartSession) => IInv'
  <1> SUFFICES ASSUME IInv, Parse \/ BuildSinks \/ OpenReplayLog \/ BuildRules \/ StartSession
               PROVE  IInv'
    OBVIOUS
  <1> USE DEF IInv
  <1>1. UNCHANGED githubVars /\ fetch # "reading"
    BY DEF Parse, BuildSinks, OpenReplayLog, BuildRules, StartSession, Reader
  <1>2. Reader' /\ NothingPassedOver' /\ Found'
    BY <1>1 DEF Reader, NothingPassedOver, Found, githubVars, reading, serving
  <1>3. Steps'
    <2> USE <1>1 DEF githubVars, reading, serving
    <2>1. CASE Parse
      <3>1. at = "parse" /\ parsed' = ParseArgs(input.args, input.direct, input.files, input.env)
        BY <2>1 DEF Parse
      <3>2. parsed'.as \in {"help", "error"} \cup Modes
        BY <3>1, ParsedAs
      <3>3. \/ at' \in {"refused", "helped", "replayLog"}
            \/ at' = "sinks" /\ parsed'.as \in {"direct", "shell", "repl"}
        BY <2>1, <3>2 DEF Parse, Refuse, Modes
      <3> QED
        BY <3>1, <3>3 DEF Steps, Modes
    <2>2. CASE BuildSinks
      BY <2>2 DEF BuildSinks, Refuse, Steps, Modes
    <2>3. CASE OpenReplayLog
      BY <2>3 DEF OpenReplayLog, Refuse, Steps, Found, Modes
    <2>4. CASE BuildRules
      BY <2>4 DEF BuildRules, Steps, Modes
    <2>5. CASE StartSession
      BY <2>5 DEF StartSession, Refuse, Steps, Modes
    <2> QED
      BY <2>1, <2>2, <2>3, <2>4, <2>5
  <1> QED
    BY <1>2, <1>3

\* Every reachable state satisfies the invariant.
THEOREM Invariance == Spec => []IInv
  <1>1. IInv /\ [Next]_vars => IInv'
    <2> SUFFICES ASSUME IInv, [Next]_vars PROVE IInv'
      OBVIOUS
    <2>1. CASE UNCHANGED vars
      BY <2>1 DEF vars, startup, githubVars, reading, serving, IInv, Reader, NothingPassedOver,
                  Ahead, Found, Steps
    <2>2. CASE Discover
      BY <2>2, PageArrivesIInv, SecretAddedIInv, SecretDeletedIInv, AskOrFailIInv
         DEF Discover, Request, Server
    <2> QED
      BY <2>1, <2>2, AskOrFailIInv, RunIInv DEF Next
  <1> QED
    BY <1>1, InitIInv, PTL DEF Spec

\* Whatever happens on the way to GitHub, a run has the user's names in its rules,
\* none that was never a secret's, and all that GitHub listed from the start if
\* reading ended and nothing was deleted.
THEOREM RulesAreRight == Spec => []RulesNameTheSecrets
  <1>1. IInv => RulesNameTheSecrets
    <2> SUFFICES ASSUME IInv, at \in Modes PROVE RulesNameTheSecrets
      BY DEF RulesNameTheSecrets
    <2>1. rules = Range(parsed.cfg.secret_names) \cup found
      BY DEF IInv, Steps
    <2> QED
      BY <2>1 DEF IInv, Found, RulesNameTheSecrets
  <1> QED
    BY <1>1, Invariance, PTL

-----------------------------------------------------------------------------
\* What App.Run has when it has come to a step: the settings of its input, the mode
\* they ask for, and a sink before anything else is begun.
Settled ==
  /\ input \in Inputs
  /\ at # "parse" => parsed = ParseArgs(input.args, input.direct, input.files, input.env)
  /\ at = "replayLog" => parsed.as = "replay"
  /\ at \in Modes => at = parsed.as
  /\ at \in {"discovery", "session"} \cup Modes => sinks # {}

\* A set of numbers with an upper bound has a greatest one, found as the least
\* distance from the bound.
LEMMA Greatest ==
  ASSUME NEW bound \in Nat, NEW S \in SUBSET (1..bound), S # {}
  PROVE  Max(S) \in S /\ \A i \in S : Max(S) >= i
  <1> DEFINE D == {d \in Nat : bound - d \in S}
  <1>1. D \in SUBSET Nat /\ D # {}
    <2>1. PICK i \in S : TRUE
      OBVIOUS
    <2>2. bound - i \in Nat /\ bound - (bound - i) = i
      OBVIOUS
    <2> QED
      BY <2>1, <2>2
  <1>2. PICK d \in D : \A m \in D : <<m, d>> \notin OpToRel(<, Nat)
    BY <1>1, NatLessThanWellFounded, WFMin
  <1>3. \A m \in D : ~(m < d)
    BY <1>2 DEF OpToRel
  <1>4. ASSUME NEW i \in S PROVE bound - d >= i
    <2>1. bound - i \in Nat /\ bound - (bound - i) = i
      OBVIOUS
    <2>2. ~(bound - i < d)
      BY <1>3, <2>1
    <2> QED
      BY <2>1, <2>2
  <1>5. \E x \in S : \A y \in S : x >= y
    BY <1>2, <1>4
  <1> QED
    BY <1>5 DEF Max

\* The last value of a flag that was given is a text, and one the flag takes if
\* parsing did not stop.
LEMMA LastValueFacts ==
  ASSUME NEW args \in Seq(Argument), NEW flag \in Mentioned(args)
  PROVE  /\ LastValue(args, flag) \in Text
         /\ flag \in Keys /\ Stops(args) = {} => FlagTakes(KindOf[flag], LastValue(args, flag))
  <1> DEFINE S == {i \in DOMAIN args : args[i].flag = flag}
  <1>1. Len(args) \in Nat /\ S \in SUBSET (1..Len(args)) /\ S # {}
    BY DEF Mentioned
  <1>2. LastIndex(args, flag) \in S
    BY <1>1, Greatest DEF LastIndex
  <1>3. LastIndex(args, flag) \in DOMAIN args /\ args[LastIndex(args, flag)].flag = flag
    BY <1>2
  <1>4. args[LastIndex(args, flag)] \in Argument
    BY <1>3
  <1>5. LastValue(args, flag) \in Text
    BY <1>4 DEF LastValue, Argument
  <1>6. Stops(args) = {} => ~Refused(args[LastIndex(args, flag)])
    BY <1>3 DEF Stops
  <1> QED
    BY <1>3, <1>5, <1>6 DEF Refused, LastValue

\* A mode is reached only with valid settings, and only the mode they ask for.
LEMMA ParsedMode ==
  ASSUME NEW args, NEW direct, NEW files, NEW env,
         ParseArgs(args, direct, files, env).as \in Modes
  PROVE  LET result   == ParseArgs(args, direct, files, env)
             commands == "c" \in Mentioned(args)
         IN  /\ result.cfg = Settings(args, files, env) /\ Stops(args) = {}
             /\ Valid(result.cfg) /\ OneMode(result.cfg, commands, direct)
             /\ result.as = "replay" => result.cfg.replay_files # <<>>
             /\ result.as = "direct" => direct /\ result.cfg.replay_files = <<>>
  <1> DEFINE cfg  == Settings(args, files, env)
             commands == "c" \in Mentioned(args)
             as1  == IF args[Min(Stops(args))].flag = "help" THEN "help" ELSE "error"
             as3  == IF ~Valid(cfg) \/ ~OneMode(cfg, commands, direct) THEN "error"
                     ELSE IF cfg.replay_files # <<>> THEN "replay"
                     ELSE IF direct THEN "direct"
                     ELSE IF commands THEN "shell" ELSE "repl"
  <1>0. \A a, c : Result(a, c).as = a /\ Result(a, c).cfg = c
    BY DEF Result
  <1>1. CASE Stops(args) # {}
    <2>1. ParseArgs(args, direct, files, env) = Result(as1, Defaults)
      BY <1>1, Zenon DEF ParseArgs
    <2>2. as1 \notin Modes
      BY DEF Modes
    <2> QED
      BY <1>0, <2>1, <2>2
  <1>2. CASE Stops(args) = {} /\ FileFails(args, files)
    <2>1. ParseArgs(args, direct, files, env) = Result("error", Defaults)
      BY <1>2, Zenon DEF ParseArgs
    <2> QED
      BY <1>0, <2>1 DEF Modes
  <1>3. CASE Stops(args) = {} /\ ~FileFails(args, files)
    <2>1. ParseArgs(args, direct, files, env) = Result(as3, cfg)
      BY <1>3, Zenon DEF ParseArgs
    <2> HIDE DEF cfg, commands
    <2>2. as3 \in Modes
      BY <1>0, <2>1
    <2>3. Valid(cfg) /\ OneMode(cfg, commands, direct)
      BY <2>2 DEF Modes
    <2>4. /\ as3 = "replay" => cfg.replay_files # <<>>
          /\ as3 = "direct" => direct /\ cfg.replay_files = <<>>
      BY <2>3
    <2> HIDE DEF as3
    <2> QED
      BY <1>0, <1>3, <2>1, <2>3, <2>4 DEF cfg, commands
  <1> QED
    BY <1>1, <1>2, <1>3

\* Every step of Run keeps what is settled.
LEMMA NextSettled == IInv /\ Settled /\ [Next]_vars => Settled'
  <1> SUFFICES ASSUME IInv, Settled, [Next]_vars PROVE Settled'
    OBVIOUS
  <1> USE DEF Settled
  <1>1. CASE Parse
    <2>1. at = "parse" /\ parsed' = ParseArgs(input.args, input.direct, input.files, input.env)
          /\ UNCHANGED input
      BY <1>1 DEF Parse
    <2>2. parsed'.as \in {"help", "error"} \cup Modes
      BY <2>1, ParsedAs
    <2>3. \/ at' \in {"refused", "helped", "sinks"}
          \/ at' = "replayLog" /\ parsed'.as = "replay"
      BY <1>1, <2>2 DEF Parse, Refuse, Modes
    <2>4. input'.args = input.args /\ input'.direct = input.direct
          /\ input'.files = input.files /\ input'.env = input.env
      BY <2>1
    <2> QED
      BY <2>1, <2>3, <2>4 DEF Modes
  <1>2. CASE BuildSinks
    BY <1>2 DEF BuildSinks, Refuse, Modes
  <1>3. CASE OpenReplayLog
    BY <1>3 DEF OpenReplayLog, Refuse, Modes
  <1>4. CASE UNCHANGED startup
    BY <1>4 DEF startup
  <1>5. CASE BuildRules
    BY <1>5 DEF BuildRules, Modes
  <1>6. CASE StartSession
    BY <1>6 DEF StartSession, Refuse, Modes, IInv, Steps
  <1> QED
    BY <1>1, <1>2, <1>3, <1>4, <1>5, <1>6 DEF Next, Ask, Discover, vars

\* Every reachable state is settled.
THEOREM SettledInvariance == Spec => []Settled
  <1>1. Init => Settled
    BY DEF Init, Settled, Modes
  <1> QED
    BY <1>1, NextSettled, Invariance, PTL DEF Spec

\* A number from any source is a number when it is used.
LEMMA QueueSizeIsAnInt ==
  ASSUME NEW args \in Seq(Argument), NEW files, NEW env,
         \A file \in {files.named, files.discovered} :
           \A k \in DOMAIN file.settings : file.settings[k] \in Raw,
         \A k \in DOMAIN env : env[k] \in Text
  PROVE  Settings(args, files, env).queue_size \in Int
  <1> DEFINE file == FileUsed(args, files)
             yaml == IF file.state = "yaml" THEN file.settings ELSE <<>>
             cfg  == LoadConfig(yaml, env)
             k    == "queue_size"
  <1>1. k \in Keys /\ KindOf[k] = "int" /\ Defaults[k] \in Int /\ k # "replay_files"
    BY DEF Keys, KindOf, Defaults
  <1>2. ASSUME NEW raw \in Raw PROVE Cast("int", raw) \in Int
    <2>1. Cast("int", raw) = IF Reads(raw, "number") THEN raw.number
                             ELSE IF Reads(raw, "int") THEN raw.int
                             ELSE IF raw = YamlBool(TRUE) THEN 1 ELSE 0
      BY DEF Cast
    <2>2. "number" \in DOMAIN raw => raw.number \in Int
      BY DEF Raw, Text
    <2>3. "int" \in DOMAIN raw => raw.int \in Int
      BY DEF Raw, Text
    <2>4. PICK other \in {0, 1} : other = IF raw = YamlBool(TRUE) THEN 1 ELSE 0
      OBVIOUS
    <2>5. Cast("int", raw) = IF Reads(raw, "number") THEN raw.number
                             ELSE IF Reads(raw, "int") THEN raw.int ELSE other
      BY <2>1, <2>4
    <2> QED
      BY <2>2, <2>3, <2>5 DEF Reads
  <1>3. k \in DOMAIN yaml => yaml[k] \in Raw
    BY DEF FileUsed
  <1>4. cfg[k] \in Int
    <2> HIDE DEF k, yaml
    <2>1. cfg[k] = IF k \in DOMAIN env /\ env[k] # Empty THEN Cast(KindOf[k], env[k])
                   ELSE IF k \in DOMAIN yaml THEN Cast(KindOf[k], yaml[k]) ELSE Defaults[k]
      BY <1>1 DEF LoadConfig
    <2>2. k \in DOMAIN env => env[k] \in Raw
      BY DEF Raw
    <2> HIDE DEF cfg
    <2> QED
      BY <1>1, <1>2, <1>3, <2>1, <2>2
  <1> HIDE DEF cfg, yaml, k
  <1>5. Settings(args, files, env) = ApplyFlagOverrides(cfg, args)
    BY DEF Settings, cfg, yaml
  <1>6. ApplyFlagOverrides(cfg, args)[k] =
          IF k \in Mentioned(args) THEN FlagValue(KindOf[k], LastValue(args, k)) ELSE cfg[k]
    BY <1>1 DEF ApplyFlagOverrides
  <1>7. \A raw \in Raw : FlagValue(KindOf[k], raw) \in Int
    BY <1>1, <1>2 DEF FlagValue
  <1>8. k \in Mentioned(args) => LastValue(args, k) \in Raw
    BY LastValueFacts DEF Raw
  <1>9. ApplyFlagOverrides(cfg, args)[k] \in Int
    BY <1>4, <1>6, <1>7, <1>8
  <1> QED
    BY <1>5, <1>9 DEF k

\* A run that gets to a mode has given its logger room for an entry and somewhere
\* to write it, and does not mix a replay or a direct command with commands,
\* whatever the sources of its settings say.
THEOREM LoggerCanAlwaysWork == Spec => []LoggerCanWork
  <1>1. Settled => LoggerCanWork
    <2> SUFFICES ASSUME Settled, at \in Modes PROVE LoggerCanWork
      BY DEF LoggerCanWork
    <2>1. parsed = ParseArgs(input.args, input.direct, input.files, input.env)
          /\ at = parsed.as /\ sinks # {} /\ input \in Inputs
      BY DEF Settled, Modes
    <2>2. /\ parsed.cfg = Settings(input.args, input.files, input.env)
          /\ Valid(parsed.cfg) /\ OneMode(parsed.cfg, "c" \in Mentioned(input.args), input.direct)
          /\ parsed.as = "replay" => parsed.cfg.replay_files # <<>>
          /\ parsed.as = "direct" => input.direct /\ parsed.cfg.replay_files = <<>>
      BY <2>1, ParsedMode
    <2>3. parsed.cfg.queue_size \in Int
      BY <2>1, <2>2, QueueSizeIsAnInt, InputsAssumption DEF InputsAssumption
    <2>4. parsed.cfg.queue_size \in Nat \ {0} /\ parsed.cfg.max_capture_bytes >= 0
          /\ parsed.cfg.flush_timeout >= 0
      BY <2>2, <2>3 DEF Valid
    <2> QED
      BY <2>1, <2>2, <2>4 DEF LoggerCanWork, OneMode
  <1> QED
    BY <1>1, SettledInvariance, PTL

\* The last of a sequence with one more.
LEMMA LastOfMore ==
  ASSUME NEW T, NEW s \in Seq(T), NEW x PROVE Last(s \o <<x>>) = x /\ s \o <<x>> # <<>>
  <1>1. s \in Seq(T \cup {x}) /\ <<x>> \in Seq(T \cup {x})
    OBVIOUS
  <1>2. Len(s \o <<x>>) = Len(s) + 1 /\ (s \o <<x>>)[Len(s) + 1] = x /\ Len(s) \in Nat
    BY <1>1
  <1> QED
    BY <1>2 DEF Last

\* Whoever speaks last about a setting decides it, for any files, variables and
\* flags, and a source that does not mention it leaves it alone.
THEOREM PrecedenceAlwaysHolds == Spec => []PrecedenceHolds
  <1>1. Settled => PrecedenceHolds
    <2> SUFFICES ASSUME Settled, at \in Modes, NEW k \in Keys \ {"replay_files"}
                 PROVE  parsed.cfg[k] = IF Says(k) = <<>> THEN Defaults[k]
                                        ELSE Last(Says(k))
      BY DEF PrecedenceHolds
    <2> DEFINE args == input.args
               env  == input.env
               file == FileUsed(args, input.files)
               yaml == IF file.state = "yaml" THEN file.settings ELSE <<>>
               byFile == Cast(KindOf[k], file.settings[k])
               byEnv  == Cast(KindOf[k], env[k])
               byFlag == FlagValue(KindOf[k], LastValue(args, k))
               inFile == IF file.state = "yaml" /\ k \in DOMAIN file.settings
                           THEN <<byFile>> ELSE <<>>
               inEnv  == IF k \in DOMAIN env /\ env[k] # Empty THEN <<byEnv>> ELSE <<>>
               given  == IF k \in Mentioned(args) THEN <<byFlag>> ELSE <<>>
    <2>1. parsed = ParseArgs(args, input.direct, input.files, env) /\ at = parsed.as
      BY DEF Settled, Modes
    <2>2. parsed.cfg = Settings(args, input.files, env)
      BY <2>1, ParsedMode
    <2>3. Says(k) = inFile \o inEnv \o given
      BY DEF Says
    <2>4. k \in DOMAIN yaml <=> file.state = "yaml" /\ k \in DOMAIN file.settings
      <3>1. k \notin DOMAIN <<>>
        OBVIOUS
      <3> QED
        BY <3>1
    <2>5. parsed.cfg = ApplyFlagOverrides(LoadConfig(yaml, env), args)
      BY <2>2 DEF Settings
    <2>6. parsed.cfg[k] =
            IF k \in Mentioned(args) THEN byFlag
            ELSE IF k \in DOMAIN env /\ env[k] # Empty THEN byEnv
            ELSE IF k \in DOMAIN yaml THEN Cast(KindOf[k], yaml[k]) ELSE Defaults[k]
      BY <2>5 DEF ApplyFlagOverrides, LoadConfig
    <2> HIDE DEF byFile, byEnv, byFlag
    <2>7. inFile \in Seq({byFile}) /\ inEnv \in Seq({byEnv})
      <3>1. \A x : <<x>> \in Seq({x}) /\ <<>> \in Seq({x})
        OBVIOUS
      <3> QED
        BY <3>1
    <2>8. inFile \o inEnv \in Seq({byFile, byEnv})
      BY <2>7
    <2> HIDE DEF args, env, file
    <2>9. CASE k \in Mentioned(args)
      <3>1. Says(k) = (inFile \o inEnv) \o <<byFlag>>
        BY <2>3, <2>9
      <3>2. Last(Says(k)) = byFlag /\ Says(k) # <<>>
        BY <2>8, <3>1, LastOfMore
      <3> QED
        BY <2>6, <2>9, <3>2
    <2>10. CASE k \notin Mentioned(args) /\ k \in DOMAIN env /\ env[k] # Empty
      <3>1. inEnv = <<byEnv>> /\ given = <<>>
        BY <2>10
      <3>2. Says(k) = inFile \o <<byEnv>>
        BY <2>3, <2>7, <3>1
      <3> HIDE DEF inFile
      <3>3. Last(Says(k)) = byEnv /\ Says(k) # <<>>
        BY <2>7, <3>2, LastOfMore
      <3> QED
        BY <2>6, <2>10, <3>3
    <2>11. CASE k \notin Mentioned(args) /\ ~(k \in DOMAIN env /\ env[k] # Empty)
      <3>1. Says(k) = inFile
        BY <2>3, <2>7, <2>11
      <3>2. CASE k \in DOMAIN yaml
        <4>1. inFile = <<byFile>> /\ Cast(KindOf[k], yaml[k]) = byFile
          BY <2>4, <3>2 DEF byFile
        <4>2. Last(Says(k)) = byFile /\ Says(k) # <<>>
          BY <3>1, <4>1 DEF Last
        <4> QED
          BY <2>6, <2>11, <3>2, <4>1, <4>2
      <3>3. CASE k \notin DOMAIN yaml
        <4>1. Says(k) = <<>>
          BY <2>4, <3>1, <3>3
        <4> QED
          BY <2>6, <2>11, <3>3, <4>1
      <3> QED
        BY <3>2, <3>3
    <2> QED
      BY <2>9, <2>10, <2>11
  <1> QED
    BY <1>1, SettledInvariance, PTL
=============================================================================
