--------------------------- MODULE LoadHostProofs ---------------------------
(***************************************************************************)
(* What is proved of LoadHost, for every host file, header, length of the  *)
(* lines and number of runs: its types, that a killed run leaves a whole   *)
(* header behind, what a run that ends has written, and for which host     *)
(* files a client starts with it.                                          *)
(***************************************************************************)
EXTENDS LoadHost, SumsAndLoops, FiniteSetTheorems, TLAPS

-----------------------------------------------------------------------------
(* Types.                                                                  *)

(* The macro lines keep their types when they are replaced.                *)
LEMMA EditedType ==
  ASSUME TypeOK, NEW line \in Macro
  PROVE  Edited(line) \in Macro
<1>1. server \in Target \cup {NoTarget} /\ storages \in Seq(Target \cup {NoTarget})
      /\ clients \in Nat /\ Len(storages) \in Nat
  BY DEF TypeOK
<1>2. CASE line[1] = "SERVER_ADDRESS"
  BY <1>1, <1>2 DEF Edited, Macro
<1>3. CASE line[1] = "STORAGE_ADDRESS"
  BY <1>1, <1>3 DEF Edited, Macro
<1>4. CASE line[1] = "CLIENT_COUNT"
  BY <1>1, <1>4 DEF Edited, Macro
<1>5. CASE line[1] = "STORAGE_COUNT"
  BY <1>1, <1>5 DEF Edited, Macro
<1>6. CASE line[1] \notin {"SERVER_ADDRESS", "STORAGE_ADDRESS", "CLIENT_COUNT", "STORAGE_COUNT"}
  <2>1. Edited(line) = line
    BY <1>6 DEF Edited
  <2>. QED BY <2>1
<1>. QED BY <1>2, <1>3, <1>4, <1>5, <1>6

LEMMA PiecesType ==
  ASSUME NEW line \in Macro
  PROVE  /\ Pieces(line) \in Seq(Macro)
         /\ Pieces(line) = <<line>> \/ Pieces(line) = <<line, RestLine>>
<1>1. RestLine \in Macro
  BY DEF RestLine, Macro
<1>. QED BY <1>1 DEF Pieces

(* What is on the disk of a file that was cut off.                         *)
LEMMA CutOff ==
  ASSUME NEW file \in Seq(Macro), NEW n \in 0 .. Len(file)
  PROVE  /\ SubSeq(file, 1, n) \in Seq(Macro) /\ Len(SubSeq(file, 1, n)) = n
         /\ \A p \in 1 .. n : p \in 1 .. Len(file) /\ SubSeq(file, 1, n)[p] = file[p]
OBVIOUS

LEMMA TypeInit == Init => TypeOK
<1>. SUFFICES ASSUME Init PROVE TypeOK
  OBVIOUS
<1>1. head = Header /\ Header \in Seq(Macro) /\ MaxRuns \in Nat
  BY HostAssumption DEF Init
<1>2. hosts \in Seq(Line) /\ storages \in Seq(Target \cup {NoTarget}) /\ temp \in Seq(Macro)
  BY DEF Init
<1>3. i \in Nat \ {0} /\ clients \in Nat /\ runs \in 0 .. MaxRuns
  BY <1>1 DEF Init
<1>4. /\ pc \in {"idle", "hosts", "edit", "copy"} /\ loadType \in Section
      /\ server \in Target \cup {NoTarget} /\ spoilt \in BOOLEAN /\ strays \in Nat
  BY DEF Init, Section
<1>. QED BY <1>1, <1>2, <1>3, <1>4 DEF TypeOK

LEMMA ReadHostType ==
  ASSUME TypeOK, ReadHost
  PROVE  TypeOK'
<1>. DEFINE line == hosts[i]
<1>1. line \in Line
  BY DEF ReadHost, TypeOK
<1>2. line.kind = "section" => line.value \in Section
  BY <1>1 DEF Line
<1>3. line.kind = "host" => line.value \in Target \cup {NoTarget}
  BY <1>1 DEF Line
<1>4. loadType' \in Section
  BY <1>2 DEF ReadHost, NextType, TypeOK
<1>5. server' \in Target \cup {NoTarget} /\ clients' \in Nat
  BY <1>3 DEF ReadHost, TypeOK
<1>6. storages' \in Seq(Target \cup {NoTarget})
  BY <1>3 DEF ReadHost, TypeOK
<1>. QED BY <1>4, <1>5, <1>6 DEF ReadHost, TypeOK

LEMMA TypeNext == TypeOK /\ [Next]_vars => TypeOK'
<1>. SUFFICES ASSUME TypeOK, [Next]_vars PROVE TypeOK'
  OBVIOUS
<1>1. ASSUME NEW file \in HostFile, Start(file) PROVE TypeOK'
  <2>1. hosts' \in Seq(Line)
    BY <1>1, HostAssumption DEF Start
  <2>2. runs' \in 0 .. MaxRuns
    BY <1>1, HostAssumption DEF Start, TypeOK
  <2>3. storages' \in Seq(Target \cup {NoTarget}) /\ spoilt' \in BOOLEAN
    BY <1>1 DEF Start, TypeOK
  <2>. QED BY <1>1, <2>1, <2>2, <2>3 DEF Start, TypeOK, Section
<1>2. CASE ReadHost
  BY <1>2, ReadHostType
<1>3. CASE OpenTemp
  BY <1>3 DEF OpenTemp, TypeOK, found
<1>4. CASE EditLine
  <2>1. head[i] \in Macro
    BY <1>4 DEF EditLine, TypeOK
  <2>2. Pieces(Edited(head[i])) \in Seq(Macro)
    BY <2>1, EditedType, PiecesType
  <2>3. temp' \in Seq(Macro)
    BY <1>4, <2>2 DEF EditLine, TypeOK
  <2>. QED BY <1>4, <2>3 DEF EditLine, TypeOK, found
<1>5. CASE OpenHead
  BY <1>5 DEF OpenHead, TypeOK, found
<1>6. CASE CopyLine
  BY <1>6 DEF CopyLine, TypeOK, found
<1>7. CASE CloseHead
  BY <1>7 DEF CloseHead, TypeOK, found
<1>8. CASE Killed
  <2>1. temp' \in Seq(Macro) /\ head' \in Seq(Macro)
    BY <1>8, CutOff DEF Killed, TypeOK
  <2>. QED BY <1>8, <2>1 DEF Killed, TypeOK, found
<1>9. CASE AtRest \/ UNCHANGED vars
  BY <1>9 DEF AtRest, vars, found, TypeOK
<1>. QED BY <1>1, <1>2, <1>3, <1>4, <1>5, <1>6, <1>7, <1>8, <1>9 DEF Next

(* The variables keep their types.                                         *)
THEOREM HostTypeCorrect == Spec => []TypeOK
<1>. QED BY TypeInit, TypeNext, PTL DEF Spec

-----------------------------------------------------------------------------
(* What a run finds in its host file, and writes.                          *)

Named == {"server", "client", "storage"}

(* Line n is in a section: the last section line before it is its head.    *)
InSectionAt(file, n, name) ==
  \E q \in 1 .. n - 1 :
    /\ file[q] = [kind |-> "section", value |-> name]
    /\ \A r \in q + 1 .. n - 1 : file[r].kind # "section"

(* The hosts of a section among the lines before line n.                   *)
HostsBefore(file, n, name) == {p \in InSection(file, name) : p < n}

Here == pc = "hosts" =>
  \A name \in Named : loadType = name <=> InSectionAt(hosts, i, name)

(* What the targets of some hosts take in STORAGE_ADDRESS.                 *)
SizeOf(file, named) == SumFunctionOnSet([p \in named |-> Room(file[p].value)], named)

(* The lines of the host file before this one are taken account of.        *)
ReadUpTo == IF pc = "hosts" THEN i ELSE Len(hosts) + 1
Hosts(name) == HostsBefore(hosts, ReadUpTo, name)

Scanned ==
  pc # "idle" =>
    /\ ReadUpTo \in 1 .. Len(hosts) + 1
    /\ clients = Cardinality(Hosts("client"))
    /\ Len(storages) = Cardinality(Hosts("storage"))
    /\ \A p \in Hosts("server") :
         (\A q \in Hosts("server") : q <= p) => server = hosts[p].value
    /\ \A k \in 1 .. Len(storages) :
         \E p \in Hosts("storage") : storages[k] = hosts[p].value
    /\ \A p \in Hosts("storage") :
         \E k \in 1 .. Len(storages) : storages[k] = hosts[p].value
    /\ Size(storages) = SizeOf(hosts, Hosts("storage"))

(* A line as this run writes it.                                           *)
Fresh(line) ==
  /\ line[1] = "SERVER_ADDRESS" => line[2] = server
  /\ line[1] = "STORAGE_ADDRESS" => line[2] = storages
  /\ line[1] = "CLIENT_COUNT" => line[2] = clients
  /\ line[1] = "STORAGE_COUNT" => line[2] = Len(storages)

Written ==
  /\ pc \in {"edit", "copy"} => \A p \in 1 .. Len(temp) : Fresh(temp[p])
  /\ pc = "copy" => \A p \in 1 .. Len(head) : Fresh(head[p])

(* The lines of a file are those of the header, with n of rest.            *)
Laid(file, n) ==
  /\ Len(file) <= Len(Header) + n
  /\ \A p \in 1 .. Len(file) : file[p][1] = Stretched(n)[p]
LaidOut(file, n) == Laid(file, n) /\ Len(file) = Len(Header) + n

(* The rest of the addresses in a file, and of those of this run.          *)
RestIn(file) == IF Long(file) THEN 1 ELSE 0
RestNow == IF FitsLine(storages) THEN 0 ELSE 1

(* Where a run is in the two files, unless it began with a header that was *)
(* cut off.  While temp.h is written the header is whole, while the header *)
(* is written temp.h is.                                                   *)
Files ==
  ~spoilt =>
    /\ pc \in {"hosts", "edit"} => LaidOut(head, strays + RestIn(head))
    /\ pc = "edit" =>
         /\ i <= Len(head) + 1
         /\ Len(temp) = i - 1 + IF i > AddressAt THEN RestNow ELSE 0
         /\ Laid(temp, strays + RestIn(head) + RestNow)
    /\ pc = "copy" =>
         /\ i <= Len(temp) + 1
         /\ LaidOut(temp, strays + RestNow)
         /\ head = SubSeq(temp, 1, i - 1)
    /\ pc = "idle" => IF Whole(head) THEN LaidOut(head, strays + RestIn(head))
                      ELSE Whole(temp)

HInv == TypeOK /\ Here /\ Scanned /\ Written /\ Files

-----------------------------------------------------------------------------
(* The next line of a host file.                                           *)

LEMMA SectionLine ==
  ASSUME NEW line \in Line, NEW name
  PROVE  line = [kind |-> "section", value |-> name]
           <=> line.kind = "section" /\ line.value = name
BY DEF Line

LEMMA SectionStep ==
  ASSUME NEW file \in Seq(Line), NEW n \in 1 .. Len(file), NEW name
  PROVE  InSectionAt(file, n + 1, name)
           <=> \/ file[n].kind = "section" /\ file[n].value = name
               \/ file[n].kind # "section" /\ InSectionAt(file, n, name)
<1>1. n \in Nat \ {0} /\ file[n] \in Line
  OBVIOUS
<1>2. ASSUME InSectionAt(file, n + 1, name)
      PROVE  \/ file[n].kind = "section" /\ file[n].value = name
             \/ file[n].kind # "section" /\ InSectionAt(file, n, name)
  <2>1. PICK q \in 1 .. n :
          /\ file[q] = [kind |-> "section", value |-> name]
          /\ \A r \in q + 1 .. n : file[r].kind # "section"
    BY <1>1, <1>2 DEF InSectionAt
  <2>2. CASE q = n
    BY <2>1, <2>2
  <2>3. CASE q # n
    <3>1. q \in 1 .. n - 1 /\ n \in q + 1 .. n
          /\ \A r \in q + 1 .. n - 1 : r \in q + 1 .. n
      BY <1>1, <2>3
    <3>2. InSectionAt(file, n, name)
      BY <2>1, <3>1 DEF InSectionAt
    <3>. QED BY <2>1, <3>1, <3>2
  <2>. QED BY <2>2, <2>3
<1>3. ASSUME file[n].kind = "section", file[n].value = name
      PROVE  InSectionAt(file, n + 1, name)
  <2>1. file[n] = [kind |-> "section", value |-> name]
    BY <1>1, <1>3, SectionLine
  <2>2. n \in 1 .. (n + 1) - 1 /\ \A r \in n + 1 .. (n + 1) - 1 : FALSE
    BY <1>1
  <2>. QED BY <2>1, <2>2 DEF InSectionAt
<1>4. ASSUME file[n].kind # "section", InSectionAt(file, n, name)
      PROVE  InSectionAt(file, n + 1, name)
  <2>1. PICK q \in 1 .. n - 1 :
          /\ file[q] = [kind |-> "section", value |-> name]
          /\ \A r \in q + 1 .. n - 1 : file[r].kind # "section"
    BY <1>4 DEF InSectionAt
  <2>2. q \in 1 .. (n + 1) - 1
        /\ \A r \in q + 1 .. (n + 1) - 1 : r = n \/ r \in q + 1 .. n - 1
    BY <1>1
  <2>. QED BY <1>4, <2>1, <2>2 DEF InSectionAt
<1>. QED BY <1>2, <1>3, <1>4

LEMMA InSectionMember ==
  ASSUME NEW file \in Seq(Line), NEW n \in 1 .. Len(file), NEW name
  PROVE  n \in InSection(file, name)
           <=> file[n].kind = "host" /\ InSectionAt(file, n, name)
<1>1. n \in Nat \ {0} /\ file[n] \in Line
  OBVIOUS
<1>2. ASSUME n \in InSection(file, name)
      PROVE  file[n].kind = "host" /\ InSectionAt(file, n, name)
  <2>1. PICK q \in 1 .. n - 1 :
          /\ file[q] = [kind |-> "section", value |-> name]
          /\ \A r \in q + 1 .. n : file[r].kind # "section"
    BY <1>2 DEF InSection
  <2>2. \A r \in q + 1 .. n - 1 : r \in q + 1 .. n
    BY <1>1
  <2>. QED BY <1>2, <2>1, <2>2 DEF InSection, InSectionAt
<1>3. ASSUME file[n].kind = "host", InSectionAt(file, n, name)
      PROVE  n \in InSection(file, name)
  <2>1. PICK q \in 1 .. n - 1 :
          /\ file[q] = [kind |-> "section", value |-> name]
          /\ \A r \in q + 1 .. n - 1 : file[r].kind # "section"
    BY <1>3 DEF InSectionAt
  <2>2. \A r \in q + 1 .. n : r = n \/ r \in q + 1 .. n - 1
    BY <1>1
  <2>. QED BY <1>3, <2>1, <2>2 DEF InSection
<1>. QED BY <1>2, <1>3

LEMMA HostsStep ==
  ASSUME NEW file \in Seq(Line), NEW n \in 1 .. Len(file), NEW name
  PROVE  /\ file[n].kind = "host" /\ InSectionAt(file, n, name) =>
              HostsBefore(file, n + 1, name) = HostsBefore(file, n, name) \cup {n}
         /\ ~(file[n].kind = "host" /\ InSectionAt(file, n, name)) =>
              HostsBefore(file, n + 1, name) = HostsBefore(file, n, name)
<1>1. n \in Nat /\ InSection(file, name) \subseteq 1 .. Len(file)
  BY DEF InSection
<1>2. \A p \in InSection(file, name) : p < n + 1 <=> p < n \/ p = n
  BY <1>1
<1>. QED BY <1>2, InSectionMember DEF HostsBefore

LEMMA HostsFinite ==
  ASSUME NEW file \in Seq(Line), NEW n \in Nat, NEW name
  PROVE  /\ IsFiniteSet(HostsBefore(file, n, name))
         /\ HostsBefore(file, n, name) \subseteq 1 .. Len(file)
         /\ n \notin HostsBefore(file, n, name)
         /\ \A p \in HostsBefore(file, n, name) : p < n
<1>1. HostsBefore(file, n, name) \subseteq 1 .. Len(file)
  BY DEF HostsBefore, InSection
<1>2. IsFiniteSet(1 .. Len(file))
  <2>1. 1 \in Int /\ Len(file) \in Int
    OBVIOUS
  <2>. QED BY <2>1, FS_Interval
<1>3. IsFiniteSet(HostsBefore(file, n, name))
  BY <1>1, <1>2, FS_Subset
<1>4. ~(n < n)
  OBVIOUS
<1>. QED BY <1>1, <1>3, <1>4 DEF HostsBefore

LEMMA HostsNone ==
  ASSUME NEW file \in Seq(Line), NEW name
  PROVE  HostsBefore(file, 1, name) = {}
<1>1. \A p \in InSection(file, name) : ~(p < 1)
  BY DEF InSection
<1>. QED BY <1>1 DEF HostsBefore

LEMMA HostsAll ==
  ASSUME NEW file \in Seq(Line), NEW name
  PROVE  HostsBefore(file, Len(file) + 1, name) = InSection(file, name)
<1>1. \A p \in InSection(file, name) : p < Len(file) + 1
  BY DEF InSection
<1>. QED BY <1>1 DEF HostsBefore

-----------------------------------------------------------------------------
(* What addresses take in STORAGE_ADDRESS.                                 *)

Targets == Target \cup {NoTarget}

LEMMA RoomType ==
  ASSUME NEW target \in Targets
  PROVE  Room(target) \in Nat \ {0}
<1>1. target # NoTarget => Width[target] \in Nat
  BY HostAssumption DEF Targets
<1>. QED BY <1>1 DEF Room

LEMMA SizeEmpty == Size(<<>>) = 0
<1>1. Len(<<>>) = 0 /\ 1 .. 0 = {}
  OBVIOUS
<1>. QED BY <1>1, SumEmpty DEF Size, SizeUpTo

LEMMA SizeAppend ==
  ASSUME NEW v \in Seq(Targets), NEW target \in Targets
  PROVE  Size(Append(v, target)) = Size(v) + Room(target)
<1>. DEFINE w == Append(v, target)
            f == [k \in 1 .. Len(v) |-> Room(v[k])]
            g == [k \in 1 .. Len(w) |-> Room(w[k])]
<1>1. Len(v) \in Nat /\ Len(w) = Len(v) + 1 /\ w[Len(v) + 1] = target
      /\ \A k \in 1 .. Len(v) : w[k] = v[k] /\ v[k] \in Targets
  OBVIOUS
<1>2. \A k \in 1 .. Len(v) : f[k] \in Nat /\ g[k] = f[k]
  BY <1>1, RoomType
<1>3. g[Len(v) + 1] = Room(target) /\ Room(target) \in Nat
  BY <1>1, RoomType
<1>. HIDE DEF f, g
<1>4. SumFunctionOnSet(g, 1 .. Len(v) + 1) = SumFunctionOnSet(f, 1 .. Len(v)) + g[Len(v) + 1]
  BY <1>1, <1>2, <1>3, SumAppend
<1>. QED BY <1>1, <1>3, <1>4 DEF Size, SizeUpTo, f, g

LEMMA SizeUpToGrows ==
  ASSUME NEW v \in Seq(Targets), NEW n \in 1 .. Len(v)
  PROVE  /\ SizeUpTo(v, n) \in Nat /\ Size(v) \in Nat
         /\ SizeUpTo(v, n) <= Size(v)
<1>. DEFINE f == [k \in 1 .. n |-> Room(v[k])]
            g == [k \in 1 .. Len(v) |-> Room(v[k])]
<1>1. IsFiniteSet(1 .. Len(v)) /\ IsFiniteSet(1 .. n) /\ 1 .. n \in SUBSET (1 .. Len(v))
  BY FS_Interval
<1>2. \A k \in 1 .. Len(v) : g[k] \in Nat
  BY RoomType
<1>3. \A k \in 1 .. n : g[k] \in Int /\ f[k] = g[k] /\ f[k] \in Nat
  BY <1>1, <1>2
<1>. HIDE DEF f, g
<1>4. SumFunctionOnSet(f, 1 .. n) = SumFunctionOnSet(g, 1 .. n)
  BY <1>1, <1>3, SumSame
<1>5. SumFunctionOnSet(g, 1 .. n) <= SumFunctionOnSet(g, 1 .. Len(v))
  BY <1>1, <1>2, SumSubset
<1>6. SumFunctionOnSet(f, 1 .. n) \in Nat /\ SumFunctionOnSet(g, 1 .. Len(v)) \in Nat
  BY <1>1, <1>2, <1>3, SumNat
<1>. QED BY <1>4, <1>5, <1>6 DEF Size, SizeUpTo, f, g

LEMMA SizeOfNone ==
  ASSUME NEW file
  PROVE  SizeOf(file, {}) = 0
BY SumEmpty DEF SizeOf

LEMMA SizeOfAdds ==
  ASSUME NEW file, NEW named, IsFiniteSet(named), NEW n, n \notin named,
         \A p \in named \cup {n} : file[p].value \in Targets
  PROVE  SizeOf(file, named \cup {n}) = SizeOf(file, named) + Room(file[n].value)
<1>. DEFINE f == [p \in named |-> Room(file[p].value)]
            g == [p \in named \cup {n} |-> Room(file[p].value)]
<1>1. \A p \in named : f[p] \in Int /\ g[p] = f[p] /\ g[p] \in Int
  BY RoomType
<1>2. g[n] = Room(file[n].value) /\ g[n] \in Int
  BY RoomType
<1>. HIDE DEF f, g
<1>3. SumFunctionOnSet(g, named \cup {n}) = SumFunctionOnSet(g, named) + g[n]
  BY <1>1, <1>2, SumAdds
<1>4. SumFunctionOnSet(g, named) = SumFunctionOnSet(f, named)
  BY <1>1, SumSame
<1>. QED BY <1>2, <1>3, <1>4 DEF SizeOf, f, g

LEMMA HostValue ==
  ASSUME NEW file \in Seq(Line), NEW n \in Nat, NEW name, NEW p \in HostsBefore(file, n, name)
  PROVE  file[p].value \in Targets
<1>1. p \in 1 .. Len(file) /\ file[p].kind = "host"
  BY DEF HostsBefore, InSection
<1>2. file[p] \in Line
  BY <1>1
<1>. QED BY <1>1, <1>2 DEF Line, Targets

-----------------------------------------------------------------------------
(* Reading.                                                                *)

LEMMA StartReads ==
  ASSUME HInv, NEW file \in HostFile, Start(file)
  PROVE  Here' /\ Scanned'
<1>1. file \in Seq(Line)
  BY HostAssumption
<1>2. /\ pc' = "hosts" /\ hosts' = file /\ i' = 1 /\ loadType' = "none"
      /\ clients' = 0 /\ storages' = <<>>
  BY DEF Start
<1>3. Here'
  <2>1. \A name \in Named : loadType' # name /\ ~InSectionAt(file, 1, name)
    BY <1>2 DEF InSectionAt, Named
  <2>. QED BY <1>2, <2>1 DEF Here
<1>4. ReadUpTo' = 1 /\ 1 \in 1 .. Len(hosts') + 1
  BY <1>1, <1>2 DEF ReadUpTo
<1>5. \A name : Hosts(name)' = {}
  BY <1>1, <1>2, <1>4, HostsNone DEF Hosts
<1>6. Len(storages') = 0 /\ Cardinality({}) = 0
  BY <1>2, FS_EmptySet
<1>7. clients' = Cardinality(Hosts("client")') /\ Len(storages') = Cardinality(Hosts("storage")')
  BY <1>2, <1>5, <1>6
<1>8. \A k \in 1 .. Len(storages') : FALSE
  BY <1>6
<1>9. Size(storages') = SizeOf(hosts', Hosts("storage")')
  BY <1>2, <1>5, SizeEmpty, SizeOfNone
<1>. QED BY <1>3, <1>4, <1>5, <1>7, <1>8, <1>9 DEF Scanned

LEMMA ReadHostReads ==
  ASSUME HInv, ReadHost
  PROVE  Here' /\ Scanned'
<1>. DEFINE line == hosts[i]
<1>1. /\ pc = "hosts" /\ pc' = "hosts" /\ hosts' = hosts /\ hosts \in Seq(Line)
      /\ i \in 1 .. Len(hosts) /\ i' = i + 1 /\ line \in Line /\ i \in Nat
      /\ storages \in Seq(Target \cup {NoTarget}) /\ clients \in Nat
  BY DEF ReadHost, HInv, TypeOK
<1>2. /\ loadType' = NextType(line)
      /\ server' = IF line.kind = "host" /\ loadType = "server" THEN line.value ELSE server
      /\ clients' = IF line.kind = "host" /\ loadType = "client" THEN clients + 1 ELSE clients
      /\ storages' = IF line.kind = "host" /\ loadType = "storage"
                     THEN Append(storages, line.value) ELSE storages
  BY DEF ReadHost
<1>3. \A name \in Named : loadType = name <=> InSectionAt(hosts, i, name)
  BY <1>1 DEF HInv, Here
<1>4. Here'
  <2>1. ASSUME NEW name \in Named
        PROVE  loadType' = name <=> InSectionAt(hosts, i + 1, name)
    <3>1. InSectionAt(hosts, i + 1, name)
            <=> \/ line.kind = "section" /\ line.value = name
                \/ line.kind # "section" /\ InSectionAt(hosts, i, name)
      BY <1>1, SectionStep
    <3>. QED BY <3>1, <1>2, <1>3 DEF NextType
  <2>. QED BY <2>1, <1>1 DEF Here
<1>5. ReadUpTo = i /\ ReadUpTo' = i + 1 /\ ReadUpTo' \in 1 .. Len(hosts') + 1
  BY <1>1 DEF ReadUpTo
<1>. DEFINE old(name) == HostsBefore(hosts, i, name)
            new(name) == HostsBefore(hosts, i + 1, name)
<1>6. \A name : Hosts(name) = old(name) /\ Hosts(name)' = new(name)
  BY <1>1, <1>5 DEF Hosts
<1>7. ASSUME NEW name \in Named
      PROVE  /\ line.kind = "host" /\ loadType = name => new(name) = old(name) \cup {i}
             /\ ~(line.kind = "host" /\ loadType = name) => new(name) = old(name)
             /\ IsFiniteSet(old(name)) /\ i \notin old(name)
             /\ \A p \in old(name) : p < i
             /\ old(name) \subseteq 1 .. Len(hosts)
  BY <1>1, <1>3, HostsStep, HostsFinite
<1>8. \A name \in Named :
        Cardinality(new(name)) =
          IF line.kind = "host" /\ loadType = name THEN Cardinality(old(name)) + 1
          ELSE Cardinality(old(name))
  BY <1>7, FS_AddElement
<1>. HIDE DEF old, new
<1>9. {"server", "client", "storage"} = Named
  BY DEF Named
<1>10. /\ clients = Cardinality(old("client"))
       /\ Len(storages) = Cardinality(old("storage"))
       /\ \A p \in old("server") :
            (\A q \in old("server") : q <= p) => server = hosts[p].value
       /\ \A k \in 1 .. Len(storages) :
            \E p \in old("storage") : storages[k] = hosts[p].value
       /\ \A p \in old("storage") :
            \E k \in 1 .. Len(storages) : storages[k] = hosts[p].value
       /\ Size(storages) = SizeOf(hosts, old("storage"))
  BY <1>1, <1>6 DEF HInv, Scanned
<1>11. clients' = Cardinality(new("client"))
  BY <1>2, <1>8, <1>9, <1>10
<1>12. Len(storages') = Cardinality(new("storage"))
  <2>1. line.kind = "host" => Len(Append(storages, line.value)) = Len(storages) + 1
    BY <1>1
  <2>. QED BY <2>1, <1>2, <1>8, <1>9, <1>10
<1>13. ASSUME NEW p \in new("server"), \A q \in new("server") : q <= p
       PROVE  server' = hosts[p].value
  <2>1. CASE line.kind = "host" /\ loadType = "server"
    <3>1. i \in new("server") /\ (p = i \/ p \in old("server"))
      BY <2>1, <1>7, <1>9
    <3>2. i <= p
      BY <3>1, <1>13
    <3>3. p \in old("server") => p < i /\ p \in Int
      BY <1>7, <1>9
    <3>4. p = i
      BY <3>1, <3>2, <3>3, <1>1
    <3>. QED BY <3>4, <2>1, <1>2
  <2>2. CASE ~(line.kind = "host" /\ loadType = "server")
    <3>1. new("server") = old("server")
      BY <2>2, <1>7, <1>9
    <3>. QED BY <3>1, <2>2, <1>2, <1>10, <1>13
  <2>. QED BY <2>1, <2>2
<1>14. ASSUME NEW k \in 1 .. Len(storages')
       PROVE  \E p \in new("storage") : storages'[k] = hosts[p].value
  <2>1. CASE line.kind = "host" /\ loadType = "storage"
    <3>1. /\ new("storage") = old("storage") \cup {i}
          /\ storages' = Append(storages, line.value)
      BY <2>1, <1>2, <1>7, <1>9
    <3>2. CASE k = Len(storages) + 1
      <4>1. storages'[k] = line.value
        BY <3>1, <3>2, <1>1
      <4>. QED BY <4>1, <3>1
    <3>3. CASE k # Len(storages) + 1
      <4>1. k \in 1 .. Len(storages) /\ storages'[k] = storages[k]
        BY <3>1, <3>3, <1>1
      <4>. QED BY <4>1, <3>1, <1>10
    <3>. QED BY <3>2, <3>3
  <2>2. CASE ~(line.kind = "host" /\ loadType = "storage")
    <3>1. new("storage") = old("storage") /\ storages' = storages
      BY <2>2, <1>2, <1>7, <1>9
    <3>. QED BY <3>1, <1>10
  <2>. QED BY <2>1, <2>2
<1>15. ASSUME NEW p \in new("storage")
       PROVE  \E k \in 1 .. Len(storages') : storages'[k] = hosts[p].value
  <2>1. CASE line.kind = "host" /\ loadType = "storage"
    <3>1. /\ new("storage") = old("storage") \cup {i}
          /\ storages' = Append(storages, line.value)
      BY <2>1, <1>2, <1>7, <1>9
    <3>2. /\ Len(storages) + 1 \in 1 .. Len(storages')
          /\ storages'[Len(storages) + 1] = line.value
          /\ \A k \in 1 .. Len(storages) : k \in 1 .. Len(storages') /\ storages'[k] = storages[k]
      BY <3>1, <1>1
    <3>. QED BY <3>1, <3>2, <1>10
  <2>2. CASE ~(line.kind = "host" /\ loadType = "storage")
    <3>1. new("storage") = old("storage") /\ storages' = storages
      BY <2>2, <1>2, <1>7, <1>9
    <3>. QED BY <3>1, <1>10
  <2>. QED BY <2>1, <2>2
<1>16. Size(storages') = SizeOf(hosts, new("storage"))
  <2>1. CASE line.kind = "host" /\ loadType = "storage"
    <3>1. /\ new("storage") = old("storage") \cup {i}
          /\ storages' = Append(storages, line.value)
          /\ IsFiniteSet(old("storage")) /\ i \notin old("storage")
      BY <2>1, <1>2, <1>7, <1>9
    <3>2. line.value \in Targets
      BY <2>1, <1>1 DEF Line, Targets
    <3>3. \A p \in old("storage") : hosts[p].value \in Targets
      BY <1>1, HostValue DEF old
    <3>4. storages \in Seq(Targets)
      BY <1>1 DEF Targets
    <3>5. Size(storages') = Size(storages) + Room(line.value)
      BY <3>1, <3>2, <3>4, SizeAppend
    <3>6. SizeOf(hosts, new("storage")) = SizeOf(hosts, old("storage")) + Room(line.value)
      BY <3>1, <3>2, <3>3, SizeOfAdds
    <3>. QED BY <3>5, <3>6, <1>10
  <2>2. CASE ~(line.kind = "host" /\ loadType = "storage")
    <3>1. new("storage") = old("storage") /\ storages' = storages
      BY <2>2, <1>2, <1>7, <1>9
    <3>. QED BY <3>1, <1>10
  <2>. QED BY <2>1, <2>2
<1>17. Scanned'
  BY <1>1, <1>5, <1>6, <1>11, <1>12, <1>13, <1>14, <1>15, <1>16 DEF Scanned
<1>. QED BY <1>4, <1>17

LEMMA OpenTempReads ==
  ASSUME HInv, OpenTemp
  PROVE  Here' /\ Scanned'
<1>1. /\ pc = "hosts" /\ pc' = "edit" /\ hosts' = hosts /\ hosts \in Seq(Line)
      /\ i > Len(hosts) /\ i \in Nat
      /\ UNCHANGED <<server, clients, storages>>
  BY DEF OpenTemp, found, HInv, TypeOK
<1>2. ReadUpTo' = ReadUpTo /\ ReadUpTo \in 1 .. Len(hosts) + 1
  BY <1>1 DEF ReadUpTo, HInv, Scanned
<1>3. \A name : Hosts(name)' = Hosts(name)
  BY <1>1, <1>2 DEF Hosts
<1>. QED BY <1>1, <1>2, <1>3 DEF HInv, Here, Scanned

(* The steps after it leave what was read alone.                           *)
LEMMA LaterReads ==
  ASSUME HInv, UNCHANGED <<hosts, server, clients, storages>>,
         pc' = "idle" \/ (pc \in {"edit", "copy"} /\ pc' \in {"edit", "copy"})
  PROVE  Here' /\ Scanned'
<1>1. CASE pc' = "idle"
  BY <1>1 DEF Here, Scanned
<1>2. CASE pc \in {"edit", "copy"} /\ pc' \in {"edit", "copy"}
  <2>1. ReadUpTo' = ReadUpTo
    BY <1>2 DEF ReadUpTo
  <2>2. \A name : Hosts(name)' = Hosts(name)
    BY <2>1 DEF Hosts
  <2>. QED BY <1>2, <2>1, <2>2 DEF HInv, Here, Scanned
<1>. QED BY <1>1, <1>2

-----------------------------------------------------------------------------
(* The lines of a header with some lines of rest.                          *)

LEMMA HeaderLines ==
  /\ Len(Header) \in Nat /\ AddressAt \in 1 .. Len(Header) - 1
  /\ \A p \in 1 .. Len(Header) :
       /\ Header[p][1] = "STORAGE_ADDRESS" <=> p = AddressAt
       /\ Header[p][1] = "end" <=> p = Len(Header)
       /\ Header[p][1] # "rest"
<1>1. Len(Header) \in Nat
  BY HostAssumption
<1>2. "STORAGE_ADDRESS" \in Replaced
  BY DEF Replaced
<1>3. PICK a \in 1 .. Len(Header) :
        \A q \in 1 .. Len(Header) : Header[q][1] = "STORAGE_ADDRESS" <=> q = a
  BY <1>2, HostAssumption
<1>4. AddressAt = a
  BY <1>3 DEF AddressAt
<1>5. a # Len(Header)
  BY <1>1, <1>3, HostAssumption
<1>. QED BY <1>1, <1>3, <1>4, <1>5, HostAssumption

LEMMA StretchedLines ==
  ASSUME NEW n \in Nat, NEW p \in 1 .. Len(Header) + n
  PROVE  /\ Stretched(n)[p] = IF p <= AddressAt THEN Header[p][1]
                              ELSE IF p <= AddressAt + n THEN "rest"
                              ELSE Header[p - n][1]
         /\ Stretched(n)[p] = "STORAGE_ADDRESS" <=> p = AddressAt
         /\ Stretched(n)[p] = "end" <=> p = Len(Header) + n
         /\ Stretched(n)[p] = "rest" <=> p \in AddressAt + 1 .. AddressAt + n
<1>1. Stretched(n)[p] = IF p <= AddressAt THEN Header[p][1]
                        ELSE IF p <= AddressAt + n THEN "rest"
                        ELSE Header[p - n][1]
  BY DEF Stretched
<1>2. CASE p <= AddressAt
  <2>1. p \in 1 .. Len(Header) /\ p # Len(Header) /\ p # Len(Header) + n
        /\ p \notin AddressAt + 1 .. AddressAt + n
    BY <1>2, HeaderLines
  <2>. QED BY <1>1, <1>2, <2>1, HeaderLines
<1>3. CASE p > AddressAt /\ p <= AddressAt + n
  <2>1. ~(p <= AddressAt) /\ p \in AddressAt + 1 .. AddressAt + n
        /\ p # AddressAt /\ p # Len(Header) + n
    BY <1>3, HeaderLines
  <2>. QED BY <1>1, <1>3, <2>1
<1>4. CASE p > AddressAt + n
  <2>1. p - n \in 1 .. Len(Header) /\ p - n # AddressAt /\ ~(p <= AddressAt)
        /\ ~(p <= AddressAt + n) /\ p # AddressAt
        /\ p \notin AddressAt + 1 .. AddressAt + n
        /\ (p - n = Len(Header) <=> p = Len(Header) + n)
    BY <1>4, HeaderLines
  <2>2. Stretched(n)[p] = Header[p - n][1]
    BY <1>1, <2>1
  <2>. QED BY <1>1, <2>1, <2>2, HeaderLines
<1>5. p <= AddressAt \/ (p > AddressAt /\ p <= AddressAt + n) \/ p > AddressAt + n
  BY HeaderLines
<1>. QED BY <1>2, <1>3, <1>4, <1>5

(* A line further on in a file with one line of rest more.                 *)
LEMMA StretchedShifts ==
  ASSUME NEW n \in Nat, NEW o \in {0, 1}, NEW p \in 1 .. Len(Header) + n
  PROVE  /\ p <= AddressAt => Stretched(n + o)[p] = Stretched(n)[p]
         /\ p > AddressAt => Stretched(n + o)[p + o] = Stretched(n)[p]
<1>1. n + o \in Nat /\ p \in 1 .. Len(Header) + (n + o) /\ p + o \in 1 .. Len(Header) + (n + o)
  BY HeaderLines
<1>2. CASE p <= AddressAt
  <2>1. Stretched(n + o)[p] = Header[p][1] /\ Stretched(n)[p] = Header[p][1]
    BY <1>1, <1>2, StretchedLines
  <2>2. ~(p > AddressAt)
    BY <1>2, HeaderLines
  <2>. QED BY <2>1, <2>2
<1>3. CASE p > AddressAt
  <2>. DEFINE m == n + o
              q == p + o
  <2>1. /\ ~(p <= AddressAt) /\ ~(q <= AddressAt) /\ q - m = p - n
        /\ (p <= AddressAt + n <=> q <= AddressAt + m)
    BY <1>3, HeaderLines
  <2>2. m \in Nat /\ q \in 1 .. Len(Header) + m
    BY <1>1
  <2>. HIDE DEF m, q
  <2>3. Stretched(m)[q] = IF q <= AddressAt THEN Header[q][1]
                          ELSE IF q <= AddressAt + m THEN "rest" ELSE Header[q - m][1]
    BY <2>2, StretchedLines
  <2>4. Stretched(n)[p] = IF p <= AddressAt THEN Header[p][1]
                          ELSE IF p <= AddressAt + n THEN "rest" ELSE Header[p - n][1]
    BY StretchedLines
  <2>5. Stretched(m)[q] = Stretched(n)[p]
    BY <2>1, <2>3, <2>4
  <2>. QED BY <2>1, <2>5 DEF m, q
<1>4. p <= AddressAt \/ p > AddressAt
  BY HeaderLines
<1>. QED BY <1>2, <1>3, <1>4

(* A file is whole just if it has all of its lines.                        *)
LEMMA LaidWhole ==
  ASSUME NEW file \in Seq(Macro), NEW n \in Nat, Laid(file, n)
  PROVE  Whole(file) <=> Len(file) = Len(Header) + n
<1>1. Len(Header) \in Nat \ {0} /\ Len(file) \in Nat /\ Len(file) <= Len(Header) + n
  BY HeaderLines DEF Laid
<1>2. file = <<>> <=> Len(file) = 0
  OBVIOUS
<1>3. CASE Len(file) = 0
  BY <1>1, <1>2, <1>3 DEF Whole
<1>4. CASE Len(file) # 0
  <2>1. Len(file) \in 1 .. Len(file) /\ Len(file) \in 1 .. Len(Header) + n
    BY <1>1, <1>4
  <2>2. file[Len(file)][1] = Stretched(n)[Len(file)]
    BY <2>1 DEF Laid
  <2>. QED BY <1>2, <1>4, <2>1, <2>2, StretchedLines DEF Whole
<1>. QED BY <1>3, <1>4

(* What a run has written has a rest just if its own addresses have one.   *)
LEMMA FreshLong ==
  ASSUME NEW file \in Seq(Macro), NEW n \in Nat, LaidOut(file, n),
         \A p \in 1 .. Len(file) : Fresh(file[p])
  PROVE  RestIn(file) = RestNow
<1>1. AddressAt \in 1 .. Len(file) /\ Len(file) = Len(Header) + n
  BY HeaderLines DEF LaidOut
<1>2. \A p \in 1 .. Len(file) : file[p][1] = "STORAGE_ADDRESS" <=> p = AddressAt
  BY <1>1, StretchedLines DEF LaidOut, Laid
<1>3. file[AddressAt][2] = storages
  BY <1>1, <1>2 DEF Fresh
<1>4. Long(file) <=> ~FitsLine(storages)
  BY <1>1, <1>2, <1>3 DEF Long
<1>. QED BY <1>4 DEF RestIn, RestNow

LEMMA RestType ==
  /\ RestNow \in {0, 1}
  /\ \A file : RestIn(file) \in {0, 1}
BY DEF RestNow, RestIn

-----------------------------------------------------------------------------
(* Writing.                                                                *)

LEMMA EditedFresh ==
  ASSUME NEW line \in Macro
  PROVE  Fresh(Edited(line)) /\ Edited(line)[1] = line[1]
<1>1. CASE line[1] = "SERVER_ADDRESS"
  BY <1>1 DEF Edited, Fresh
<1>2. CASE line[1] = "STORAGE_ADDRESS"
  BY <1>2 DEF Edited, Fresh
<1>3. CASE line[1] = "CLIENT_COUNT"
  BY <1>3 DEF Edited, Fresh
<1>4. CASE line[1] = "STORAGE_COUNT"
  BY <1>4 DEF Edited, Fresh
<1>5. CASE line[1] \notin Replaced
  BY <1>5 DEF Edited, Fresh, Replaced
<1>. QED BY <1>1, <1>2, <1>3, <1>4, <1>5 DEF Replaced

(* The lines that a line of the header is written as.                      *)
LEMMA EditedPieces ==
  ASSUME TypeOK, NEW line \in Macro
  PROVE  LET new == Pieces(Edited(line)) IN
         /\ new \in Seq(Macro)
         /\ Len(new) = 1 + IF line[1] = "STORAGE_ADDRESS" THEN RestNow ELSE 0
         /\ new[1][1] = line[1]
         /\ Len(new) = 2 => new[2][1] = "rest"
         /\ \A p \in 1 .. Len(new) : Fresh(new[p])
<1>. DEFINE w == Edited(line)
            new == Pieces(w)
<1>1. w \in Macro /\ Fresh(w) /\ w[1] = line[1]
  BY EditedType, EditedFresh
<1>2. line[1] = "STORAGE_ADDRESS" => w[2] = storages
  BY <1>1 DEF Fresh
<1>. HIDE DEF w
<1>3. new \in Seq(Macro)
  BY <1>1, PiecesType
<1>4. Fresh(RestLine) /\ RestLine[1] = "rest"
  BY DEF Fresh, RestLine
<1>5. CASE line[1] = "STORAGE_ADDRESS" /\ ~FitsLine(storages)
  <2>1. new = <<w, RestLine>> /\ RestNow = 1
    BY <1>1, <1>2, <1>5 DEF Pieces, RestNow
  <2>. HIDE DEF new
  <2>2. Len(new) = 2 /\ new[1] = w /\ new[2] = RestLine
        /\ \A p \in 1 .. Len(new) : new[p] = w \/ new[p] = RestLine
    BY <2>1
  <2>. QED BY <1>1, <1>3, <1>4, <1>5, <2>1, <2>2 DEF new, w
<1>6. CASE ~(line[1] = "STORAGE_ADDRESS" /\ ~FitsLine(storages))
  <2>1. new = <<w>>
    BY <1>1, <1>2, <1>6 DEF Pieces
  <2>2. (IF line[1] = "STORAGE_ADDRESS" THEN RestNow ELSE 0) = 0
    BY <1>6 DEF RestNow
  <2>. HIDE DEF new
  <2>3. Len(new) = 1 /\ new[1] = w /\ \A p \in 1 .. Len(new) : new[p] = w
    BY <2>1
  <2>. QED BY <1>1, <1>3, <2>2, <2>3 DEF new, w
<1>. QED BY <1>5, <1>6

LEMMA Joined ==
  ASSUME NEW file \in Seq(Macro), NEW new \in Seq(Macro)
  PROVE  /\ Len(file \o new) = Len(file) + Len(new)
         /\ \A p \in 1 .. Len(file) : (file \o new)[p] = file[p]
         /\ \A p \in 1 .. Len(new) : (file \o new)[Len(file) + p] = new[p]
         /\ \A p \in 1 .. Len(file \o new) :
              p \in 1 .. Len(file)
              \/ (p - Len(file) \in 1 .. Len(new) /\ (file \o new)[p] = new[p - Len(file)])
OBVIOUS

LEMMA EditLineWrites ==
  ASSUME HInv, EditLine
  PROVE  Written' /\ Files'
<1>. DEFINE line == head[i]
            new == Pieces(Edited(line))
<1>1. /\ pc = "edit" /\ pc' = "edit" /\ head' = head /\ temp \in Seq(Macro)
      /\ UNCHANGED <<server, clients, storages, spoilt, strays>>
      /\ head \in Seq(Macro) /\ i \in 1 .. Len(head) /\ i' = i + 1
      /\ temp' = temp \o new /\ strays \in Nat /\ line \in Macro
  BY DEF EditLine, found, HInv, TypeOK
<1>2. /\ new \in Seq(Macro)
      /\ Len(new) = 1 + IF line[1] = "STORAGE_ADDRESS" THEN RestNow ELSE 0
      /\ new[1][1] = line[1]
      /\ Len(new) = 2 => new[2][1] = "rest"
      /\ \A p \in 1 .. Len(new) : Fresh(new[p])
  BY <1>1, EditedPieces DEF HInv
<1>. HIDE DEF new
<1>3. Written'
  <2>1. \A p \in 1 .. Len(temp') : Fresh(temp'[p])
    BY <1>1, <1>2, Joined DEF HInv, Written
  <2>. QED BY <1>1, <2>1 DEF Written, Fresh
<1>4. ASSUME ~spoilt
      PROVE  /\ LaidOut(head, strays + RestIn(head))
             /\ i + 1 <= Len(head) + 1
             /\ Len(temp') = i + IF i + 1 > AddressAt THEN RestNow ELSE 0
             /\ Laid(temp', strays + RestIn(head) + RestNow)
  <2>. DEFINE n == strays + RestIn(head)
              o == RestNow
  <2>1. n \in Nat /\ o \in {0, 1}
    BY <1>1, RestType
  <2>2. /\ LaidOut(head, n)
        /\ Len(temp) = i - 1 + IF i > AddressAt THEN o ELSE 0
        /\ Laid(temp, n + o)
    BY <1>1, <1>4 DEF HInv, Files
  <2>3. i \in 1 .. Len(Header) + n /\ line[1] = Stretched(n)[i]
    BY <1>1, <2>2 DEF LaidOut, Laid
  <2>4. line[1] = "STORAGE_ADDRESS" <=> i = AddressAt
    BY <2>1, <2>3, StretchedLines
  <2>. HIDE DEF n, o
  <2>5. Len(new) = 1 + IF i = AddressAt THEN o ELSE 0
    BY <1>2, <2>4 DEF o
  <2>6. Len(temp') = i + IF i + 1 > AddressAt THEN o ELSE 0
    <3>1. Len(temp') = Len(temp) + Len(new)
      BY <1>1, <1>2, Joined
    <3>. QED BY <3>1, <2>1, <2>2, <2>5, <1>1, HeaderLines
  <2>7. Len(temp') <= Len(Header) + (n + o)
    BY <2>1, <2>3, <2>6, HeaderLines
  <2>8. ASSUME NEW p \in 1 .. Len(temp')
        PROVE  temp'[p][1] = Stretched(n + o)[p]
    <3>1. CASE p \in 1 .. Len(temp)
      <4>1. temp'[p] = temp[p]
        BY <1>1, <1>2, <3>1, Joined
      <4>. QED BY <4>1, <3>1, <2>2 DEF Laid
    <3>2. CASE p \notin 1 .. Len(temp)
      <4>. DEFINE q == p - Len(temp)
      <4>1. q \in 1 .. Len(new) /\ temp'[p] = new[q]
        BY <1>1, <1>2, <3>2, Joined
      <4>2. CASE q = 1 /\ i <= AddressAt
        <5>1. p = i
          BY <4>2, <2>2, <2>8, <1>1, HeaderLines, <2>1
        <5>2. Stretched(n + o)[i] = Stretched(n)[i]
          BY <2>1, <2>3, <4>2, StretchedShifts
        <5>. QED BY <5>1, <5>2, <4>1, <4>2, <1>2, <2>3
      <4>3. CASE q = 1 /\ i > AddressAt
        <5>1. p = i + o
          BY <4>3, <2>2, <2>8, <1>1, HeaderLines, <2>1
        <5>2. Stretched(n + o)[i + o] = Stretched(n)[i]
          BY <2>1, <2>3, <4>3, StretchedShifts
        <5>. QED BY <5>1, <5>2, <4>1, <4>3, <1>2, <2>3
      <4>4. CASE q # 1
        <5>1. q = 2 /\ Len(new) = 2 /\ i = AddressAt /\ o = 1
          BY <4>1, <4>4, <2>1, <2>5
        <5>2. p = AddressAt + 1
          BY <5>1, <2>1, <2>2, <1>1, HeaderLines
        <5>3. n + o \in Nat /\ p \in 1 .. Len(Header) + (n + o)
              /\ p \in AddressAt + 1 .. AddressAt + (n + o)
          BY <5>1, <5>2, <2>1, HeaderLines
        <5>4. Stretched(n + o)[p] = "rest"
          BY <5>3, StretchedLines
        <5>. QED BY <5>1, <5>4, <4>1, <1>2
      <4>5. i <= AddressAt \/ i > AddressAt
        BY <1>1, HeaderLines
      <4>. QED BY <4>2, <4>3, <4>4, <4>5
    <3>. QED BY <3>1, <3>2
  <2>. QED BY <1>1, <2>2, <2>6, <2>7, <2>8 DEF Laid, n, o
<1>5. Files'
  <2>1. RestNow' = RestNow /\ RestIn(head)' = RestIn(head) /\ pc' = "edit"
    BY <1>1 DEF RestNow, RestIn, FitsLine, Size, SizeUpTo, Long
  <2>2. i' - 1 = i
    BY <1>1
  <2>. QED BY <1>1, <1>4, <2>1, <2>2 DEF Files
<1>. QED BY <1>3, <1>5

LEMMA OpenHeadWrites ==
  ASSUME HInv, OpenHead
  PROVE  Written' /\ Files'
<1>1. /\ pc = "edit" /\ pc' = "copy" /\ head' = <<>> /\ temp' = temp /\ i' = 1
      /\ UNCHANGED <<server, clients, storages, spoilt>>
      /\ i > Len(head) /\ i \in Nat /\ head \in Seq(Macro) /\ temp \in Seq(Macro)
      /\ strays \in Nat /\ strays' = strays + RestIn(head)
  BY DEF OpenHead, found, HInv, TypeOK, RestIn
<1>2. Written'
  <2>1. \A p \in 1 .. Len(temp') : Fresh(temp'[p])
    BY <1>1 DEF HInv, Written
  <2>2. \A p \in 1 .. Len(<<>>) : FALSE
    OBVIOUS
  <2>. QED BY <1>1, <2>1, <2>2 DEF Written, Fresh
<1>3. ASSUME ~spoilt
      PROVE  LaidOut(temp, strays' + RestNow)
  <2>1. /\ LaidOut(head, strays + RestIn(head)) /\ i <= Len(head) + 1
        /\ Len(temp) = i - 1 + IF i > AddressAt THEN RestNow ELSE 0
        /\ Laid(temp, strays + RestIn(head) + RestNow)
    BY <1>1, <1>3 DEF HInv, Files
  <2>2. RestNow \in {0, 1} /\ RestIn(head) \in {0, 1}
    BY RestType
  <2>3. i = Len(head) + 1 /\ Len(head) = Len(Header) + (strays + RestIn(head))
    BY <1>1, <2>1 DEF LaidOut
  <2>4. Len(temp) = Len(Header) + (strays + RestIn(head) + RestNow)
    BY <1>1, <2>1, <2>2, <2>3, HeaderLines
  <2>. QED BY <1>1, <2>1, <2>4 DEF LaidOut
<1>4. Files'
  <2>1. RestNow' = RestNow /\ 1 <= Len(temp) + 1 /\ <<>> = SubSeq(temp, 1, 1 - 1)
    BY <1>1 DEF RestNow, FitsLine, Size, SizeUpTo
  <2>. QED BY <1>1, <1>3, <2>1 DEF Files
<1>. QED BY <1>2, <1>4

LEMMA CopyLineWrites ==
  ASSUME HInv, CopyLine
  PROVE  Written' /\ Files'
<1>1. /\ pc = "copy" /\ pc' = "copy" /\ temp' = temp /\ head \in Seq(Macro)
      /\ UNCHANGED <<server, clients, storages, spoilt, strays>>
      /\ temp \in Seq(Macro) /\ i \in 1 .. Len(temp) /\ i' = i + 1
      /\ head' = Append(head, temp[i])
  BY DEF CopyLine, found, HInv, TypeOK
<1>2. Written'
  <2>1. \A p \in 1 .. Len(temp) : Fresh(temp[p])
    BY <1>1 DEF HInv, Written
  <2>2. \A p \in 1 .. Len(head) : Fresh(head[p])
    BY <1>1 DEF HInv, Written
  <2>3. \A p \in 1 .. Len(head') :
          head'[p] = temp[i] \/ (p \in 1 .. Len(head) /\ head'[p] = head[p])
    BY <1>1
  <2>4. \A p \in 1 .. Len(head') : Fresh(head'[p])
    BY <1>1, <2>1, <2>2, <2>3
  <2>. QED BY <1>1, <2>1, <2>4 DEF Written, Fresh
<1>3. ASSUME ~spoilt
      PROVE  LaidOut(temp, strays + RestNow) /\ head' = SubSeq(temp, 1, i)
  <2>1. LaidOut(temp, strays + RestNow) /\ head = SubSeq(temp, 1, i - 1)
    BY <1>1, <1>3 DEF HInv, Files
  <2>2. Append(SubSeq(temp, 1, i - 1), temp[i]) = SubSeq(temp, 1, i)
    BY <1>1
  <2>. QED BY <1>1, <2>1, <2>2
<1>4. Files'
  <2>1. RestNow' = RestNow /\ i' <= Len(temp) + 1 /\ i' - 1 = i
    BY <1>1 DEF RestNow, FitsLine, Size, SizeUpTo
  <2>. QED BY <1>1, <1>3, <2>1 DEF Files
<1>. QED BY <1>2, <1>4

(* The header, as far as it is written: it is whole if all of it is.       *)
LEMMA CopyStops ==
  ASSUME HInv, pc = "copy", ~spoilt, NEW file, NEW n \in 0 .. Len(head),
         file = SubSeq(head, 1, n)
  PROVE  IF Whole(file) THEN LaidOut(file, strays + RestIn(file)) ELSE Whole(temp)
<1>1. /\ temp \in Seq(Macro) /\ head \in Seq(Macro) /\ strays \in Nat /\ i \in Nat \ {0}
      /\ LaidOut(temp, strays + RestNow) /\ head = SubSeq(temp, 1, i - 1)
      /\ i <= Len(temp) + 1
      /\ \A p \in 1 .. Len(head) : Fresh(head[p])
  BY DEF HInv, TypeOK, Files, Written
<1>2. strays + RestNow \in Nat
  BY <1>1, RestType
<1>3. Whole(temp)
  BY <1>1, <1>2, LaidWhole DEF LaidOut
<1>4. i - 1 \in 0 .. Len(temp)
  BY <1>1
<1>5. Len(head) = i - 1 /\ \A p \in 1 .. Len(head) : p \in 1 .. Len(temp) /\ head[p] = temp[p]
  BY <1>1, <1>4, CutOff
<1>6. /\ file \in Seq(Macro) /\ Len(file) = n
      /\ \A p \in 1 .. n : p \in 1 .. Len(head) /\ file[p] = head[p]
  BY <1>1, CutOff
<1>7. Laid(file, strays + RestNow)
  <2>1. Len(file) <= Len(Header) + (strays + RestNow)
    BY <1>1, <1>2, <1>4, <1>5, <1>6, HeaderLines DEF LaidOut
  <2>2. \A p \in 1 .. Len(file) : file[p][1] = Stretched(strays + RestNow)[p]
    BY <1>1, <1>5, <1>6 DEF LaidOut, Laid
  <2>. QED BY <2>1, <2>2 DEF Laid
<1>8. \A p \in 1 .. Len(file) : Fresh(file[p])
  BY <1>1, <1>6
<1>9. ASSUME Whole(file)
      PROVE  LaidOut(file, strays + RestIn(file))
  <2>1. Len(file) = Len(Header) + (strays + RestNow)
    BY <1>2, <1>6, <1>7, <1>9, LaidWhole
  <2>2. LaidOut(file, strays + RestNow)
    BY <1>7, <2>1 DEF LaidOut
  <2>3. RestIn(file) = RestNow
    BY <1>2, <1>6, <1>8, <2>2, FreshLong
  <2>. QED BY <2>2, <2>3
<1>. QED BY <1>3, <1>9

LEMMA CloseHeadWrites ==
  ASSUME HInv, CloseHead
  PROVE  Written' /\ Files'
<1>1. /\ pc = "copy" /\ pc' = "idle" /\ head' = head /\ temp' = temp
      /\ UNCHANGED <<spoilt, strays>> /\ head \in Seq(Macro)
  BY DEF CloseHead, HInv, TypeOK
<1>2. Len(head) \in 0 .. Len(head) /\ head = SubSeq(head, 1, Len(head))
  BY <1>1
<1>3. ~spoilt => IF Whole(head) THEN LaidOut(head, strays + RestIn(head)) ELSE Whole(temp)
  BY <1>1, <1>2, CopyStops
<1>4. Files'
  BY <1>1, <1>3 DEF Files
<1>. QED BY <1>1, <1>4 DEF Written

LEMMA KilledWrites ==
  ASSUME HInv, Killed
  PROVE  Written' /\ Files'
<1>1. pc' = "idle" /\ UNCHANGED <<spoilt, strays>> /\ pc \in {"hosts", "edit", "copy"}
      /\ strays \in Nat /\ head \in Seq(Macro)
  BY DEF Killed, HInv, TypeOK
<1>2. ASSUME ~spoilt
      PROVE  IF Whole(head') THEN LaidOut(head', strays + RestIn(head')) ELSE Whole(temp')
  <2>1. CASE pc = "copy"
    <3>1. temp' = temp /\ \E n \in 0 .. Len(head) : head' = SubSeq(head, 1, n)
      BY <2>1 DEF Killed
    <3>. QED BY <1>2, <2>1, <3>1, CopyStops
  <2>2. CASE pc # "copy"
    <3>1. head' = head
      BY <2>2 DEF Killed
    <3>2. LaidOut(head, strays + RestIn(head))
      BY <1>1, <1>2, <2>2 DEF HInv, Files
    <3>3. strays + RestIn(head) \in Nat
      BY <1>1, RestType
    <3>4. Whole(head)
      BY <1>1, <3>2, <3>3, LaidWhole DEF LaidOut
    <3>. QED BY <3>1, <3>2, <3>4
  <2>. QED BY <2>1, <2>2
<1>3. Files'
  BY <1>1, <1>2 DEF Files, RestIn, Long
<1>. QED BY <1>1, <1>3 DEF Written

LEMMA OpenTempWrites ==
  ASSUME HInv, OpenTemp
  PROVE  Written' /\ Files'
<1>1. /\ pc = "hosts" /\ pc' = "edit" /\ head' = head /\ temp' = <<>> /\ i' = 1
      /\ UNCHANGED <<server, clients, storages, spoilt, strays>>
      /\ head \in Seq(Macro) /\ strays \in Nat
  BY DEF OpenTemp, found, HInv, TypeOK
<1>2. Len(<<>>) = 0 /\ \A p \in 1 .. Len(<<>>) : FALSE
  OBVIOUS
<1>3. ASSUME ~spoilt
      PROVE  /\ LaidOut(head, strays + RestIn(head)) /\ 1 <= Len(head) + 1
             /\ 0 = 1 - 1 + IF 1 > AddressAt THEN RestNow ELSE 0
             /\ Laid(<<>>, strays + RestIn(head) + RestNow)
  <2>1. LaidOut(head, strays + RestIn(head))
    BY <1>1, <1>3 DEF HInv, Files
  <2>2. 0 <= Len(Header) + (strays + RestIn(head) + RestNow)
    BY <1>1, RestType, HeaderLines
  <2>3. 1 <= Len(head) + 1 /\ ~(1 > AddressAt)
    BY <1>1, HeaderLines
  <2>. QED BY <1>2, <2>1, <2>2, <2>3 DEF Laid
<1>4. Written'
  BY <1>1, <1>2 DEF Written
<1>5. Files'
  <2>1. RestNow' = RestNow /\ RestIn(head)' = RestIn(head)
    BY <1>1 DEF RestNow, RestIn, FitsLine, Size, SizeUpTo, Long
  <2>. QED BY <1>1, <1>2, <1>3, <2>1 DEF Files
<1>. QED BY <1>4, <1>5

LEMMA StartWrites ==
  ASSUME HInv, NEW file \in HostFile, Start(file)
  PROVE  Written' /\ Files'
<1>1. /\ pc = "idle" /\ pc' = "hosts" /\ head' = head /\ temp' = temp /\ strays' = strays
      /\ ~spoilt' => ~spoilt /\ Whole(head)
  BY DEF Start
<1>2. ~spoilt' => LaidOut(head, strays + RestIn(head))
  BY <1>1 DEF HInv, Files
<1>3. Files'
  BY <1>1, <1>2 DEF Files, RestIn, Long
<1>. QED BY <1>1, <1>3 DEF Written

-----------------------------------------------------------------------------
LEMMA HInitially == Init => HInv
<1>. SUFFICES ASSUME Init PROVE HInv
  OBVIOUS
<1>1. TypeOK
  BY TypeInit
<1>2. pc = "idle" /\ head = Header /\ strays = 0
  BY DEF Init
<1>3. Here /\ Scanned /\ Written
  BY <1>2 DEF Here, Scanned, Written
<1>4. Files
  <2>1. Header \in Seq(Macro) /\ Len(Header) \in Nat /\ Len(Header) + 0 = Len(Header)
    BY HostAssumption
  <2>2. ~Long(Header)
    BY HostAssumption DEF Long
  <2>3. \A p \in 1 .. Len(Header) : Header[p][1] = Stretched(0)[p]
    <3>1. ASSUME NEW p \in 1 .. Len(Header)
          PROVE  Header[p][1] = Stretched(0)[p]
      <4>1. p \in 1 .. Len(Header) + 0 /\ p - 0 = p /\ (p <= AddressAt + 0 <=> p <= AddressAt)
        <5>1. p \in Int /\ Len(Header) \in Nat /\ AddressAt \in Int
          BY HeaderLines
        <5>. QED BY <5>1
      <4>. QED BY <4>1, StretchedLines
    <3>. QED BY <3>1
  <2>4. strays + RestIn(head) = 0
    BY <1>2, <2>2 DEF RestIn
  <2>5. LaidOut(head, 0)
    BY <1>2, <2>1, <2>3 DEF LaidOut, Laid
  <2>6. Whole(head)
    BY <1>2, <2>1, <2>5, LaidWhole DEF LaidOut
  <2>. QED BY <1>2, <2>4, <2>5, <2>6 DEF Files
<1>. QED BY <1>1, <1>3, <1>4 DEF HInv

LEMMA HNextKeeps == HInv /\ [Next]_vars => HInv'
<1>. SUFFICES ASSUME HInv, [Next]_vars PROVE HInv'
  OBVIOUS
<1>1. TypeOK'
  BY TypeNext DEF HInv
<1>2. ASSUME NEW file \in HostFile, Start(file) PROVE HInv'
  BY <1>1, <1>2, StartReads, StartWrites DEF HInv
<1>3. CASE ReadHost
  <2>1. Here' /\ Scanned'
    BY <1>3, ReadHostReads
  <2>2. UNCHANGED <<pc, head, temp, spoilt, strays>> /\ pc = "hosts"
    BY <1>3 DEF ReadHost
  <2>3. Written' /\ Files'
    BY <2>2 DEF HInv, Written, Files, RestIn, Long
  <2>. QED BY <1>1, <2>1, <2>3 DEF HInv
<1>4. CASE OpenTemp
  BY <1>1, <1>4, OpenTempReads, OpenTempWrites DEF HInv
<1>5. CASE EditLine
  <2>1. Here' /\ Scanned'
    BY <1>5, LaterReads DEF EditLine, found
  <2>. QED BY <1>1, <1>5, <2>1, EditLineWrites DEF HInv
<1>6. CASE OpenHead
  <2>1. Here' /\ Scanned'
    BY <1>6, LaterReads DEF OpenHead, found
  <2>. QED BY <1>1, <1>6, <2>1, OpenHeadWrites DEF HInv
<1>7. CASE CopyLine
  <2>1. Here' /\ Scanned'
    BY <1>7, LaterReads DEF CopyLine, found
  <2>. QED BY <1>1, <1>7, <2>1, CopyLineWrites DEF HInv
<1>8. CASE CloseHead
  <2>1. Here' /\ Scanned'
    BY <1>8, LaterReads DEF CloseHead, found
  <2>. QED BY <1>1, <1>8, <2>1, CloseHeadWrites DEF HInv
<1>9. CASE Killed
  <2>1. Here' /\ Scanned'
    BY <1>9, LaterReads DEF Killed, found
  <2>. QED BY <1>1, <1>9, <2>1, KilledWrites DEF HInv
<1>10. CASE AtRest \/ UNCHANGED vars
  <2>1. UNCHANGED <<pc, hosts, i, loadType, server, clients, storages, head, temp, spoilt, strays>>
    BY <1>10 DEF AtRest, vars, found
  <2>2. ReadUpTo' = ReadUpTo /\ \A name : Hosts(name)' = Hosts(name)
    BY <2>1 DEF ReadUpTo, Hosts
  <2>3. Here' /\ Scanned'
    BY <2>1, <2>2 DEF HInv, Here, Scanned
  <2>4. Written'
    BY <2>1 DEF HInv, Written, Fresh
  <2>5. Files'
    <3>1. RestNow' = RestNow /\ RestIn(head)' = RestIn(head)
      BY <2>1 DEF RestNow, RestIn, FitsLine, Size, SizeUpTo, Long
    <3>. QED BY <2>1, <3>1 DEF HInv, Files
  <2>. QED BY <1>1, <2>3, <2>4, <2>5 DEF HInv
<1>. QED BY <1>2, <1>3, <1>4, <1>5, <1>6, <1>7, <1>8, <1>9, <1>10 DEF Next

LEMMA HInductive == Spec => []HInv
<1>. QED BY HInitially, HNextKeeps, PTL DEF Spec

(* However often the generator is run and killed, and whatever part of     *)
(* what it wrote is on the disk, idg_common.h or temp.h is a whole header, *)
(* as long as no run was begun with a header that was cut off.             *)
THEOREM HeaderSurvives == Spec => []HeaderNotLost
<1>1. ASSUME HInv PROVE HeaderNotLost
  <2>. SUFFICES ASSUME ~spoilt PROVE Whole(head) \/ Whole(temp)
    BY DEF HeaderNotLost
  <2>1. head \in Seq(Macro) /\ temp \in Seq(Macro) /\ strays \in Nat
        /\ pc \in {"idle", "hosts", "edit", "copy"}
    BY <1>1 DEF HInv, TypeOK
  <2>2. strays + RestIn(head) \in Nat /\ strays + RestNow \in Nat
    BY <2>1, RestType
  <2>3. CASE pc \in {"hosts", "edit"}
    <3>1. LaidOut(head, strays + RestIn(head))
      BY <1>1, <2>3 DEF HInv, Files
    <3>. QED BY <2>1, <2>2, <3>1, LaidWhole DEF LaidOut
  <2>4. CASE pc = "copy"
    <3>1. LaidOut(temp, strays + RestNow)
      BY <1>1, <2>4 DEF HInv, Files
    <3>. QED BY <2>1, <2>2, <3>1, LaidWhole DEF LaidOut
  <2>5. CASE pc = "idle"
    BY <1>1, <2>5 DEF HInv, Files
  <2>. QED BY <2>1, <2>3, <2>4, <2>5
<1>. QED BY <1>1, HInductive, PTL

-----------------------------------------------------------------------------
(* A header that has just been written.                                    *)

LEMMA WrittenWhole ==
  ASSUME HInv, AtClose
  PROVE  /\ head \in Seq(Macro) /\ strays \in Nat
         /\ LaidOut(head, strays + RestNow)
         /\ \A p \in 1 .. Len(head) : Fresh(head[p])
<1>1. /\ temp \in Seq(Macro) /\ head \in Seq(Macro) /\ strays \in Nat /\ i \in Nat
      /\ pc = "copy" /\ i > Len(temp) /\ i <= Len(temp) + 1
      /\ LaidOut(temp, strays + RestNow) /\ head = SubSeq(temp, 1, i - 1)
  BY DEF AtClose, HInv, TypeOK, Files
<1>2. i - 1 = Len(temp) /\ SubSeq(temp, 1, Len(temp)) = temp
  BY <1>1
<1>3. head = temp
  BY <1>1, <1>2
<1>. QED BY <1>1, <1>3 DEF HInv, Written

LEMMA WrittenValue ==
  ASSUME HInv, AtClose, NEW macro \in Replaced
  PROVE  /\ macro = "SERVER_ADDRESS" => Value(head, macro) = server
         /\ macro = "STORAGE_ADDRESS" => Value(head, macro) = storages
         /\ macro = "CLIENT_COUNT" => Value(head, macro) = clients
         /\ macro = "STORAGE_COUNT" => Value(head, macro) = Len(storages)
<1>. DEFINE lines == {head[p] : p \in 1 .. Len(head)}
            line == CHOOSE x \in lines : x[1] = macro
            n == strays + RestNow
<1>1. PICK p \in 1 .. Len(Header) : Header[p][1] = macro
  BY HostAssumption
<1>2. n \in Nat /\ LaidOut(head, n)
  BY WrittenWhole, RestType
<1>. HIDE DEF n
<1>3. \E q \in 1 .. Len(Header) + n : Stretched(n)[q] = macro
  <2>1. CASE p <= AddressAt
    <3>1. p \in 1 .. Len(Header) + n
      BY <1>2, HeaderLines
    <3>. QED BY <1>1, <1>2, <2>1, <3>1, StretchedLines
  <2>2. CASE ~(p <= AddressAt)
    <3>1. /\ p + n \in 1 .. Len(Header) + n /\ ~(p + n <= AddressAt)
          /\ ~(p + n <= AddressAt + n) /\ (p + n) - n = p
      BY <1>2, <2>2, HeaderLines
    <3>. QED BY <1>1, <1>2, <3>1, StretchedLines
  <2>. QED BY <2>1, <2>2
<1>4. \E x \in lines : x[1] = macro
  BY <1>2, <1>3 DEF LaidOut, Laid
<1>5. line \in lines /\ line[1] = macro
  BY <1>4
<1>6. Value(head, macro) = line[2]
  BY DEF Value
<1>. HIDE DEF line
<1>7. Fresh(line)
  BY <1>5, WrittenWhole
<1>. QED BY <1>5, <1>6, <1>7 DEF Fresh

LEMMA WrittenHosts ==
  ASSUME HInv, AtClose
  PROVE  /\ clients = Cardinality(InSection(hosts, "client"))
         /\ Len(storages) = Cardinality(InSection(hosts, "storage"))
         /\ \A p \in InSection(hosts, "server") :
              (\A q \in InSection(hosts, "server") : q <= p) => server = hosts[p].value
         /\ (\A p \in InSection(hosts, "storage") : hosts[p].value # NoTarget)
              <=> \A k \in 1 .. Len(storages) : storages[k] # NoTarget
         /\ Size(storages) = StorageSize(hosts)
<1>1. hosts \in Seq(Line) /\ pc = "copy"
  BY DEF AtClose, HInv, TypeOK
<1>2. \A name : Hosts(name) = InSection(hosts, name)
  BY <1>1, HostsAll DEF Hosts, ReadUpTo
<1>3. Size(storages) = SizeOf(hosts, InSection(hosts, "storage"))
  BY <1>1, <1>2 DEF HInv, Scanned
<1>4. SizeOf(hosts, InSection(hosts, "storage")) = StorageSize(hosts)
  BY DEF SizeOf, StorageSize
<1>5. /\ \A k \in 1 .. Len(storages) :
           \E p \in InSection(hosts, "storage") : storages[k] = hosts[p].value
      /\ \A p \in InSection(hosts, "storage") :
           \E k \in 1 .. Len(storages) : storages[k] = hosts[p].value
  BY <1>1, <1>2 DEF HInv, Scanned
<1>6. /\ clients = Cardinality(InSection(hosts, "client"))
      /\ Len(storages) = Cardinality(InSection(hosts, "storage"))
      /\ \A p \in InSection(hosts, "server") :
           (\A q \in InSection(hosts, "server") : q <= p) => server = hosts[p].value
  BY <1>1, <1>2 DEF HInv, Scanned
<1>. QED BY <1>3, <1>4, <1>5, <1>6

(* Whatever the host file holds -- hosts outside of any section, sections  *)
(* repeated or left out, more addresses than a line is read of -- and      *)
(* whatever runs before were killed, a run of load_host that ends has      *)
(* written the header as it is shipped, with the server's last address and *)
(* the numbers of hosts in the sections, and in it the rest of just those  *)
(* long address lines that were ever written over.                         *)
THEOREM HeaderMatchesHosts == Spec => []HeaderFits
<1>1. ASSUME HInv PROVE HeaderFits
  <2>. SUFFICES ASSUME AtClose
                PROVE  /\ [p \in 1 .. Len(head) |-> head[p][1]] =
                            Stretched(strays + IF StorageSize(hosts) <= LineRoom THEN 0 ELSE 1)
                       /\ \A p \in InSection(hosts, "server") :
                            (\A q \in InSection(hosts, "server") : q <= p)
                              => Value(head, "SERVER_ADDRESS") = hosts[p].value
                       /\ Value(head, "CLIENT_COUNT")
                            = Cardinality(InSection(hosts, "client"))
                       /\ Value(head, "STORAGE_COUNT")
                            = Cardinality(InSection(hosts, "storage"))
    BY DEF HeaderFits
  <2>1. /\ Value(head, "SERVER_ADDRESS") = server
        /\ Value(head, "CLIENT_COUNT") = clients
        /\ Value(head, "STORAGE_COUNT") = Len(storages)
    BY <1>1, WrittenValue DEF Replaced
  <2>2. RestNow = IF StorageSize(hosts) <= LineRoom THEN 0 ELSE 1
    BY <1>1, WrittenHosts DEF RestNow, FitsLine
  <2>3. [p \in 1 .. Len(head) |-> head[p][1]] = Stretched(strays + RestNow)
    <3>1. /\ Len(head) = Len(Header) + (strays + RestNow)
          /\ \A p \in 1 .. Len(head) : head[p][1] = Stretched(strays + RestNow)[p]
      BY <1>1, WrittenWhole DEF LaidOut, Laid
    <3>2. Stretched(strays + RestNow)
            = [p \in 1 .. Len(Header) + (strays + RestNow) |-> Stretched(strays + RestNow)[p]]
      BY DEF Stretched
    <3>. QED BY <3>1, <3>2
  <2>. QED BY <1>1, <2>1, <2>2, <2>3, WrittenHosts
<1>. QED BY <1>1, HInductive, PTL

(* strtok() finds all of the addresses just if none is empty and the       *)
(* buffer holds them.                                                      *)
LEMMA TokensAll ==
  ASSUME NEW v \in Seq(Targets)
  PROVE  Cardinality({p \in 1 .. Len(v) : v[p] # NoTarget /\ SizeUpTo(v, p) <= BufferRoom})
           = Len(v)
         <=> (\A k \in 1 .. Len(v) : v[k] # NoTarget) /\ Size(v) <= BufferRoom
<1>. DEFINE all == 1 .. Len(v)
            read == {p \in all : v[p] # NoTarget /\ SizeUpTo(v, p) <= BufferRoom}
<1>1. Len(v) \in Nat /\ BufferRoom \in Nat /\ Len(v) \in Int /\ 1 \in Int
  BY HostAssumption
<1>2. IsFiniteSet(all) /\ Cardinality(all) = Len(v)
  <2>1. Cardinality(all) = IF 1 > Len(v) THEN 0 ELSE Len(v) - 1 + 1
    BY <1>1, FS_Interval
  <2>. QED BY <2>1, <1>1, FS_Interval
<1>3. Cardinality(read) = Len(v) => read = all
  BY <1>2, FS_Subset
<1>4. \A k \in all : SizeUpTo(v, k) \in Nat /\ Size(v) \in Nat /\ SizeUpTo(v, k) <= Size(v)
  BY SizeUpToGrows
<1>5. ASSUME read = all
      PROVE  (\A k \in all : v[k] # NoTarget) /\ Size(v) <= BufferRoom
  <2>1. CASE Len(v) = 0
    <3>1. v = <<>>
      BY <2>1
    <3>. QED BY <3>1, <1>1, <1>5, SizeEmpty
  <2>2. CASE Len(v) # 0
    <3>1. Len(v) \in all
      BY <1>1, <2>2
    <3>. QED BY <1>5, <3>1 DEF Size
  <2>. QED BY <2>1, <2>2
<1>6. ASSUME \A k \in all : v[k] # NoTarget, Size(v) <= BufferRoom
      PROVE  read = all
  <2>1. ASSUME NEW k \in all PROVE SizeUpTo(v, k) <= BufferRoom
    BY <1>1, <1>4, <1>6
  <2>. QED BY <1>6, <2>1
<1>. HIDE DEF all, read
<1>7. Cardinality(read) = Len(v) <=> (\A k \in all : v[k] # NoTarget) /\ Size(v) <= BufferRoom
  BY <1>2, <1>3, <1>5, <1>6
<1>. QED BY <1>7 DEF all, read

LEMMA WrittenCompiles ==
  ASSUME HInv, AtClose
  PROVE  Compiles(head) <=> strays = 0
<1>. DEFINE n == strays + RestNow
            a == AddressAt
<1>1. /\ n \in Nat /\ strays \in Nat /\ RestNow \in {0, 1} /\ head \in Seq(Macro)
      /\ Len(head) = Len(Header) + n /\ a \in 1 .. Len(Header) - 1 /\ Len(Header) \in Nat
      /\ \A p \in 1 .. Len(head) : head[p][1] = Stretched(n)[p] /\ Fresh(head[p])
  BY WrittenWhole, RestType, HeaderLines DEF LaidOut, Laid
<1>2. ASSUME NEW m \in Nat, NEW p \in 1 .. Len(Header) + m
      PROVE  /\ Stretched(m)[p] = "rest" <=> p \in a + 1 .. a + m
             /\ Stretched(m)[p] = "STORAGE_ADDRESS" <=> p = a
  BY <1>2, StretchedLines
<1>. HIDE DEF a, n
<1>3. \A p \in 1 .. Len(head) :
        /\ head[p][1] = "rest" <=> p \in a + 1 .. a + n
        /\ head[p][1] = "STORAGE_ADDRESS" <=> p = a
  BY <1>1, <1>2
<1>4. a \in 1 .. Len(head) /\ head[a][2] = storages
  BY <1>1, <1>3 DEF Fresh
<1>5. n = strays + RestNow
  BY DEF n
<1>6. ASSUME strays = 0, NEW p \in 1 .. Len(head), head[p][1] = "rest"
      PROVE  p > 1 /\ head[p - 1][1] = "STORAGE_ADDRESS" /\ ~FitsLine(head[p - 1][2])
  <2>1. p \in a + 1 .. a + n
    BY <1>3, <1>6
  <2>2. n = 1 /\ RestNow = 1 /\ p = a + 1
    BY <1>1, <1>5, <1>6, <2>1
  <2>3. p - 1 = a /\ p > 1
    BY <1>1, <2>2
  <2>. QED BY <1>3, <1>4, <2>2, <2>3 DEF RestNow
<1>7. ASSUME strays # 0, Compiles(head)
      PROVE  FALSE
  <2>. DEFINE p == a + n
  <2>1. n \in Nat \ {0}
    BY <1>1, <1>5, <1>7
  <2>2. p \in a + 1 .. a + n /\ p \in 1 .. Len(head) /\ p - 1 \in 1 .. Len(head)
    BY <1>1, <2>1
  <2>. HIDE DEF p
  <2>3. head[p - 1][1] = "STORAGE_ADDRESS" /\ ~FitsLine(head[p - 1][2])
    BY <1>3, <1>7, <2>2 DEF Compiles
  <2>4. p - 1 = a
    BY <1>3, <2>2, <2>3
  <2>5. RestNow = 1
    BY <1>4, <2>3, <2>4 DEF RestNow
  <2>6. n = 1
    BY <1>1, <2>4 DEF p
  <2>. QED BY <1>1, <1>5, <1>7, <2>5, <2>6
<1>. QED BY <1>6, <1>7 DEF Compiles

(* The client that is built with such a header finds its STORAGE_COUNT     *)
(* addresses in STORAGE_ADDRESS, in init_client(), just if no storage was  *)
(* given an empty one, the buffer there holds them all, and the header has *)
(* no rest of the addresses of an earlier run.                             *)
THEOREM HeaderStartsClient == Spec => []ClientStarts
<1>1. ASSUME HInv PROVE ClientStarts
  <2>. SUFFICES ASSUME AtClose
                PROVE  Compiles(head) /\ Tokens(head) = Value(head, "STORAGE_COUNT")
                       <=> /\ strays = 0
                           /\ \A p \in InSection(hosts, "storage") : hosts[p].value # NoTarget
                           /\ StorageSize(hosts) <= BufferRoom
    BY DEF ClientStarts
  <2>1. /\ Value(head, "STORAGE_ADDRESS") = storages
        /\ Value(head, "STORAGE_COUNT") = Len(storages)
    BY <1>1, WrittenValue DEF Replaced
  <2>2. storages \in Seq(Targets)
    BY <1>1 DEF HInv, TypeOK, Targets
  <2>3. Tokens(head) = Len(storages)
          <=> (\A k \in 1 .. Len(storages) : storages[k] # NoTarget) /\ Size(storages) <= BufferRoom
    BY <2>1, <2>2, TokensAll DEF Tokens
  <2>. QED BY <1>1, <2>1, <2>3, WrittenCompiles, WrittenHosts
<1>. QED BY <1>1, HInductive, PTL

=============================================================================
