------------------------------ MODULE LoadHost ------------------------------
(***************************************************************************)
(* load_host.c: reads the host file of the playbooks and writes its server *)
(* address, its storage addresses and its numbers of hosts into            *)
(* idg_common.h, by way of temp.h.  It may be killed at any moment and run *)
(* again, with another host file.                                          *)
(*                                                                         *)
(* A line of the host file is a section head, a host with its target, or   *)
(* one that is passed over.  A line of the header is <<macro, value>>.  It *)
(* is read by fgets(line, 1024): of a STORAGE_ADDRESS line that is longer, *)
(* what comes after its first 1023 characters is read as a line of its     *)
(* own, "rest" (as up to four of them in fact, which are taken as one).    *)
(*                                                                         *)
(* Host files are those the arrays have room for: MAX_CLIENT_COUNT and     *)
(* MAX_STORAGE_COUNT hosts, 4095 characters of storage addresses.          *)
(***************************************************************************)
EXTENDS Naturals, Sequences, FiniteSets, Functions

CONSTANTS
  HostFile,    \* host files: sequences of Line
  Target,      \* addresses
  NoTarget,    \* the empty one
  Width,       \* the characters of an address
  LineRoom,    \* room for addresses in a line that fgets() reads whole: 996
  BufferRoom,  \* room for addresses in buffer of init_client: 1024
  Header,      \* idg_common.h as it is shipped
  MaxRuns      \* bound on the runs

Section == {"none", "server", "client", "storage"}
Line == [kind : {"section"}, value : Section]
        \cup [kind : {"host"}, value : Target \cup {NoTarget}]
        \cup [kind : {"other"}, value : {NoTarget}]

Macro ==
  ({"SERVER_ADDRESS"} \X (Target \cup {NoTarget}))
  \cup ({"STORAGE_ADDRESS"} \X Seq(Target \cup {NoTarget}))
  \cup ({"CLIENT_COUNT", "STORAGE_COUNT", "other", "rest", "end"} \X Nat)

RestLine == <<"rest", 0>>

(* The lines that are replaced; idg_common.h has each of them once (34-37).*)
Replaced == {"SERVER_ADDRESS", "STORAGE_ADDRESS", "CLIENT_COUNT", "STORAGE_COUNT"}

(* An address and the comma, or the end of the string, after it.           *)
Room(target) == IF target = NoTarget THEN 1 ELSE Width[target] + 1

(* The first n addresses of a list in STORAGE_ADDRESS.                     *)
SizeUpTo(addresses, n) == SumFunctionOnSet([k \in 1 .. n |-> Room(addresses[k])], 1 .. n)
Size(addresses) == SizeUpTo(addresses, Len(addresses))

FitsLine(addresses) == Size(addresses) <= LineRoom

(* The header ends with its #endif, the line "end".                        *)
ASSUME HostAssumption ==
  /\ HostFile \subseteq Seq(Line)
  /\ NoTarget \notin Target
  /\ Width \in [Target -> Nat]
  /\ LineRoom \in Nat /\ BufferRoom \in Nat
  /\ Header \in Seq(Macro) /\ Len(Header) > 0
  /\ \A macro \in Replaced : \E p \in 1 .. Len(Header) :
       \A q \in 1 .. Len(Header) : Header[q][1] = macro <=> q = p
  /\ \A p \in 1 .. Len(Header) :
       /\ Header[p][1] = "end" <=> p = Len(Header)
       /\ Header[p][1] # "rest"
       /\ Header[p][1] = "STORAGE_ADDRESS" => FitsLine(Header[p][2])
  /\ MaxRuns \in Nat

VARIABLES
  pc,        \* idle, or reading hosts, writing temp.h ("edit") or the header ("copy")
  hosts,     \* the host file of this run
  i,         \* next line of the file that is read
  loadType,  \* load_type
  server,    \* server_host.target_address
  clients,   \* client_count
  storages,  \* storage_addresses; its length is storage_count
  head,      \* idg_common.h
  temp,      \* temp.h
  runs,      \* runs begun
  spoilt,    \* auxiliary: a run began with a header that was cut off
  strays     \* auxiliary: headers written over whose addresses took two lines

found == <<loadType, server, clients, storages>>
vars == <<pc, hosts, i, found, head, temp, runs, spoilt, strays>>

(* A file that is not cut off.                                             *)
Whole(file) == file # <<>> /\ file[Len(file)][1] = "end"

TypeOK ==
  /\ pc \in {"idle", "hosts", "edit", "copy"}
  /\ hosts \in Seq(Line)
  /\ i \in Nat \ {0}
  /\ loadType \in Section
  /\ server \in Target \cup {NoTarget}
  /\ clients \in Nat
  /\ storages \in Seq(Target \cup {NoTarget})
  /\ head \in Seq(Macro)
  /\ temp \in Seq(Macro)
  /\ runs \in 0 .. MaxRuns
  /\ spoilt \in BOOLEAN
  /\ strays \in Nat

Init ==
  /\ pc = "idle"
  /\ hosts = <<>>
  /\ i = 1
  /\ loadType = "none" /\ server = NoTarget /\ clients = 0 /\ storages = <<>>
  /\ head = Header
  /\ temp = <<>>
  /\ runs = 0
  /\ spoilt = FALSE /\ strays = 0

-----------------------------------------------------------------------------
Start(file) ==
  /\ pc = "idle" /\ runs < MaxRuns
  /\ pc' = "hosts"
  /\ hosts' = file
  /\ i' = 1
  /\ loadType' = "none" /\ server' = NoTarget /\ clients' = 0 /\ storages' = <<>>
  /\ runs' = runs + 1
  /\ spoilt' = (spoilt \/ ~Whole(head))
  /\ UNCHANGED <<head, temp, strays>>

(* Mutant: the value of any line is taken for its section.                 *)
NextTypeAny(line) == line.value

(* Mutant: another section does not end the one before.                    *)
NextTypeSticks(line) ==
  IF line.kind = "section" /\ line.value # "none" THEN line.value ELSE loadType

(* The section a line belongs to.                                          *)
NextType(line) == IF line.kind = "section" THEN line.value ELSE loadType

ReadHost ==
  LET line == hosts[i]
      isHost == line.kind = "host"
  IN
  /\ pc = "hosts" /\ i <= Len(hosts)
  /\ i' = i + 1
  /\ loadType' = NextType(line)
  /\ server' = IF isHost /\ loadType = "server" THEN line.value ELSE server
  /\ clients' = IF isHost /\ loadType = "client" THEN clients + 1 ELSE clients
  /\ storages' = IF isHost /\ loadType = "storage" THEN Append(storages, line.value)
                 ELSE storages
  /\ UNCHANGED <<pc, hosts, head, temp, runs, spoilt, strays>>

(* fopen("temp.h", "w") empties the file.                                  *)
OpenTemp ==
  /\ pc = "hosts" /\ i > Len(hosts)
  /\ pc' = "edit"
  /\ i' = 1
  /\ temp' = <<>>
  /\ UNCHANGED <<hosts, found, head, runs, spoilt, strays>>

(* Mutant: the number of clients is written for that of the storages.      *)
EditedWrong(line) ==
  CASE line[1] = "SERVER_ADDRESS"  -> <<line[1], server>>
    [] line[1] = "STORAGE_ADDRESS" -> <<line[1], storages>>
    [] line[1] \in {"CLIENT_COUNT", "STORAGE_COUNT"} -> <<line[1], clients>>
    [] OTHER                       -> line

(* The #define lines that are replaced.                                    *)
Edited(line) ==
  CASE line[1] = "SERVER_ADDRESS"  -> <<line[1], server>>
    [] line[1] = "STORAGE_ADDRESS" -> <<line[1], storages>>
    [] line[1] = "CLIENT_COUNT"    -> <<line[1], clients>>
    [] line[1] = "STORAGE_COUNT"   -> <<line[1], Len(storages)>>
    [] OTHER                       -> line

(* What fgets() will read of a line that is written.                       *)
Pieces(line) ==
  IF line[1] = "STORAGE_ADDRESS" /\ ~FitsLine(line[2]) THEN <<line, RestLine>> ELSE <<line>>

(* Reads up to 1023 characters.  The rest of a long line is no #define: it *)
(* is copied, behind the line that is written for the first part.          *)
EditLine ==
  /\ pc = "edit" /\ i <= Len(head)
  /\ temp' = temp \o Pieces(Edited(head[i]))
  /\ i' = i + 1
  /\ UNCHANGED <<pc, hosts, found, head, runs, spoilt, strays>>

(* Mutant: the header is opened for writing while temp.h is written.       *)
OpenHeadEarly ==
  /\ pc = "edit" /\ i > 1
  /\ pc' = "copy"
  /\ i' = 1
  /\ head' = <<>>
  /\ UNCHANGED <<hosts, found, temp, runs, spoilt, strays>>

Long(file) == \E p \in 1 .. Len(file) : file[p][1] = "STORAGE_ADDRESS" /\ ~FitsLine(file[p][2])

(* temp.h is closed before fopen("idg_common.h", "w") empties the header.  *)
OpenHead ==
  /\ pc = "edit" /\ i > Len(head)
  /\ pc' = "copy"
  /\ i' = 1
  /\ head' = <<>>
  /\ strays' = IF Long(head) THEN strays + 1 ELSE strays
  /\ UNCHANGED <<hosts, found, temp, runs, spoilt>>

CopyLine ==
  /\ pc = "copy" /\ i <= Len(temp)
  /\ head' = Append(head, temp[i])
  /\ i' = i + 1
  /\ UNCHANGED <<pc, hosts, found, temp, runs, spoilt, strays>>

CloseHead ==
  /\ pc = "copy" /\ i > Len(temp)
  /\ pc' = "idle"
  /\ UNCHANGED <<hosts, i, found, head, temp, runs, spoilt, strays>>

(* The process is killed: of what it has written to the file it has open,  *)
(* a first part is on the disk.                                            *)
Killed ==
  /\ pc # "idle"
  /\ pc' = "idle"
  /\ temp' \in IF pc = "edit" THEN {SubSeq(temp, 1, n) : n \in 0 .. Len(temp)} ELSE {temp}
  /\ head' \in IF pc = "copy" THEN {SubSeq(head, 1, n) : n \in 0 .. Len(head)} ELSE {head}
  /\ UNCHANGED <<hosts, i, found, runs, spoilt, strays>>

AtRest == pc = "idle" /\ runs = MaxRuns /\ UNCHANGED vars

Next ==
  \/ \E file \in HostFile : Start(file)
  \/ ReadHost \/ OpenTemp \/ EditLine \/ OpenHead \/ CopyLine \/ CloseHead
  \/ Killed \/ AtRest

Spec == Init /\ [][Next]_vars

-----------------------------------------------------------------------------
(* The hosts of a section: those whose last section line before them is    *)
(* its own.                                                                *)
InSection(file, name) ==
  {p \in 1 .. Len(file) :
     /\ file[p].kind = "host"
     /\ \E q \in 1 .. p - 1 :
          /\ file[q] = [kind |-> "section", value |-> name]
          /\ \A r \in q + 1 .. p : file[r].kind # "section"}

Value(file, macro) == (CHOOSE line \in {file[p] : p \in 1 .. Len(file)} : line[1] = macro)[2]

(* index of init_client: the addresses that strtok() finds in buffer, a    *)
(* copy of STORAGE_ADDRESS.  It passes over the empty ones.  An address    *)
(* that ends behind the buffer is none: the copy has lost its end, and     *)
(* what strtok() reads there is undefined.                                 *)
Tokens(file) ==
  LET addresses == Value(file, "STORAGE_ADDRESS")
  IN  Cardinality({p \in 1 .. Len(addresses) :
                     addresses[p] # NoTarget /\ SizeUpTo(addresses, p) <= BufferRoom})

(* The header compiles: a rest belongs to the line before it.              *)
Compiles(file) ==
  \A p \in 1 .. Len(file) : file[p][1] = "rest" =>
    p > 1 /\ file[p - 1][1] = "STORAGE_ADDRESS" /\ ~FitsLine(file[p - 1][2])

(* The storages of a host file in STORAGE_ADDRESS.                         *)
StorageSize(file) ==
  LET named == InSection(file, "storage")
  IN  SumFunctionOnSet([p \in named |-> Room(file[p].value)], named)

AddressAt == CHOOSE p \in 1 .. Len(Header) : Header[p][1] = "STORAGE_ADDRESS"

(* The lines of the shipped header, with n of rest behind its addresses.   *)
Stretched(n) ==
  [p \in 1 .. Len(Header) + n |-> IF p <= AddressAt THEN Header[p][1]
                                  ELSE IF p <= AddressAt + n THEN "rest"
                                  ELSE Header[p - n][1]]

AtClose == pc = "copy" /\ i > Len(temp) /\ ~spoilt

(* A run that ends has written the header of its host file: the counts are *)
(* those of the sections, whatever lines are between them and whatever     *)
(* earlier runs, killed or not, have left.  But each header it or a run    *)
(* before has written over whose addresses were longer than fgets() reads  *)
(* has left the rest of them in it, besides that of its own addresses.     *)
HeaderFits ==
  AtClose =>
    /\ [p \in 1 .. Len(head) |-> head[p][1]] =
         Stretched(strays + IF StorageSize(hosts) <= LineRoom THEN 0 ELSE 1)
    /\ \A p \in InSection(hosts, "server") :
         (\A q \in InSection(hosts, "server") : q <= p)
           => Value(head, "SERVER_ADDRESS") = hosts[p].value
    /\ Value(head, "CLIENT_COUNT") = Cardinality(InSection(hosts, "client"))
    /\ Value(head, "STORAGE_COUNT") = Cardinality(InSection(hosts, "storage"))

(* The client builds with the header that a run has written, and           *)
(* init_client finds the STORAGE_COUNT addresses it wants, just if every   *)
(* storage has a target, buffer has room for them all, and no header with  *)
(* more addresses than fgets() reads at once was ever written over.        *)
ClientStarts ==
  AtClose =>
    (Compiles(head) /\ Tokens(head) = Value(head, "STORAGE_COUNT")
       <=> /\ strays = 0
           /\ \A p \in InSection(hosts, "storage") : hosts[p].value # NoTarget
           /\ StorageSize(hosts) <= BufferRoom)

(* Whenever the process is killed, one of the two files is a whole header: *)
(* idg_common.h until temp.h is closed, temp.h from then on.  (The next    *)
(* run empties temp.h and copies a header that is cut off.)                *)
HeaderNotLost == ~spoilt => Whole(head) \/ Whole(temp)

=============================================================================
