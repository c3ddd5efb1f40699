----------------------------- MODULE MCLoadHost -----------------------------
(* Instances of LoadHost for TLC: all host files of up to three of these   *)
(* lines, and a header with the four macros, another line and its end.     *)
(* A line has room for one address, of one character or two; the buffer of *)
(* init_client for two of one character, and not for two of which one is   *)
(* longer.                                                                 *)
EXTENDS LoadHost

CONSTANTS a, b

SomeLines ==
  [kind : {"section"}, value : {"none", "client", "storage"}]
  \cup [kind : {"host"}, value : {a, NoTarget}]
  \cup {[kind |-> "other", value |-> NoTarget]}

ServerFile == << [kind |-> "section", value |-> "server"],
                 [kind |-> "host", value |-> a],
                 [kind |-> "section", value |-> "storage"],
                 [kind |-> "host", value |-> b],
                 [kind |-> "host", value |-> a] >>

ShortFiles == UNION {[1 .. n -> SomeLines] : n \in 0 .. 3} \cup {ServerFile}

ShippedHeader == << <<"SERVER_ADDRESS", b>>, <<"STORAGE_ADDRESS", <<b>>>>,
                    <<"CLIENT_COUNT", 3>>, <<"STORAGE_COUNT", 1>>, <<"other", 0>>,
                    <<"end", 0>> >>

Widths == [target \in Target |-> IF target = a THEN 1 ELSE 2]

=============================================================================
