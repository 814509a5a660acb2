--------------------------- MODULE ForeignInterface ---------------------------
(***************************************************************************)
(* The foreign calls of the VHDL side and what crosses with them: strings  *)
(* that end at the first NUL, VVC configurations written as text and       *)
(* parsed back, bytes and end-of-packet flags as integers.  A foreign call *)
(* is the name of the procedure with its arguments; VHPI or FLI turns the  *)
(* arguments into C++ values, the server into one access to its data, and  *)
(* the result comes back as an integer.                                    *)
(*                                                                         *)
(* A string is a sequence of words; what matters of the text is where it   *)
(* ends, its separators and which words it holds.                          *)
(***************************************************************************)
EXTENDS ServerData, SequencesExt

CONSTANT Nul    \* the character UVVM pads the names of its VVCs with

Comma == ","

\* It is in none of the words the server knows.
ASSUME NulAssumption ==
    Nul \notin {"UART_VVC", "AXISTREAM_VVC", "TX", "RX", "NA",
               "cosim_support", "packet_based", "=", Comma, "0", "1"}

-----------------------------------------------------------------------------
\* Strings

UART_VVC == <<"UART_VVC">>
AXISTREAM_VVC == <<"AXISTREAM_VVC">>

\* The C++ string of a VHDL string: all before its first NUL.
get_string(s) == SubSeq(s, 1, Min({i \in 1..Len(s) + 1 : i = Len(s) + 1 \/ s[i] = Nul}) - 1)

\* strcmp compares as many characters as its first argument has.
strcmp(s, t) == SubSeq(t, 1, Len(s)) = s

\* Mutant: no comma after the first option.
bfm_cfg_to_string_NoComma(type, check_packet_length) ==
    <<"cosim_support", "=", IF type \in {UART_VVC, AXISTREAM_VVC} THEN "1" ELSE "0">> \o
    IF type = AXISTREAM_VVC
    THEN <<"packet_based", "=", IF check_packet_length THEN "1" ELSE "0", Comma>>
    ELSE <<>>

\* The configuration a VVC is reported with; type is that of the BFM
\* configuration record, which selects the overloaded function.
bfm_cfg_to_string(type, check_packet_length) ==
    <<"cosim_support", "=", IF type \in {UART_VVC, AXISTREAM_VVC} THEN "1" ELSE "0", Comma>> \o
    IF type = AXISTREAM_VVC
    THEN <<"packet_based", "=", IF check_packet_length THEN "1" ELSE "0", Comma>>
    ELSE <<>>

\* The nonempty parts of str between delimiters, each at the position where it
\* begins.
split_str(str, delim) ==
    LET starts == {i \in DOMAIN str : str[i] # delim /\ (i = 1 \/ str[i - 1] = delim)}
        end(i) == Min({j \in i..Len(str) + 1 : j = Len(str) + 1 \/ str[j] = delim})
    IN  [i \in starts |-> SubSeq(str, i, end(i) - 1)]

\* std::stoi, for the texts that are numbers; it throws for others.
Numbers == [text \in {"0", "1"} |-> IF text = "0" THEN 0 ELSE 1]

\* An item that is not key=value is skipped; a value that is no number ends
\* the parsing with what there is; the first value of a key stays.
parse_bfm_cfg_str(str) ==
    LET items    == split_str(str, Comma)
        kv(n)    == split_str(items[n], "=")
        key(n)   == kv(n)[Min(DOMAIN kv(n))][1]
        value(n) == kv(n)[Max(DOMAIN kv(n))]
        pairs    == {n \in DOMAIN items : Cardinality(DOMAIN kv(n)) = 2}
        bad      == {n \in pairs : value(n) \notin {<<text>> : text \in DOMAIN Numbers}}
        parsed   == {n \in pairs : \A b \in bad : n < b}
    IN  [k \in {key(n) : n \in parsed} |->
            Numbers[value(Min({n \in parsed : key(n) = k}))[1]]]

-----------------------------------------------------------------------------
\* Arguments of a foreign call.  VHPI looks each up by its index, FLI passes
\* them in order; both make a string of a name, a uint8_t of a byte and a bool
\* of the end-of-packet integer.

VhpiArguments(call, args) ==
    IF call = "report_vvc_info"
    THEN [vvc_type |-> get_string(args[1]), vvc_channel |-> get_string(args[2]),
          vvc_instance_id |-> args[3], bfm_cfg_str |-> get_string(args[4])]
    ELSE [vvc_type |-> get_string(args[1]), vvc_instance_id |-> args[2],
          byte |-> IF Len(args) >= 3 THEN args[3] % 256 ELSE 0,
          eop |-> IF Len(args) >= 4 THEN args[4] = 1 ELSE FALSE]

FliArguments(call, args) ==
    LET name == get_string(args[1])
    IN  CASE call = "report_vvc_info" ->
               [vvc_type |-> name, vvc_channel |-> get_string(args[2]),
                vvc_instance_id |-> args[3], bfm_cfg_str |-> get_string(args[4])]
          [] call = "receive_byte_queue_put" ->
               [vvc_type |-> name, vvc_instance_id |-> args[2], byte |-> args[3] % 256]
          [] call = "receive_packet_queue_put" ->
               [vvc_type |-> name, vvc_instance_id |-> args[2], byte |-> args[3] % 256,
                eop |-> args[4] = 1]
          [] OTHER -> [vvc_type |-> name, vvc_instance_id |-> args[2]]

-----------------------------------------------------------------------------
\* The access the server makes for a call

VvcKey(vvc_type, vvc_channel, vvc_instance_id) ==
    [vvc_type |-> vvc_type, vvc_channel |-> vvc_channel, vvc_instance_id |-> vvc_instance_id]

TxKey(x) == VvcKey(x.vvc_type, IF x.vvc_type = UART_VVC THEN <<"TX">> ELSE <<"NA">>, x.vvc_instance_id)

\* Mutant: the listen flag of a UART is looked up under its transmit channel.
RxKey_Tx(x) == VvcKey(x.vvc_type, IF x.vvc_type = UART_VVC THEN <<"TX">> ELSE <<"NA">>, x.vvc_instance_id)

RxKey(x) == VvcKey(x.vvc_type, IF x.vvc_type = UART_VVC THEN <<"RX">> ELSE <<"NA">>, x.vvc_instance_id)
PacketKey(x) == VvcKey(x.vvc_type, <<"NA">>, x.vvc_instance_id)

ServerAccess(call, x) ==
    CASE call = "vvc_listen_enable" ->
           [op |-> "GetVvcListenEnable", vvc |-> RxKey(x)]
      [] call = "report_vvc_info" ->
           [op |-> "AddVvc", vvc |-> VvcKey(x.vvc_type, x.vvc_channel, x.vvc_instance_id),
            bfm_cfg |-> parse_bfm_cfg_str(x.bfm_cfg_str)]
      [] call = "transmit_byte_queue_empty" ->
           [op |-> "byte_queue_empty", qid |-> "TRANSMIT", vvc |-> TxKey(x)]
      [] call = "transmit_byte_queue_get" ->
           [op |-> "byte_queue_get", qid |-> "TRANSMIT", vvc |-> TxKey(x)]
      [] call = "receive_byte_queue_put" ->
           [op |-> "byte_queue_put", qid |-> "RECEIVE", vvc |-> RxKey(x), data |-> <<x.byte>>]
      [] call = "transmit_packet_queue_empty" ->
           [op |-> "packet_queue_empty", qid |-> "TRANSMIT", vvc |-> PacketKey(x)]
      [] call = "transmit_packet_queue_get" ->
           [op |-> "packet_queue_get_byte", qid |-> "TRANSMIT", vvc |-> PacketKey(x)]
      [] call = "receive_packet_queue_put" ->
           [op |-> "packet_queue_put_byte", qid |-> "RECEIVE", vvc |-> PacketKey(x),
            byte |-> x.byte, eop |-> x.eop]

-----------------------------------------------------------------------------
\* The integer a call returns

AsInt(b) == IF b THEN 1 ELSE 0

\* The 9th bit marks the end of the packet; 0 when there is no byte.
EncodePacketByte(r) == IF ~r.got THEN 0 ELSE r.byte + 256 * AsInt(r.eop)

ForeignResult(call, value) ==
    CASE call = "transmit_byte_queue_get" -> value.byte
      [] call = "transmit_packet_queue_get" -> EncodePacketByte(value)
      [] call \in {"transmit_byte_queue_empty", "transmit_packet_queue_empty", "vvc_listen_enable"} ->
           AsInt(value)
      [] OTHER -> 0

\* Mutant: the slice of the byte is one bit short.
DecodePacketByte_Short(data) == [byte |-> data % 128, eop |-> (data \div 256) % 2 = 1]

\* What the controller makes of it.
DecodePacketByte(data) == [byte |-> data % 256, eop |-> (data \div 256) % 2 = 1]
=============================================================================
