------------------------------ MODULE ZclBasic ------------------------------
(***************************************************************************)
(* The Basic cluster: which incoming messages are Read Attributes requests *)
(* for it, and the response that is put together for one, attribute by     *)
(* attribute, in a buffer of 96 bytes of which one unicast carries 64.     *)
(*                                                                         *)
(* A message is reduced to what zcl_handle_incoming looks at: `hdr' is the *)
(* number of bytes in front of the attribute ids, which is 3, or 5 with a  *)
(* manufacturer code, unless the message is cut short or has a stray byte  *)
(* at its end.                                                             *)
(***************************************************************************)
EXTENDS Integers, Sequences

CONSTANTS
    RespMax,      \* sizeof(resp): 96
    UnicastMax,   \* what zcl_send accepts: 64
    OutMax        \* sizeof(out) of cmd_run, all it keeps of a callback: 64

ASSUME ZclAssumption ==
    /\ {RespMax, UnicastMax, OutMax} \subseteq Nat
    \* a response of one unicast leaves room for a host name of 27 bytes
    /\ UnicastMax + 32 <= RespMax

\* An id past the end of the message, whatever the memory there holds.
Junk == 65535

Strings == [manufacturer |-> 7, model |-> 7, swbuild |-> 12]

\* Bytes of the record of an attribute: id, status, type and value, or id and
\* status alone for one that is not supported.
RecordSize(id, hostlen) ==
    CASE id \in {0, 1, 2, 3, 7} -> 5
      [] id = 4                 -> 5 + Strings.manufacturer
      [] id = 5                 -> 5 + Strings.model
      [] id = 16                -> 5 + hostlen         \* LocationDescription
      [] id = 16384             -> 5 + Strings.swbuild
      [] OTHER                  -> 3

\* A record that does not fit is left out, whatever follows it.
zcl_append_attr(r, id, hostlen) ==
    IF r.at + RecordSize(id, hostlen) > RespMax THEN r
    ELSE [at |-> r.at + RecordSize(id, hostlen), ids |-> Append(r.ids, id)]

ZLen(m) == m.hdr + 2 * Len(m.attrs)

TooShort(m) == ZLen(m) < 3 \/ (IF m.manuf THEN 3 ELSE 1) + 1 >= ZLen(m)
Truncated(m) == OutMax < 19 + ZLen(m)

IsRead(m) ==
    /\ ~TooShort(m) /\ ~Truncated(m)
    /\ ~m.permit                              \* ZDO permit-join, only printed
    /\ m.basic /\ m.global /\ m.read

\* The ids read from the message, two bytes at a time from behind the header.
FirstId(m) == IF m.manuf THEN 5 ELSE 3
AskedIds(m) ==
    LET first == FirstId(m)
    IN  [j \in 1..((ZLen(m) - first) \div 2) |->
            IF 19 + first + 2 * j > OutMax \/ j > Len(m.attrs) THEN Junk ELSE m.attrs[j]]

\* The response: header, then one record after the other.
zcl_handle_incoming(m, hostlen) ==
    LET ids == AskedIds(m)
        resp[j \in 0..Len(ids)] ==
            IF j = 0 THEN [at |-> 3, ids |-> <<>>]
            ELSE zcl_append_attr(resp[j - 1], ids[j], hostlen)
    IN  resp[Len(ids)]

UnicastUnchecked(size) == size <= RespMax
UnicastFits(size) == size <= UnicastMax
=============================================================================
