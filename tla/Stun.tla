-------------------------------- MODULE Stun --------------------------------
(***************************************************************************)
(* STUN binding requests of one session: ngx_rtc_stun_decode and           *)
(* ngx_rtc_stun_verify_request read one, ngx_rtc_stun_encode_binding_      *)
(* response answers it.  A message is laid out in bytes (every attribute   *)
(* has a header and is padded), because both sides have to agree on which  *)
(* of them, and on which length, the integrity code is computed; the code  *)
(* itself is the record of what went into it.                              *)
(***************************************************************************)
EXTENDS Naturals, Sequences, SequencesExt

CONSTANTS
    Ufrag,         \* the session's: [id, len]
    Pwd,           \* the session's ICE password
    UfragMax,      \* NGX_RTC_STUN_UFRAG_MAX
    OutLen,        \* the caller's buffer for a response
    Locals, Remotes, Extras, Keys    \* of the requests that arrive: both ufrags, the
                                     \* attributes besides, the password they are signed with

(* Assumption on the constants, checked where the module is instantiated. *)
StunConstants == {UfragMax, OutLen} \subseteq Nat \ {0} /\ Ufrag.len <= UfragMax /\ Ufrag \in Locals

VARIABLES
    request,    \* the last message
    bound,      \* sess->conn is set
    response    \* its answer, if there is one: a sequence of at most one

vars == <<request, bound, response>>

-----------------------------------------------------------------------------
(* Layout *)

Header == 20

Pad(len) == (4 - (len % 4)) % 4

Attr(type, len, value) == [type |-> type, len |-> len, value |-> value]

Size(a) == 4 + a.len + Pad(a.len)

SizeOf(attrs) == FoldLeft(LAMBDA n, a : n + Size(a), 0, attrs)

(* Offset of the value of attribute k. *)
ValueAt(attrs, k) == Header + SizeOf(SubSeq(attrs, 1, k - 1)) + 4

(* HMAC-SHA1 of the header, with this length field, and of attributes.      *)
Mac(key, length, attrs) == [key |-> key, length |-> length, over |-> attrs]

(* CRC-32 of what precedes it, which nobody checks.                         *)
Fingerprint == Attr("FINGERPRINT", 4, "crc")

(* A message whose length field is right.                                   *)
Message(attrs) == [length |-> SizeOf(attrs), attrs |-> attrs]

-----------------------------------------------------------------------------
(* ngx_rtc_stun_decode: the last attribute of a type counts, except that a  *)
(* USERNAME without a colon is passed over.                                 *)
LastOf(attrs, type) == SelectLastInSeq(attrs, LAMBDA a : a.type = type)

Named(attrs) == SelectLastInSeq(attrs, LAMBDA a : a.type = "USERNAME" /\ a.value # <<>>)

Decodes(m) == m.length = SizeOf(m.attrs) /\ Named(m.attrs) # 0

(* A ufrag is cut to its maximum, so a longer one names nobody.             *)
Cut(u) == IF u.len <= UfragMax THEN u ELSE [u EXCEPT !.len = UfragMax, !.id = "cut"]

LocalUfrag(m)  == Cut(m.attrs[Named(m.attrs)].value[1])
RemoteUfrag(m) == Cut(m.attrs[Named(m.attrs)].value[2])

(* Mutant: the length as it arrived. *)
CheckedLengthWhole(m, k) == m.length

(* The length field up to the end of the integrity attribute, which is the  *)
(* offset of its value: the header and the code are both 20 bytes long.     *)
CheckedLength(m, k) == ValueAt(m.attrs, k)

(* ngx_rtc_stun_verify_request *)
Verified(m) ==
    LET k == LastOf(m.attrs, "MESSAGE-INTEGRITY")
    IN  /\ k # 0
        /\ m.attrs[k].len >= 20
        /\ m.attrs[k].value = Mac(Pwd, CheckedLength(m, k), SubSeq(m.attrs, 1, k - 1))

(* ngx_rtc_stun_encode_binding_response: none when it does not fit.         *)
Encoded(m) ==
    LET local    == LocalUfrag(m)
        remote   == RemoteUfrag(m)
        body     == <<Attr("USERNAME", local.len + 1 + remote.len, <<local, remote>>),
                      Attr("XOR-MAPPED-ADDRESS", 8, "peer")>>
        signed   == Append(body, Attr("MESSAGE-INTEGRITY", 20, Mac(Pwd, SizeOf(body) + 24, body)))
        attrs    == Append(signed, Fingerprint)
    IN  IF Header + SizeOf(attrs) > OutLen THEN <<>> ELSE <<Message(attrs)>>

-----------------------------------------------------------------------------
(* The client (external): a check with its optional attributes, signed with *)
(* a key as RFC 5389 has it, and with a fingerprint or without.             *)
Check(local, remote, extra, key, fingerprint) ==
    LET body   == <<Attr("USERNAME", local.len + 1 + remote.len, <<local, remote>>)>> \o extra
        signed == Append(body, Attr("MESSAGE-INTEGRITY", 20, Mac(key, SizeOf(body) + 24, body)))
    IN  Message(IF fingerprint THEN Append(signed, Fingerprint) ELSE signed)

(* What arrives: checks, checks that were cut or grew on the way, and       *)
(* requests that are not signed.                                            *)
Requests ==
    LET signed == {Check(l, r, x, key, f) : l \in Locals, r \in Remotes, x \in Extras,
                                           key \in Keys, f \in BOOLEAN}
    IN  signed \cup {[m EXCEPT !.length = @ + 4] : m \in signed}
               \cup {Message(SubSeq(m.attrs, 1, 1)) : m \in signed}

-----------------------------------------------------------------------------
Init == request = Message(<<>>) /\ bound = FALSE /\ response = <<>>

(* ngx_rtc_stream_on_stun, for what names this session. *)
OnStun(m) ==
    LET ok == Decodes(m) /\ LocalUfrag(m) = Ufrag /\ Verified(m)
    IN  /\ request' = m
        /\ bound' = (bound \/ ok)
        /\ response' = IF ok THEN Encoded(m) ELSE <<>>

Next == \E m \in Requests : OnStun(m)

Spec == Init /\ [][Next]_vars

-----------------------------------------------------------------------------
(* Properties *)

(* Who signed m, by RFC 5389's rule; nobody, if it was damaged.             *)
SignedBy(m, key) ==
    LET k == LastOf(m.attrs, "MESSAGE-INTEGRITY")
        body == SubSeq(m.attrs, 1, k - 1)
    IN  /\ m.length = SizeOf(m.attrs)
        /\ k # 0 /\ m.attrs[k].value = Mac(key, SizeOf(body) + 24, body)

(* A check for this session is answered exactly when it was signed with the *)
(* session's password, whatever its attributes, their padding and what      *)
(* follows the integrity code; and the answer passes the client's own check *)
(* and names the pair of ufrags it asked for.                               *)
BindingAnswered ==
    LET named == Named(request.attrs) # 0 /\ request.attrs[Named(request.attrs)].value[1] = Ufrag
    IN  /\ (response # <<>>) <=> (named /\ SignedBy(request, Pwd))
        /\ response # <<>> =>
              /\ SignedBy(response[1], Pwd)
              /\ LocalUfrag(response[1]) = Ufrag
              /\ RemoteUfrag(response[1]) = RemoteUfrag(request)
              /\ bound
=============================================================================
