------------------------------- MODULE Codecs -------------------------------
(***************************************************************************)
(* What happens to the content of a message on its way (ClientTcp::sendMsg, *)
(* decodeMsg, onConnect) and the classes of blmutil that do it: Zlib with   *)
(* its growing buffers, AES128Cipher with its padding, RC4 and Base64.      *)
(*                                                                          *)
(* Data is a size and the layers wrapped around it, outermost first: "z"    *)
(* for a zlib stream, a key for its cipher text, "?" for bytes nobody       *)
(* wrote.  zlib and the ciphers are external; the sizes zlib needs are      *)
(* chosen freely.  The peer of a connection is either the server, which     *)
(* undoes what sendMsg does, or another client of this SDK (decodeMsg).     *)
(***************************************************************************)
EXTENDS Integers, Sequences, SequencesExt

CONSTANTS AesKeys,      \* keys a ClientTcp may have drawn
          Large,        \* contents longer than this are compressed (1024)
          DataSizes,    \* sizes of contents
          MaxMsgs,      \* bound on messages
          MaxLen,       \* bound on the sizes given to AES and Base64
          MaxZlib       \* bound on the sizes given to Zlib

ASSUME CodecsAssumption == /\ Large \in Nat /\ DataSizes \subseteq Nat
                           /\ {MaxMsgs, MaxLen, MaxZlib} \subseteq Nat

VARIABLES aes,      \* the key of the ClientTcp, "none" before it exists
          wire,     \* messages on their way, in order
          peerKey,  \* the key the peer has learned
          heard,    \* what the peer made of each message
          zlib,     \* a call of Zlib::compress or uncompress
          sized     \* sizes a call of AES128Cipher or Base64 worked with

codecVars == <<aes, wire, peerKey, heard, zlib, sized>>
linkVars == <<aes, wire, peerKey, heard>>

-----------------------------------------------------------------------------
(* Layers                                                                   *)

Plain(n) == [size |-> n, layers |-> <<>>]
Garbage(d) == [d EXCEPT !.layers = <<"?">>]
Wrap(d, layer) == [d EXCEPT !.layers = <<layer>> \o @]
Unwrap(d, layer) == IF d.layers # <<>> /\ Head(d.layers) = layer THEN [d EXCEPT !.layers = Tail(@)] ELSE Garbage(d)

\* AES128Cipher returns "" for empty input; an inverse applied to what is
\* not its image gives bytes nobody wrote.
aesEncrypt(key, d) == IF d.size = 0 THEN Plain(0) ELSE Wrap(d, key)
aesDecrypt(key, d) == IF d.size = 0 THEN Plain(0) ELSE Unwrap(d, key)

\* RC4 starts anew for every buffer: applied twice it cancels out.
rc4(d) == IF d.layers # <<>> /\ Head(d.layers) = "rc4" THEN Unwrap(d, "rc4") ELSE Wrap(d, "rc4")

\* ClientTcp::sendMsg: compress, then encrypt; the message that carries the
\* key is marked as encrypted and is not.
Encode(key, m) ==
    LET comd == IF m.compress THEN Wrap(m.data, "z") ELSE m.data
    IN  IF ~m.encrypt \/ m.type = "key" THEN comd ELSE aesEncrypt(key, comd)

\* ClientTcp::decodeMsg: uncompress, then decrypt.
decodeMsg(key, m, body) ==
    LET comd == IF m.compress THEN Unwrap(body, "z") ELSE body
    IN  IF m.encrypt THEN aesDecrypt(key, comd) ELSE comd

\* A server decrypts, then uncompresses, and knows the message with the key.
ServerDecode(key, m, body) ==
    LET comd == IF m.encrypt /\ m.type # "key" THEN aesDecrypt(key, body) ELSE body
    IN  IF m.compress THEN Unwrap(comd, "z") ELSE comd

-----------------------------------------------------------------------------
(* A connection                                                             *)

Send(m) == wire' = Append(wire, [m |-> m, body |-> Encode(aes, m)])

Msg(n) == [type |-> "data", compress |-> n > Large, encrypt |-> TRUE, data |-> Plain(n)]
KeyMsg(k) == [type |-> "key", compress |-> FALSE, encrypt |-> TRUE, data |-> rc4([size |-> 16, layers |-> <<k>>])]

\* A ClientTcp draws its key when it is constructed.
NewConnection(k) ==
    /\ aes = "none" /\ zlib.op = "none" /\ sized = <<>> /\ aes' = k
    /\ UNCHANGED <<wire, peerKey, heard, zlib, sized>>

\* Mutant: the callbacks of the application send first.
ConnectedLate(ns) ==
    wire' = [i \in 1..Len(ns) |-> [m |-> Msg(ns[i]), body |-> Encode(aes, Msg(ns[i]))]]
              \o <<[m |-> KeyMsg(aes), body |-> Encode(aes, KeyMsg(aes))]>>

\* onConnect: the key goes out before the connect callbacks run, which send
\* messages of sizes ns.
Connected(ns) ==
    wire' = <<[m |-> KeyMsg(aes), body |-> Encode(aes, KeyMsg(aes))]>>
              \o [i \in 1..Len(ns) |-> [m |-> Msg(ns[i]), body |-> Encode(aes, Msg(ns[i]))]]

OnConnect(ns) ==
    /\ aes # "none" /\ wire = <<>> /\ heard = <<>>
    /\ Connected(ns)
    /\ UNCHANGED <<aes, peerKey, heard, zlib, sized>>

\* BlmClient::sendMsg on the connection.
SendMsg(n) ==
    /\ wire # <<>> \/ heard # <<>>
    /\ Len(wire) + Len(heard) <= MaxMsgs
    /\ Send(Msg(n))
    /\ UNCHANGED <<aes, peerKey, heard, zlib, sized>>

\* The peer gets the next message: it learns the key or reads the content,
\* as a server and as a client of this SDK.
PeerReceives ==
    /\ wire # <<>>
    /\ LET m == Head(wire).m body == Head(wire).body
       IN  /\ peerKey' = IF m.type = "key" /\ rc4(ServerDecode(peerKey, m, body)).layers # <<"?">>
                         THEN Head(rc4(ServerDecode(peerKey, m, body)).layers) ELSE peerKey
           /\ heard' = Append(heard, [m |-> m, server |-> ServerDecode(peerKey, m, body),
                                      client |-> decodeMsg(peerKey, m, body)])
    /\ wire' = Tail(wire)
    /\ UNCHANGED <<aes, zlib, sized>>

-----------------------------------------------------------------------------
(* Zlib's loops and the sizes of AES and Base64                             *)

NoZlib == [op |-> "none", len |-> 0, need |-> 0, reslen |-> 0, done |-> FALSE, ok |-> FALSE]

Idle == aes = "none" /\ sized = <<>> /\ zlib = NoZlib

\* The first buffer: as long as the input, or three times as long.
FirstBuffer(op, len) == IF op = "compress" THEN len ELSE 3 * len

\* zlib will need `need' bytes for the result, or finds bad data: never when
\* it compresses, always when it is to uncompress nothing.
Bad == -1
StartZlib(op, len, need) ==
    /\ op = "compress" => need # Bad
    /\ op = "uncompress" /\ len = 0 => need = Bad
    /\ zlib' = [op |-> op, len |-> len, need |-> need, reslen |-> FirstBuffer(op, len), done |-> FALSE, ok |-> FALSE]
    /\ UNCHANGED <<linkVars, sized>>

\* Mutant: the buffer keeps its size.
GrownNot(z) == z

\* A buffer that is too small is doubled and the call made again.
Grown(z) == [z EXCEPT !.reslen = 2 * @]

\* One call of zlib's compress or uncompress.  Bad data ends the loop with a
\* result as long as the buffer, of bytes nobody wrote.
TryZlib ==
    /\ zlib.op # "none" /\ ~zlib.done
    /\ zlib' = CASE zlib.need = Bad -> [zlib EXCEPT !.done = TRUE]
                 [] zlib.need # Bad /\ zlib.reslen >= zlib.need ->
                      [zlib EXCEPT !.reslen = zlib.need, !.done = TRUE, !.ok = TRUE]
                 [] OTHER -> Grown(zlib)
    /\ UNCHANGED <<linkVars, sized>>

Padding(n) == 16 - (n % 16)

\* The length of the cipher text, whose last byte says how much to cut off.
Padded(n) == n + Padding(n)

\* polarssl needs four characters for every three bytes begun, and a
\* terminator.
Base64Chars(n) == 4 * ((n + 2) \div 3)

\* The buffer of Base64::encode.
Base64Buffer(n) == 2 * n + 2

\* Base64::encode: the result is as long as olen says afterwards, which is
\* not changed for empty input and is what would be needed on failure.
Base64Result(n) ==
    CASE n = 0 -> [size |-> Base64Buffer(0), written |-> 0, buffer |-> Base64Buffer(0)]
      [] n # 0 /\ Base64Buffer(n) < Base64Chars(n) + 1 ->
           [size |-> Base64Chars(n) + 1, written |-> 0, buffer |-> Base64Buffer(n)]
      [] OTHER -> [size |-> Base64Chars(n), written |-> Base64Chars(n), buffer |-> Base64Buffer(n)]

\* Base64::decode of what encode made of n bytes.
Base64Decoded(n) ==
    LET e == Base64Result(n)
        buffer == e.size + 2
        needed == (e.size * 6 + 7) \div 8
    IN  IF e.written # 0 /\ needed <= buffer THEN n ELSE -1

CheckSizes(n) ==
    /\ sized' = [n |-> n, padded |-> Padded(n), base64 |-> Base64Result(n), decoded |-> Base64Decoded(n)]
    /\ UNCHANGED <<linkVars, zlib>>

CodecInit == aes = "none" /\ wire = <<>> /\ peerKey = "none" /\ heard = <<>> /\ zlib = NoZlib /\ sized = <<>>

CodecNext ==
    \/ \E k \in AesKeys : NewConnection(k)
    \/ \E ns \in SeqOf(DataSizes, 1) : OnConnect(ns)
    \/ \E n \in DataSizes : SendMsg(n)
    \/ PeerReceives
    \/ /\ Idle
       /\ \E op \in {"compress", "uncompress"}, len \in 0..MaxZlib, need \in Bad..(4 * MaxZlib) : StartZlib(op, len, need)
    \/ TryZlib
    \/ Idle /\ \E n \in 0..MaxLen : CheckSizes(n)

-----------------------------------------------------------------------------
(* Properties                                                               *)

\* The server reads every message as it was given to sendMsg, the ones the
\* connect callbacks send included: the key is always there before the first
\* message that needs it, and its own message is not encrypted with it.
ServerReadsAll == \A i \in DOMAIN heard : heard[i].server = heard[i].m.data

\* decodeMsg undoes sendMsg, except for messages that are both compressed and
\* encrypted, where it takes the layers off in the wrong order, and for the
\* message with the key.
DecodeUndoesSend ==
    \A i \in DOMAIN heard :
        heard[i].m.type = "key" \/ (heard[i].m.compress /\ heard[i].m.encrypt)
          \/ heard[i].client = heard[i].m.data

\* The loops of Zlib::uncompress and of Zlib::compress end, except that of
\* compress for empty input: its buffer has length 0 and stays so.
ZlibEnds == zlib.op = "uncompress" \/ (zlib.op = "compress" /\ zlib.len > 0) ~> zlib.done

\* What is encrypted fills whole blocks and has room for the byte that tells
\* the padding; the sizes of Base64 are right for every input of at least two
\* bytes, and what was encoded decodes to as many bytes.
SizesFit ==
    sized # <<>> =>
        /\ sized.n > 0 => sized.padded % 16 = 0 /\ sized.padded > sized.n /\ sized.padded - sized.n <= 16
        /\ sized.n > 1 => /\ sized.base64.size = sized.base64.written
                          /\ sized.base64.size + 1 <= sized.base64.buffer
                          /\ sized.decoded = sized.n

=============================================================================
