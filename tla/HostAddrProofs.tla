---------------------------- MODULE HostAddrProofs ----------------------------
(***************************************************************************)
(* HostAddr for every address.  The int of an address is                   *)
(*     o1 + 256 o2 + 65536 o3 + 16777216 s4                                *)
(* with s4 the last octet as a signed byte (IntOf); both conversions     *)
(* compute it and its bytes are the octets again.                          *)
(***************************************************************************)
EXTENDS HostAddr, TLAPS

(* A step of the loop that does not reach the sign bit. *)
LEMMA ShiftedLow ==
  ASSUME NEW x \in Int, 0 <= x, x < 8388608, NEW v \in Octet
  PROVE Shifted(x, v) = x * 256 + v
<1>1. x % 16777216 = x
  BY SMT
<1>2. Left8(x) = 256 * x
  BY <1>1, SMT DEF Left8
<1> QED
  BY <1>2, SMT DEF Shifted, Octet

(* A step that reaches it. *)
LEMMA ShiftedHigh ==
  ASSUME NEW x \in Int, 8388608 <= x, x < 16777216, NEW v \in Octet
  PROVE Shifted(x, v) = (x - 16777216) * 256 + v
<1>1. x % 16777216 = x
  BY SMT
<1>2. Left8(x) = 256 * (x - 16777216)
  BY <1>1, SMT DEF Left8
<1> QED
  BY <1>2, SMT DEF Shifted, Octet

(* The last step: a last octet of 128 or more becomes the sign. *)
LEMMA ShiftedLast ==
  ASSUME NEW x \in Int, 0 <= x, x < 65536, NEW o \in Octet, NEW v \in Octet
  PROVE Shifted(o * 65536 + x, v) = SignedByte(o) * 16777216 + x * 256 + v
<1>1. PICK y \in Int : y = o * 65536 + x
  BY SMT DEF Octet
<1>2. CASE o < 128
  <2>1. 0 <= y /\ y < 8388608
    BY <1>1, <1>2, SMT DEF Octet
  <2>2. Shifted(y, v) = y * 256 + v
    BY <2>1, ShiftedLow, SMT
  <2> QED
    BY <1>1, <1>2, <2>2, SMT DEF SignedByte, Octet
<1>3. CASE ~(o < 128)
  <2>1. 8388608 <= y /\ y < 16777216
    BY <1>1, <1>3, SMT DEF Octet
  <2>2. Shifted(y, v) = (y - 16777216) * 256 + v
    BY <2>1, ShiftedHigh, SMT
  <2> QED
    BY <1>1, <1>3, <2>2, SMT DEF SignedByte, Octet
<1> QED
  BY <1>2, <1>3, SMT

IntOf(a, b, c, d) == a + b * 256 + c * 65536 + SignedByte(d) * 16777216

LEMMA IpOctets ==
  ASSUME NEW ip \in Ip
  PROVE ip[1] \in Octet /\ ip[2] \in Octet /\ ip[3] \in Octet /\ ip[4] \in Octet
BY SMT DEF Ip

LEMMA StringConversion ==
  ASSUME NEW ip \in Ip PROVE hostToInt(ip) = IntOf(ip[1], ip[2], ip[3], ip[4])
<1> SUFFICES ASSUME NEW a \in Octet, NEW b \in Octet, NEW c \in Octet, NEW d \in Octet
             PROVE Shifted(Shifted(Shifted(Shifted(0, d), c), b), a) = IntOf(a, b, c, d)
  BY IpOctets, SMT DEF hostToInt
<1>0. d \in Int /\ 0 <= d /\ d < 65536
  BY SMT DEF Octet
<1>1. Shifted(0, d) = d
  <2>1. Shifted(0, d) = 0 * 256 + d
    BY ShiftedLow, SMT
  <2> QED
    BY <1>0, <2>1, SMT
<1>2. Shifted(d, c) = d * 256 + c
  BY <1>0, ShiftedLow, SMT
<1>3. PICK x \in Int : x = d * 256 + c
  BY SMT DEF Octet
<1>4. 0 <= x /\ x < 65536
  BY <1>3, SMT DEF Octet
<1>5. Shifted(x, b) = x * 256 + b
  BY <1>4, ShiftedLow, SMT
<1>6. PICK low \in Int : low = c * 256 + b
  BY SMT DEF Octet
<1>7. 0 <= low /\ low < 65536 /\ x * 256 + b = d * 65536 + low
  BY <1>3, <1>6, SMT DEF Octet
<1>8. Shifted(d * 65536 + low, a) = SignedByte(d) * 16777216 + low * 256 + a
  BY <1>7, ShiftedLast, SMT
<1>9. PICK s \in Int : s = SignedByte(d)
  BY SMT DEF SignedByte, Octet
<1>10. IntOf(a, b, c, d) = a + b * 256 + c * 65536 + s * 16777216
  BY <1>9, SMT DEF IntOf
<1>11. Shifted(d * 65536 + low, a) = s * 16777216 + low * 256 + a
  BY <1>8, <1>9, SMT
<1>12. s * 16777216 + low * 256 + a = a + b * 256 + c * 65536 + s * 16777216
  BY <1>6, <1>9, SMT DEF Octet
<1> QED
  BY <1>1, <1>2, <1>3, <1>5, <1>7, <1>10, <1>11, <1>12, SMT

(* One byte of an int: what lies below it, itself, what lies above it. *)
LEMMA LowByte ==
  ASSUME NEW y \in Int, NEW a \in Octet, NEW q \in Int, y = a + q * 256
  PROVE y % 256 = a /\ y \div 256 = q
BY SMT DEF Octet

LEMMA Above65536 ==
  ASSUME NEW y \in Int, NEW a \in Int, 0 <= a, a < 65536, NEW q \in Int, y = a + q * 65536
  PROVE y \div 65536 = q
BY SMT

LEMMA Above16777216 ==
  ASSUME NEW y \in Int, NEW a \in Int, 0 <= a, a < 16777216, NEW q \in Int, y = a + q * 16777216
  PROVE y \div 16777216 = q
BY SMT

LEMMA SignedByteBack ==
  ASSUME NEW o \in Octet PROVE SignedByte(o) \in Int /\ SignedByte(o) % 256 = o
BY SMT DEF SignedByte, Octet

LEMMA BytesOfInt ==
  ASSUME NEW a \in Octet, NEW b \in Octet, NEW c \in Octet, NEW d \in Octet
  PROVE LET y == IntOf(a, b, c, d) IN
        /\ y \in Int
        /\ y % 256 = a /\ (y \div 256) % 256 = b
        /\ (y \div 65536) % 256 = c /\ (y \div 16777216) % 256 = d
<1>1. PICK s \in Int : s = SignedByte(d) /\ s % 256 = d
  BY SignedByteBack, SMT
<1>2. PICK y \in Int : y = a + b * 256 + c * 65536 + s * 16777216
  BY SMT DEF Octet
<1>3. IntOf(a, b, c, d) = y
  BY <1>1, <1>2, SMT DEF IntOf
<1>4. PICK q \in Int : q = c + s * 256
  BY SMT DEF Octet
<1>5. PICK r \in Int : r = b + q * 256
  BY SMT DEF Octet
<1>6. PICK low \in Int : low = a + b * 256
  BY SMT DEF Octet
<1>7. PICK lower \in Int : lower = a + b * 256 + c * 65536
  BY SMT DEF Octet
<1>8. y = a + r * 256 /\ y = low + q * 65536 /\ y = lower + s * 16777216
  BY <1>2, <1>4, <1>5, <1>6, <1>7, SMT DEF Octet
<1>9. 0 <= low /\ low < 65536 /\ 0 <= lower /\ lower < 16777216
  BY <1>6, <1>7, SMT DEF Octet
<1>10. q % 256 = c
  BY <1>4, LowByte, SMT
<1>11. r % 256 = b
  BY <1>5, LowByte, SMT
<1>12. y % 256 = a /\ y \div 256 = r
  BY <1>8, LowByte, SMT
<1>13. y \div 65536 = q
  BY <1>8, <1>9, Above65536, SMT
<1>14. y \div 16777216 = s
  BY <1>8, <1>9, Above16777216, SMT
<1> QED
  BY <1>1, <1>3, <1>10, <1>11, <1>12, <1>13, <1>14, SMT

(* What the natives put into sin_addr is the address that was written, and *)
(* hostToString() gives it back: the octets survive the conversion, the    *)
(* sign bit included.                                                      *)
THEOREM RoundTrip == \A ip \in Ip : hostToString(hostToInt(ip)) = ip
<1> SUFFICES ASSUME NEW ip \in Ip PROVE hostToString(hostToInt(ip)) = ip
  OBVIOUS
<1>1. PICK y \in Int :
        /\ y = hostToInt(ip)
        /\ y % 256 = ip[1] /\ (y \div 256) % 256 = ip[2]
        /\ (y \div 65536) % 256 = ip[3] /\ (y \div 16777216) % 256 = ip[4]
  BY IpOctets, StringConversion, BytesOfInt, SMT
<1>2. y \div 1 = y
  BY SMT
<1>3. \A k \in 1 .. 4 : (y \div Weight[k]) % 256 = ip[k]
  BY <1>1, <1>2, SMT DEF Weight
<1>4. ip = [k \in 1 .. 4 |-> ip[k]]
  BY SMT DEF Ip
<1>5. hostToString(y) = [k \in 1 .. 4 |-> (y \div Weight[k]) % 256]
  BY SMT DEF hostToString
<1>6. hostToString(y) = ip
  BY <1>3, <1>4, <1>5, SMT
<1> QED
  BY <1>1, <1>6, SMT

(* hostToInt(String) and hostToInt(InetAddress), which does without the    *)
(* loop, give one int for one address.                                     *)
THEOREM ConversionsAgree == \A ip \in Ip : hostToIntOfBytes(ip) = hostToInt(ip)
<1>1. ASSUME NEW a \in Octet, NEW b \in Octet, NEW c \in Octet, NEW d \in Octet
      PROVE SignedByte(d) * 16777216 + c * 65536 + b * 256 + a = IntOf(a, b, c, d)
  <2>1. PICK s \in Int : s = SignedByte(d)
    BY SignedByteBack, SMT
  <2> QED
    BY <2>1, SMT DEF IntOf, Octet
<1> QED
  BY <1>1, IpOctets, StringConversion, SMT DEF hostToIntOfBytes

(* Different addresses have different ints.  ipInUse is keyed by the       *)
(* string and the device opened by the int: one device stands for one      *)
(* address however it is named.                                            *)
THEOREM Injective == \A ip, other \in Ip : hostToInt(ip) = hostToInt(other) => ip = other
BY RoundTrip, SMT

=============================================================================
