------------------------------- MODULE HostAddr -------------------------------
(***************************************************************************)
(* AbstractUDPSocket's conversions between IP addresses and the Java int   *)
(* that the natives store into sin_addr as it is.                          *)
(*                                                                         *)
(* An address is the sequence of its four octets, as written.  A Java int  *)
(* has 32 bits; arithmetic wraps.                                          *)
(***************************************************************************)
EXTENDS Integers

Octet == 0 .. 255
Ip == [1 .. 4 -> Octet]

(* host << 8: the upper byte is dropped, bit 23 becomes the sign. *)
Left8(host) ==
  LET low == host % 16777216 IN
  256 * (IF low < 8388608 THEN low ELSE low - 16777216)

(* ipInt = (ipInt << 8) + ipVal, where the sum cannot overflow *)
Shifted(ipInt, ipVal) == Left8(ipInt) + ipVal

(* hostToInt(String): from the last part to the first. *)
hostToInt(ip) == Shifted(Shifted(Shifted(Shifted(0, ip[4]), ip[3]), ip[2]), ip[1])

(* hostToInt(InetAddress): host[3] << 24 keeps the sign of the byte, the   *)
(* masked ones have no sign; the four fields overlap nowhere.              *)
SignedByte(octet) == IF octet < 128 THEN octet ELSE octet - 256
hostToIntOfBytes(host) ==
  SignedByte(host[4]) * 16777216 + host[3] * 65536 + host[2] * 256 + host[1]

(* The bytes of an int on a little-endian machine: what hostToString()     *)
(* prints and what the kernel finds in sin_addr.                           *)
Weight == <<1, 256, 65536, 16777216>>
hostToString(host) == [k \in 1 .. 4 |-> (host \div Weight[k]) % 256]

=============================================================================
