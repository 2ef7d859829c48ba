------------------------------ MODULE Addresses ------------------------------
(***************************************************************************)
(* The address types of pox/lib/addresses.py: the forms in which Ethernet  *)
(* and IPv4 addresses are written, networks written as text and what they  *)
(* contain.  A byte has 2 * HexBits bits instead of 8, so that all values  *)
(* can be enumerated.                                                      *)
(***************************************************************************)
EXTENDS Integers, Sequences

CONSTANT HexBits      \* bits of a hexadecimal digit, 4 in the program
ASSUME HexBitsAssumption == HexBits \in Nat \ {0}

Hex == 2 ^ HexBits
Byte == Hex * Hex
Width == 8 * HexBits  \* bits of an IPv4 address

(* A result that may be an exception. *)
Raises == [ok |-> FALSE]
Is(v) == [ok |-> TRUE, value |-> v]

(* The number whose digits to the base b are the sequence s. *)
Number(s, b) == LET sum[i \in 0 .. Len(s)] == IF i = 0 THEN 0 ELSE b * sum[i - 1] + s[i]
                IN  sum[Len(s)]
(* The n lowest digits of v. *)
Digits(v, b, n) == [i \in 1 .. n |-> (v \div b ^ (n - i)) % b]

-----------------------------------------------------------------------------
(* EthAddr.  Its value is the sequence of its six bytes.                   *)
(*   int     a number, of which the lowest six bytes count                 *)
(*   raw     six bytes (a list or a tuple too), a null reference six zeros *)
(*   long    aa:bb:cc:dd:ee:ff or with dashes: twelve digits and whether   *)
(*           the separators stand where they must                          *)
(*   short   twelve digits                                                 *)
(*   groups  six numbers with colons between them, of any length: written  *)
(*           again with at least two digits each, and the first twelve     *)
(*           digits are taken                                              *)
HexPairs(d) == [i \in 1 .. 6 |-> Number(<<d[2 * i - 1], d[2 * i]>>, Hex)]
TwoOrMore(g) == Digits(g, Hex, IF g < Byte THEN 2 ELSE 3)

EthAddr(a) ==
    CASE a.form = "int" -> Is(Digits(a.v, Byte, 6))
      [] a.form = "raw" -> Is(a.v)
      [] a.form = "none" -> Is([i \in 1 .. 6 |-> 0])
      [] a.form = "long" -> IF a.separated THEN Is(HexPairs(a.v)) ELSE Raises
      [] a.form = "short" -> Is(HexPairs(a.v))
      [] a.form = "groups" ->
            LET g == a.v
            IN  Is(HexPairs(TwoOrMore(g[1]) \o TwoOrMore(g[2]) \o TwoOrMore(g[3])
                              \o TwoOrMore(g[4]) \o TwoOrMore(g[5]) \o TwoOrMore(g[6])))
      [] OTHER -> Raises

toInt(e) == Number(e, Byte)

-----------------------------------------------------------------------------
(* IPAddr.  Its value is the sequence of its four bytes, first one first.  *)
(* A number is in the order of the host, or in that of the network, which  *)
(* on the little-endian hosts the program runs on is the other one.        *)
IPAddr(a) ==
    CASE a.form = "int" ->
            LET d == Digits(a.v, Byte, 4)
            IN  Is(IF a.networkOrder THEN [i \in 1 .. 4 |-> d[5 - i]] ELSE d)
      [] a.form \in {"raw", "text"} -> Is(a.v)
      [] OTHER -> Raises

toUnsigned(ip, networkOrder) ==
    Number(IF networkOrder THEN [i \in 1 .. 4 |-> ip[5 - i]] ELSE ip, Byte)

toSigned(ip, networkOrder) ==
    LET u == toUnsigned(ip, networkOrder)
    IN  IF u >= 2 ^ (Width - 1) THEN u - 2 ^ Width ELSE u

(* inferNetMask(): the bits of the host in the classes A to D; there is no *)
(* answer for what lies above them.                                        *)
inferNetMask(ip) ==
    LET n == toUnsigned(ip, FALSE)
        top(k) == n \div 2 ^ (Width - k)
    IN  CASE n = 0 -> Is(Width)
          [] n # 0 /\ top(1) = 0 -> Is(6 * HexBits)
          [] top(2) = 2 -> Is(4 * HexBits)
          [] top(3) = 6 -> Is(2 * HexBits)
          [] top(4) = 14 -> Is(0)
          [] OTHER -> Raises

(* Mutant: the part of the host is not looked at. *)
HostIgnored(ip, wild) == Is([addr |-> ip, wild |-> wild])

(* check() in parseCIDR() *)
CheckHostPart(ip, wild) ==
    IF toUnsigned(ip, FALSE) % 2 ^ wild = 0 THEN Is([addr |-> ip, wild |-> wild]) ELSE Raises

(* The ones a netmask begins with. *)
LeadingOnes(m) ==
    CHOOSE b \in 0 .. Width :
        /\ m \div 2 ^ (Width - b) = 2 ^ b - 1
        /\ b < Width => m \div 2 ^ (Width - b - 1) # 2 ^ (b + 1) - 1

(* parseCIDR(): an address alone, with the length of its prefix, or with a *)
(* netmask.                                                                *)
parseCIDR(t, infer) ==
    LET ip == t.addr
    IN  CASE t.suffix = "none" /\ ~ infer -> Is([addr |-> ip, wild |-> 0])
          [] t.suffix = "none" /\ infer ->
                LET b == inferNetMask(ip)
                IN  IF ~ b.ok THEN Raises
                    ELSE IF toUnsigned(ip, FALSE) % 2 ^ b.value = 0
                    THEN CheckHostPart(ip, b.value) ELSE CheckHostPart(ip, 0)
          [] t.suffix = "length" ->
                IF Width - t.arg \in 0 .. Width THEN CheckHostPart(ip, Width - t.arg) ELSE Raises
          [] t.suffix = "mask" ->
                LET m == toUnsigned(t.arg, FALSE)
                    b == LeadingOnes(m)
                IN  IF m % 2 ^ (Width - b) = 0 THEN CheckHostPart(ip, Width - b) ELSE Raises

(* inNetwork() with a network that is text: only the address is masked. *)
inNetworkText(ip, t) ==
    LET r == parseCIDR(t, TRUE)
        n == toUnsigned(ip, FALSE)
    IN  IF ~ r.ok THEN Raises
        ELSE Is(n - (n % 2 ^ r.value.wild) = toUnsigned(r.value.addr, FALSE))

-----------------------------------------------------------------------------
(* What the forms mean. *)
IPs == [1 .. 4 -> 0 .. Byte - 1]
Bit(n, i) == (n \div 2 ^ i) % 2

Texts ==
    [addr : IPs, suffix : {"none"}]
      \union [addr : IPs, suffix : {"length"}, arg : -1 .. Width + 1]

(* The networks written with a mask: those of a few addresses. *)
MaskTexts == [addr : {ip \in IPs : ip[1] = Byte - 1 /\ ip[2] = ip[3]}, suffix : {"mask"}, arg : IPs]

(* n is in the network that t writes. *)
Within(n, t) ==
    LET a == toUnsigned(t.addr, FALSE)
    IN  CASE t.suffix = "length" -> n \div 2 ^ (Width - t.arg) = a \div 2 ^ (Width - t.arg)
          [] t.suffix = "mask" -> \A i \in 0 .. Width - 1 :
                                     Bit(toUnsigned(t.arg, FALSE), i) = 1 => Bit(n, i) = Bit(a, i)

(* A few addresses around those of a text. *)
Near(t) == LET a == toUnsigned(t.addr, FALSE)
           IN  {a, (a + 1) % 2 ^ Width, (a + 2 ^ Width - 1) % 2 ^ Width, 0, 2 ^ Width - 1}
               \union {(a + 2 ^ k) % 2 ^ Width : k \in 0 .. Width - 1}

(* However an address is written, it is the same address and gives the     *)
(* same number back, as long as no group of an Ethernet address has more   *)
(* than two digits.  A network written as text contains the addresses it   *)
(* means and no other, up to the lengths 0 and Width, or is refused: a     *)
(* text that is accepted never names an empty network.  Without a suffix   *)
(* it contains the address it is written with, and an address that cannot  *)
(* be that of a network stands for itself alone.                           *)
FormsAgree ==
    /\ \A v \in 0 .. Byte ^ 6 - 1 :
          LET e == Digits(v, Byte, 6)
              d == Digits(v, Hex, 12)
          IN  /\ toInt(EthAddr([form |-> "int", v |-> v]).value) = v
              /\ {EthAddr([form |-> "int", v |-> v + Byte ^ 6]).value,
                  EthAddr([form |-> "raw", v |-> e]).value,
                  EthAddr([form |-> "groups", v |-> e]).value,
                  EthAddr([form |-> "short", v |-> d]).value,
                  EthAddr([form |-> "long", v |-> d, separated |-> TRUE]).value} = {e}
    /\ \A n \in 0 .. 2 ^ Width - 1, order \in BOOLEAN :
          LET ip == IPAddr([form |-> "int", v |-> n, networkOrder |-> order]).value
          IN  toUnsigned(ip, order) = n /\ toSigned(ip, order) % 2 ^ Width = n
    /\ \A t \in Texts \union MaskTexts :
          LET r(n) == inNetworkText(Digits(n, Byte, 4), t)
              a == toUnsigned(t.addr, FALSE)
          IN  r(a).ok =>
                 /\ r(a).value
                 /\ t.suffix # "none" => \A n \in Near(t) : r(n).value = Within(n, t)
                 /\ (t.suffix = "none" /\ a % 2 # 0) => \A n \in Near(t) \ {a} : ~ r(n).value
=============================================================================
