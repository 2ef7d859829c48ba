----------------------------- MODULE ByteLayout -----------------------------
(***************************************************************************)
(* A small language for the struct.pack / struct.unpack_from calls of the  *)
(* POX wire code.  Bytes are symbolic: byte i of a value v written with    *)
(* width w is the triple <<v, i, w>>, so that reading at a wrong offset or *)
(* with a wrong width yields Garbage instead of a value that happens to be *)
(* equal.  Values are tagged tuples:                                       *)
(*   Num(n)     a number the code computes with (a type, a length)         *)
(*   Sym(o, f)  the contents of field f of object o, which no code inspects*)
(*   Ones       the all-ones word 0xffffffff                               *)
(***************************************************************************)
EXTENDS Integers, Sequences

(* F(x), with x evaluated once. *)
Apply(F(_), x) == CHOOSE r \in {F(y) : y \in {x}} : TRUE

Num(n) == <<"num", n>>
Sym(o, f) == <<"sym", o, f>>
Ones == <<"ones">>
Garbage == <<"garbage">>
Zero == <<"pad">>

(***************************************************************************)
(* One letter of a format string with the attribute it carries: B, H, L, Q *)
(* as in module struct, Raw(f, w) for bytes appended as they are (an       *)
(* address, a string filled up with ljust), Pad(w) for the _PAD constants  *)
(* and the x format.                                                       *)
(***************************************************************************)
Raw(f, w) == [f |-> f, w |-> w, pad |-> FALSE]
Pad(w) == [f |-> "", w |-> w, pad |-> TRUE]
B(f) == Raw(f, 1)
H(f) == Raw(f, 2)
L(f) == Raw(f, 4)
Q(f) == Raw(f, 8)

Bytes(v, w) == [i \in 1 .. w |-> <<v, i, w>>]
ZeroBytes(w) == [i \in 1 .. w |-> <<Zero, 1, 1>>]

(* "".join(s) *)
Concat(s) ==
    LET c[i \in 0 .. Len(s)] == IF i = 0 THEN <<>> ELSE c[i - 1] \o s[i]
    IN  c[Len(s)]

(* struct.pack of a format over the attributes val. *)
PackFields(format, val) ==
    Concat([k \in DOMAIN format |->
        IF format[k].pad THEN ZeroBytes(format[k].w)
                         ELSE Bytes(val[format[k].f], format[k].w)])

RECURSIVE Size(_)
Size(format) == IF format = <<>> THEN 0 ELSE Head(format).w + Size(Tail(format))

(* struct.unpack_from(format, b, off): which attribute is read where. *)
At(off, format) ==
    [k \in DOMAIN format |->
        [f |-> format[k].f, w |-> format[k].w,
         off |-> off + Size(SubSeq(format, 1, k - 1))]]

(* The same reads on a slice of the buffer that starts n bytes later. *)
Shift(n, reads) == [k \in DOMAIN reads |-> [reads[k] EXCEPT !.off = @ + n]]

ReadField(b, off, w) ==
    IF off + w <= Len(b) /\ \A i \in 1 .. w : b[off + i] = <<b[off + 1][1], i, w>>
    THEN b[off + 1][1]
    ELSE Garbage

Names(reads) == {reads[k].f : k \in DOMAIN reads} \ {""}

(* The attributes after the reads, each of which sets another one. *)
UnpackFields(b, reads) ==
    [f \in Names(reads) |->
        Apply(LAMBDA r : ReadField(b, r.off, r.w),
              reads[CHOOSE i \in DOMAIN reads : reads[i].f = f])]

(* The number a value read as a length or a type stands for; a value that  *)
(* is not a number is taken as 0, which no well formed field holds.        *)
AsNat(v) == IF v[1] = "num" THEN v[2] ELSE 0

(* b[n:] and b[m:n] of Python. *)
From(b, n) == SubSeq(b, n + 1, Len(b))
Slice(b, m, n) == SubSeq(b, m + 1, IF n < Len(b) THEN n ELSE Len(b))
=============================================================================
