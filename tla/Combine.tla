------------------------------- MODULE Combine -------------------------------
(***************************************************************************)
(* src/hle/gl_combine3.c: GL_ATI_texture_env_combine3 for games, over      *)
(* GL_NV_texture_env_combine4.                                             *)
(*                                                                         *)
(* units is what the game set and gl what GL has, by parameter name; the   *)
(* texture unit is the active one.  A colour is one number in halves, 0 to *)
(* 2, so an operand is the source or its inverse, and what a function      *)
(* computes is in quarters.                                                *)
(***************************************************************************)
EXTENDS Integers, FiniteSets, TLC

CONSTANTS Functions,  \* the game's combine functions, by channel
          Sources     \* the sources of its three arguments, by channel

VARIABLES units, emulated, gl

vars == <<units, emulated, gl>>

Channels == {"RGB", "ALPHA"}
MODE == <<"TEXTURE_ENV_MODE">>
Combine(c) == <<"COMBINE", c>>
Source(c, i) == <<"SOURCE", c, i>>
Operand(c, i) == <<"OPERAND", c, i>>
Operands == {"SRC", "ONE_MINUS_SRC"}
Slots == {MODE} \cup {Combine(c) : c \in Channels}
           \cup {<<n, c, i>> : n \in {"SOURCE", "OPERAND"}, c \in Channels, i \in 0..2}
SlotsNV == Slots \cup {<<n, c, 3>> : n \in {"SOURCE", "OPERAND"}, c \in Channels}

is_ati(function) ==
  function \in {"MODULATE_ADD_ATI", "MODULATE_SIGNED_ADD_ATI", "MODULATE_SUBTRACT_ATI"}

inverted(operand) == IF operand = "SRC" THEN "ONE_MINUS_SRC" ELSE "SRC"

Arg(source, operand) == [source |-> source, operand |-> operand]
one == Arg("ZERO", "ONE_MINUS_SRC")
zero == Arg("ZERO", "SRC")

(* The i-th argument, with ATI's ONE source as ZERO inverted.              *)
argument(u, c, i) ==
  IF u[Source(c, i)] = "ONE" THEN Arg("ZERO", inverted(u[Operand(c, i)]))
  ELSE Arg(u[Source(c, i)], u[Operand(c, i)])

(* The COMBINE4_NV function and four arguments that give c's function; one *)
(* that they cannot give has its first argument stand in.                  *)
combine4_form(u, c) ==
  LET a(i) == argument(u, c, i)
      f == u[Combine(c)]
  IN CASE f = "REPLACE" -> <<"ADD", a(0), one, zero, zero>>
       [] f = "MODULATE" -> <<"ADD", a(0), a(1), zero, zero>>
       [] f = "ADD" -> <<"ADD", a(0), one, a(1), one>>
       [] f = "ADD_SIGNED" -> <<"ADD_SIGNED", a(0), one, a(1), one>>
       [] f = "INTERPOLATE" ->
            <<"ADD", a(0), a(2), a(1), Arg(a(2).source, inverted(a(2).operand))>>
       [] f = "MODULATE_ADD_ATI" -> <<"ADD", a(0), a(2), a(1), one>>
       [] f = "MODULATE_SIGNED_ADD_ATI" -> <<"ADD_SIGNED", a(0), a(2), a(1), one>>
       [] OTHER -> <<"ADD", a(0), one, zero, zero>>

(* GL's answer to a setting: without ATI's extension it refuses ATI's      *)
(* functions and ONE, and keeps what it had.                               *)
Accepted(had, value) == IF is_ati(value) \/ value = "ONE" THEN had ELSE value

set_combine4(u) ==
  [p \in SlotsNV |->
     CASE p = MODE -> "COMBINE4_NV"
       [] p[1] = "COMBINE" -> combine4_form(u, p[2])[1]
       [] p[1] = "SOURCE" -> combine4_form(u, p[2])[p[3] + 2].source
       [] p[1] = "OPERAND" -> combine4_form(u, p[2])[p[3] + 2].operand]

set_combine(g, u) == [p \in SlotsNV |-> IF p \in Slots THEN Accepted(g[p], u[p]) ELSE g[p]]

handle(pname, value) ==
  LET u == [units EXCEPT ![pname] = value]
      ati == u[MODE] = "COMBINE" /\ \E c \in Channels : is_ati(u[Combine(c)])
  IN /\ units' = u
     /\ emulated' = ati
     /\ gl' = IF ati THEN set_combine4(u)
              ELSE IF emulated THEN set_combine(gl, u)
              ELSE [gl EXCEPT ![pname] = Accepted(@, value)]

-----------------------------------------------------------------------------
Values(p) == CASE p = MODE -> {"MODULATE", "COMBINE"}
               [] p[1] = "COMBINE" -> Functions[p[2]]
               [] p[1] = "SOURCE" -> Sources[p[2]][p[3]]
               [] p[1] = "OPERAND" -> IF Cardinality(Sources[p[2]][p[3]]) = 1 THEN {"SRC"}
                                      ELSE Operands

(* GL's defaults, but for the third source, which the game has set: GL's   *)
(* default is the constant colour, and what emulating() notes is another.  *)
Default == [p \in SlotsNV |->
  CASE p = MODE -> "MODULATE"
    [] p[1] = "COMBINE" -> "MODULATE"
    [] p[1] = "SOURCE" -> (0 :> "TEXTURE" @@ 1 :> "PREVIOUS" @@ 2 :> "PRIMARY_COLOR" @@ 3 :> "ZERO")[p[3]]
    [] p[1] = "OPERAND" -> IF p[3] = 3 THEN "ONE_MINUS_SRC" ELSE "SRC"]

Init == gl = Default /\ emulated = FALSE /\ units = [p \in Slots |-> Default[p]]
Next == \E p \in Slots : \E value \in Values(p) : handle(p, value)
Spec == Init /\ [][Next]_vars

TypeOK ==
  /\ DOMAIN units = Slots /\ \A p \in Slots : units[p] \in Values(p) \cup {Default[p]}
  /\ emulated \in BOOLEAN /\ DOMAIN gl = SlotsNV

-----------------------------------------------------------------------------
(* What functions mean, for colours v of the sources.                      *)
Colours == [{"TEXTURE", "PREVIOUS", "PRIMARY_COLOR"} -> 0..2]
Colour(e, c, i, v) ==
  LET s == e[Source(c, i)]
      x == CASE s = "ONE" -> 2 [] s = "ZERO" -> 0 [] OTHER -> v[s]
  IN IF e[Operand(c, i)] = "SRC" THEN x ELSE 2 - x

Meaning(e, c, v) ==
  LET a(i) == Colour(e, c, i, v)
      f == e[Combine(c)]
  IN CASE e[MODE] = "COMBINE4_NV" ->
            a(0) * a(1) + a(2) * a(3) - (IF f = "ADD_SIGNED" THEN 2 ELSE 0)
       [] f = "REPLACE" -> 2 * a(0)
       [] f = "MODULATE" -> a(0) * a(1)
       [] f = "ADD" -> 2 * (a(0) + a(1))
       [] f = "ADD_SIGNED" -> 2 * (a(0) + a(1)) - 2
       [] f = "INTERPOLATE" -> a(0) * a(2) + a(1) * (2 - a(2))
       [] f = "MODULATE_ADD_ATI" -> a(0) * a(2) + 2 * a(1)
       [] f = "MODULATE_SIGNED_ADD_ATI" -> a(0) * a(2) + 2 * a(1) - 2
       [] f = "MODULATE_SUBTRACT_ATI" -> a(0) * a(2) - 2 * a(1)

Used(f) == IF f = "REPLACE" THEN {0} ELSE IF f \in {"MODULATE", "ADD", "ADD_SIGNED"} THEN {0, 1}
           ELSE 0..2
(* COMBINE4_NV has no subtraction; and GL alone has no ONE, which the code *)
(* does not emulate for the functions GL has.                              *)
CanBeGiven(c) ==
  /\ units[Combine(c)] # "MODULATE_SUBTRACT_ATI"
  /\ emulated \/ \A i \in Used(units[Combine(c)]) : units[Source(c, i)] # "ONE"

(* Whatever the order in which the game makes its settings, GL combines as *)
(* they say, in and out of the emulation.                                  *)
CombinesAsSet ==
  IF units[MODE] # "COMBINE" THEN gl[MODE] = units[MODE]
  ELSE \A c \in Channels : CanBeGiven(c) =>
         \A v \in Colours : Meaning(gl, c, v) = Meaning(units, c, v)
=============================================================================
