---------------------------- MODULE ComfortTarget ----------------------------
(***************************************************************************)
(* The adaptive comfort target (core/comfort.py; DECISIONS.md D65): the    *)
(* base temperature, warmer by the slope for every degree that the running *)
(* mean of outdoors lies under the reference, capped, clamped to the       *)
(* room's band and rounded to a step that the VTherm's number takes.       *)
(* Temperatures are whole numbers of a unit as small as one likes, the     *)
(* slope a whole number too.                                               *)
(***************************************************************************)
EXTENDS Integers

Clamp(value, lo, hi) == IF value < lo \/ hi < lo THEN lo ELSE IF value > hi THEN hi ELSE value

(* A value to the nearest multiple of step, half away from zero, and to    *)
(* the nearest ones below and above.                                       *)
Quantise(value, step) ==
  IF value >= 0 THEN ((2 * value + step) \div (2 * step)) * step
                ELSE -(((step - 2 * value) \div (2 * step)) * step)
Down(value, step) == (value \div step) * step
Up(value, step) == -((-value) \div step) * step

QuantiseWithin(value, step, lo, hi) ==
  LET clamped == Clamp(value, lo, hi)
      nearest == Quantise(clamped, step)
      below == IF nearest > hi THEN Down(hi, step) ELSE nearest
      q == IF below < lo THEN Up(lo, step) ELSE below
  IN IF q < lo \/ q > hi THEN clamped ELSE q

(* held: without a running mean, while it is frozen or freshly seeded.     *)
Requested(slope, t_rm, t_ref, held) == IF held THEN 0 ELSE slope * (t_ref - t_rm)
Target(base, slope, t_rm, t_ref, held, extra, max_offset, lo, hi) ==
  Clamp(base + Clamp(Requested(slope, t_rm, t_ref, held) + extra, -max_offset, max_offset), lo, hi)
=============================================================================
