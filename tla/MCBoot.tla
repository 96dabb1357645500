------------------------------- MODULE MCBoot -------------------------------
(* Glyphs of 2 by 2 pixels; no framebuffer, one that is refused, and one   *)
(* of 5 by 5 pixels with rows of 6; a text that wraps past both edges of   *)
(* the screen, and a shorter one.                                          *)
EXTENDS Boot, TLC

MCFont == ("a" :> {<<0, 0>>, <<1, 1>>}) @@ ("b" :> {<<1, 0>>, <<0, 1>>})

MCFramebuffers ==
  {{}, {[width |-> 5, height |-> 5, pitch |-> 24, bpp |-> 24]},
   {[width |-> 5, height |-> 5, pitch |-> 24, bpp |-> 32]}}

MCTexts == {<<"a", "b", "a", NewLine, "b", NewLine, "a">>, <<"b", NewLine>>}
=============================================================================
