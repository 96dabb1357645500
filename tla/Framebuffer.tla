---------------------------- MODULE Framebuffer ----------------------------
(* The back buffer of src/kernel/src/framebuffer.rs and the text drawing   *)
(* of font_renderer.rs, as operators.  A framebuffer is a record of its    *)
(* width and height in pixels, its pitch in bytes, and its bits per pixel. *)
EXTENDS Integers, Sequences, FiniteSets
CONSTANTS
  GlyphWidth,   \* 8
  GlyphHeight,  \* 16
  Font          \* FONT8X16: character |-> the <<col, row>> that are lit

ASSUME FontAssumption ==
  /\ GlyphWidth \in Nat /\ GlyphHeight \in Nat
  /\ \A ch \in DOMAIN Font : Font[ch] \subseteq (0..(GlyphWidth - 1)) \X (0..(GlyphHeight - 1))
NewLine == "\n"

pitch_u32(fb) == fb.pitch \div 4

(* The element of the back buffer that set writes.                         *)
Element(fb, x, y) == y * pitch_u32(fb) + x

(* Framebuffer::new: the zeroed back buffer, indexed from 0.               *)
NewBackbuffer(fb) == [i \in 0..((fb.height * fb.pitch) \div 4 - 1) |-> 0]

(* clear: `rep stosd` over stride times height.                            *)
Cleared(fb, buf, color) ==
  [i \in DOMAIN buf \cup 0..(pitch_u32(fb) * fb.height - 1) |->
     IF i < pitch_u32(fb) * fb.height THEN color ELSE buf[i]]

(* Mutation of CharOffsets: rows are taken to be width pixels apart.       *)
CharOffsetsByWidth(fb, x, y, ch, scale) ==
  {p[2] * fb.width + p[1] :
     p \in
       {<<x + bit[1] * scale + dx, y + bit[2] * scale + dy>> :
           bit \in Font[ch], dx \in 0..(scale - 1), dy \in 0..(scale - 1)}
         \cap ((0..(fb.width - 1)) \X (0..(fb.height - 1)))}

(* draw_char: the offsets that set writes, clipped at the right and at the *)
(* lower edge.                                                             *)
CharOffsets(fb, x, y, ch, scale) ==
  {Element(fb, p[1], p[2]) :
     p \in
       {<<x + bit[1] * scale + dx, y + bit[2] * scale + dy>> :
           bit \in Font[ch], dx \in 0..(scale - 1), dy \in 0..(scale - 1)}
         \cap ((0..(fb.width - 1)) \X (0..(fb.height - 1)))}

(* draw_string: where the cursor is at each character.                     *)
Cursors(text, x0, y0, scale) ==
  LET at[i \in 1..Len(text)] ==
        IF i = 1 THEN <<x0, y0>>
        ELSE IF text[i - 1] = NewLine THEN <<x0, at[i - 1][2] + GlyphHeight * scale>>
        ELSE <<at[i - 1][1] + GlyphWidth * scale, at[i - 1][2]>>
  IN at

StringOffsets(fb, x0, y0, text, scale) ==
  LET at == Cursors(text, x0, y0, scale) IN
  UNION {CharOffsets(fb, at[i][1], at[i][2], text[i], scale) :
           i \in {j \in 1..Len(text) : text[j] # NewLine}}

Drawn(fb, buf, x0, y0, text, fg, scale) ==
  LET lit == StringOffsets(fb, x0, y0, text, scale)
  IN [i \in DOMAIN buf \cup lit |-> IF i \in lit THEN fg ELSE buf[i]]

(* flip: copy_nonoverlapping of stride times height.                       *)
Flipped(fb, buf) == [i \in 0..(fb.height * pitch_u32(fb) - 1) |-> buf[i]]

-----------------------------------------------------------------------------
(* What a text should look like: pixel <<x, y>> is lit iff it lies in the  *)
(* cell of a character, at a point lit in its glyph.                       *)

BreaksBefore(text, i) == {j \in 1..(i - 1) : text[j] = NewLine}

LineOf(text, i) == Cardinality(BreaksBefore(text, i))

ColumnOf(text, i) ==
  LET breaks == {0} \cup BreaksBefore(text, i)
  IN i - 1 - (CHOOSE b \in breaks : \A c \in breaks : c <= b)

Lit(text, x0, y0, scale, x, y) ==
  \E i \in 1..Len(text) :
    /\ text[i] # NewLine
    /\ LET left == x - x0 - ColumnOf(text, i) * GlyphWidth * scale
           top  == y - y0 - LineOf(text, i) * GlyphHeight * scale
       IN /\ left >= 0 /\ top >= 0
          /\ <<left \div scale, top \div scale>> \in Font[text[i]]
=============================================================================
