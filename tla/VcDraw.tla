------------------------------- MODULE VcDraw -------------------------------
(***************************************************************************)
(* The video card's memory, drawing commands and picture (vc.c), as        *)
(* operators.  Memory is what has been written since the reset, laid over  *)
(* what the reset puts there; a drawing command is the set of pixels it    *)
(* sets, a copy or a blit a sequence of pokes in the code's order.         *)
(***************************************************************************)
EXTENDS Integers, Sequences, SequencesExt, FiniteSetsExt, TLC

CONSTANTS VC_WIDTH, VC_HEIGHT,  \* the picture
          VC_MAX_LINE_SPRITES,  \* sprites shown on a line
          FontByte(_)           \* the bytes of vc_font.c

VC_VRAM_SIZE == 262144
VC_CFG_BASE == 262144
VC_CFG_SIZE == 1024
VC_PAL == 512            \* the palette's offset in the settings
VC_PSRAM_BASE == 8388608
Space == 16777216        \* 24 address bits
VC_RESET_SPR_BASE == 228352
VC_RESET_TEXT_MAP == 229376
VC_RESET_FONT == 258048
VC_LAYER0 == 16
VC_LAYER_SIZE == 16

BitOf(v, i) == (v \div 2^i) % 2
Field(v, i, n) == (v \div 2^i) % 2^n

be16(p, i) == p[i] * 256 + p[i + 1]
be24(p, i) == p[i] * 65536 + p[i + 1] * 256 + p[i + 2]
s16(p, i) == IF p[i] >= 128 THEN be16(p, i) - 65536 ELSE be16(p, i)
Byte24(v) == <<v \div 65536, (v \div 256) % 256, v % 256>>

-----------------------------------------------------------------------------
(* The reset contents: xterm's colors, the font, blank text on layer 0     *)

base16 == << <<0, 0, 0>>, <<128, 0, 0>>, <<0, 128, 0>>, <<128, 128, 0>>, <<0, 0, 128>>, <<128, 0, 128>>,
             <<0, 128, 128>>, <<192, 192, 192>>, <<128, 128, 128>>, <<255, 0, 0>>, <<0, 255, 0>>, <<255, 255, 0>>,
             <<0, 0, 255>>, <<255, 0, 255>>, <<0, 255, 255>>, <<255, 255, 255>> >>
cube == <<0, 95, 135, 175, 215, 255>>

rgb565(c) == (c[1] \div 8) * 2048 + (c[2] \div 4) * 32 + (c[3] \div 8)
reset_color(i) ==
    IF i < 16 THEN rgb565(base16[i + 1])
    ELSE IF i < 232 THEN LET k == i - 16 IN rgb565(<<cube[(k \div 36) + 1], cube[((k \div 6) % 6) + 1], cube[(k % 6) + 1]>>)
    ELSE LET g == 8 + 10 * (i - 232) IN rgb565(<<g, g, g>>)

reset_setting(o) ==
    CASE o = 0 -> 1
      [] o = 3 -> 128
      [] o \in 4..6 -> Byte24(VC_RESET_SPR_BASE)[o - 3]
      [] o = VC_LAYER0 -> 36
      [] o = VC_LAYER0 + 1 -> 2
      [] o \in (VC_LAYER0 + 2)..(VC_LAYER0 + 4) -> Byte24(VC_RESET_TEXT_MAP)[o - VC_LAYER0 - 1]
      [] o \in (VC_LAYER0 + 5)..(VC_LAYER0 + 7) -> Byte24(VC_RESET_FONT)[o - VC_LAYER0 - 4]
      [] o >= VC_PAL -> LET c == reset_color((o - VC_PAL) \div 2) IN IF o % 2 = 0 THEN c \div 256 ELSE c % 256
      [] OTHER -> 0

reset_byte(a) ==
    IF a \in VC_CFG_BASE..(VC_CFG_BASE + VC_CFG_SIZE - 1) THEN reset_setting(a - VC_CFG_BASE)
    ELSE IF a \in VC_RESET_FONT..(VC_VRAM_SIZE - 1) THEN FontByte(a - VC_RESET_FONT)
    ELSE IF a \in VC_RESET_TEXT_MAP..(VC_RESET_TEXT_MAP + 16383) THEN <<32, 7, 0, 0>>[(a % 4) + 1]
    ELSE 0

IsMemory(a) == a < VC_CFG_BASE + VC_CFG_SIZE \/ a >= VC_PSRAM_BASE

vc_peek(mem, addr) == LET a == addr % Space IN IF a \in DOMAIN mem THEN mem[a] ELSE reset_byte(a)
vc_poke(mem, addr, v) == LET a == addr % Space IN IF IsMemory(a) THEN (a :> v) @@ mem ELSE mem

-----------------------------------------------------------------------------
(* Pixels of a target [addr, stride, w, h, bpp]                            *)

OnTarget(t, x, y) == x \in 0..(t.w - 1) /\ y \in 0..(t.h - 1)
PixelAddr(t, x, y) == t.addr + y * t.stride + (x * t.bpp) \div 8
Shift(bpp, x) == 8 - bpp - ((x * bpp) % 8)

pset(mem, t, x, y, col) ==
    LET a == PixelAddr(t, x, y)
        old == vc_peek(mem, a)
        s == Shift(t.bpp, x)
        kept == old - Field(old, s, t.bpp) * 2^s
    IN  IF OnTarget(t, x, y) THEN vc_poke(mem, a, kept + (col % 2^t.bpp) * 2^s) ELSE mem

pget(mem, t, x, y) == Field(vc_peek(mem, PixelAddr(t, x, y)), Shift(t.bpp, x), t.bpp)

\* pixels of one color: their order makes no difference
Paint(mem, t, pixels, col) == FoldSet(LAMBDA p, n : pset(n, t, p[1], p[2], col), mem, pixels)

hline(x0, x1, y) == {<<x, y>> : x \in (IF x0 > x1 THEN x1..x0 ELSE x0..x1)}

Abs(n) == IF n < 0 THEN -n ELSE n
Toward(a, b) == IF a < b THEN 1 ELSE -1

\* Bresenham: after the end point is reached the walk stays there
line(x0, y0, x1, y1) ==
    LET dx == Abs(x1 - x0)
        dy == -Abs(y1 - y0)
        walk[i \in 0..(dx - dy)] ==
            IF i = 0 THEN [x |-> x0, y |-> y0, err |-> dx + dy]
            ELSE LET p == walk[i - 1]
                     goX == 2 * p.err >= dy
                     goY == 2 * p.err <= dx
                 IN  IF p.x = x1 /\ p.y = y1 THEN p
                     ELSE [x |-> IF goX THEN p.x + Toward(x0, x1) ELSE p.x,
                           y |-> IF goY THEN p.y + Toward(y0, y1) ELSE p.y,
                           err |-> p.err + (IF goX THEN dy ELSE 0) + (IF goY THEN dx ELSE 0)]
    IN  {<<walk[i].x, walk[i].y>> : i \in DOMAIN walk}

\* The midpoint circle: the outline, or the rows between its sides.
circle(cx, cy, r, fill) ==
    LET arc[i \in 0..r] ==
            IF i = 0 THEN [x |-> r, y |-> 0, err |-> 1 - r]
            ELSE LET p == arc[i - 1]
                     y == p.y + 1
                 IN  IF p.err < 0 THEN [x |-> p.x, y |-> y, err |-> p.err + 2 * y + 1]
                     ELSE [x |-> p.x - 1, y |-> y, err |-> p.err + 2 * (y - (p.x - 1)) + 1]
        Octants(x, y) == {<<cx + x, cy + y>>, <<cx - x, cy + y>>, <<cx + x, cy - y>>, <<cx - x, cy - y>>,
                          <<cx + y, cy + x>>, <<cx - y, cy + x>>, <<cx + y, cy - x>>, <<cx - y, cy - x>>}
        Rows(x, y) == hline(cx - x, cx + x, cy + y) \cup hline(cx - x, cx + x, cy - y)
                      \cup hline(cx - y, cx + y, cy + x) \cup hline(cx - y, cx + y, cy - x)
    IN  UNION {IF fill THEN Rows(arc[i].x, arc[i].y) ELSE Octants(arc[i].x, arc[i].y) :
                  i \in {j \in DOMAIN arc : arc[j].x >= arc[j].y}}

\* x on an edge at row y, rounded to nearest (\div rounds down, as the code arranges)
edge_x(a, b, y) ==
    LET h == b[2] - a[2]
    IN  IF h = 0 THEN a[1] ELSE a[1] + ((y - a[2]) * (b[1] - a[1]) * 2 + h) \div (2 * h)

triangle(p, q, r) ==
    LET s1 == IF q[2] < p[2] THEN <<q, p, r>> ELSE <<p, q, r>>
        s2 == IF s1[3][2] < s1[1][2] THEN <<s1[3], s1[2], s1[1]>> ELSE s1
        s == IF s2[3][2] < s2[2][2] THEN <<s2[1], s2[3], s2[2]>> ELSE s2
    IN  UNION {hline(edge_x(s[1], s[3], y),
                     IF y < s[2][2] THEN edge_x(s[1], s[2], y) ELSE edge_x(s[2], s[3], y), y) :
                  y \in s[1][2]..s[3][2]}

rect(x, y, w, h) ==
    IF w <= 0 \/ h <= 0 THEN {}
    ELSE hline(x, x + w - 1, y) \cup hline(x, x + w - 1, y + h - 1) \cup {<<i, j>> : i \in {x, x + w - 1}, j \in y..(y + h - 1)}
fillrect(x, y, w, h) == {<<i, j>> : i \in x..(x + w - 1), j \in y..(y + h - 1)}

-----------------------------------------------------------------------------
(* Commands on a card c: its memory mem, target t, color, font, font_h     *)

k_params == <<0, 10, 1, 4, 8, 8, 8, 6, 6, 0, 9, 7, 14, 12, 4, 5>>
Params(op) == IF op < Len(k_params) THEN k_params[op + 1] ELSE 0

Drawn(c, pixels) == [c EXCEPT !.mem = Paint(@, c.t, pixels, c.color)]

set_target(c, p) ==
    LET known == p[10] \in {1, 2, 4, 8}
    IN  [c EXCEPT !.t = [addr |-> be24(p, 1), stride |-> be16(p, 4),
                         w |-> IF known THEN be16(p, 6) ELSE 0, h |-> IF known THEN be16(p, 8) ELSE 0,
                         bpp |-> IF known THEN p[10] ELSE 8]]

\* Mutant: COPY always goes from the first byte up.
CopyUpwards(mem, src, dst, len) ==
    FoldLeft(LAMBDA n, k : vc_poke(n, dst + k, vc_peek(n, src + k)), mem, [k \in 1..len |-> k - 1])
\* from the last byte back when the destination begins inside the source
copy(mem, src, dst, len) ==
    LET up == [k \in 1..len |-> k - 1]
        order == IF dst > src /\ dst < src + len THEN Reverse(up) ELSE up
    IN  FoldLeft(LAMBDA n, k : vc_poke(n, dst + k, vc_peek(n, src + k)), mem, order)

fill(mem, dst, len, v) == FoldSet(LAMBDA k, n : vc_poke(n, dst + k, v), mem, 0..(len - 1))

blit(c, p) ==
    LET from == [c.t EXCEPT !.addr = be24(p, 1), !.stride = be16(p, 4)]
        w == s16(p, 6)
        h == s16(p, 8)
        Dot(n, k) ==
            LET i == (k - 1) % w
                j == (k - 1) \div w
                v == pget(n, from, i, j)
            IN  IF p[14] % 2 = 1 /\ v = 0 THEN n ELSE pset(n, c.t, s16(p, 10) + i, s16(p, 12) + j, v)
    IN  IF w <= 0 \/ h <= 0 THEN c ELSE [c EXCEPT !.mem = FoldLeft(Dot, @, [k \in 1..(w * h) |-> k])]

\* a row of the font is read when the rows above it have been drawn
char(c, p) ==
    LET Ink(n, j) == {i \in 0..7 : BitOf(vc_peek(n, c.font + p[5] * c.font_h + j), 7 - i) = 1}
        Row(n, j) == Paint(n, c.t, {<<s16(p, 1) + i, s16(p, 3) + j>> : i \in Ink(n, j)}, c.color)
    IN  [c EXCEPT !.mem = FoldLeft(Row, @, [k \in 1..c.font_h |-> k - 1])]

run_command(c, cmd) ==
    LET op == cmd[1]
        p == Tail(cmd)
        A(i) == s16(p, 2 * i - 1)
    IN  CASE op = 1  -> set_target(c, p)
          [] op = 2  -> [c EXCEPT !.color = p[1]]
          [] op = 3  -> Drawn(c, {<<A(1), A(2)>>})
          [] op = 4  -> Drawn(c, line(A(1), A(2), A(3), A(4)))
          [] op = 5  -> Drawn(c, rect(A(1), A(2), A(3), A(4)))
          [] op = 6  -> Drawn(c, fillrect(A(1), A(2), A(3), A(4)))
          [] op \in {7, 8} -> Drawn(c, IF A(3) < 0 THEN {} ELSE circle(A(1), A(2), A(3), op = 8))
          [] op = 9  -> Drawn(c, fillrect(0, 0, c.t.w, c.t.h))
          [] op = 10 -> [c EXCEPT !.mem = copy(@, be24(p, 1), be24(p, 4), be24(p, 7))]
          [] op = 11 -> [c EXCEPT !.mem = fill(@, be24(p, 1), be24(p, 4), p[7])]
          [] op = 12 -> blit(c, p)
          [] op = 13 -> Drawn(c, triangle(<<A(1), A(2)>>, <<A(3), A(4)>>, <<A(5), A(6)>>))
          [] op = 14 -> [c EXCEPT !.font = be24(p, 1), !.font_h = IF p[4] = 0 THEN 16 ELSE p[4]]
          [] op = 15 -> char(c, p)
          [] OTHER   -> c

-----------------------------------------------------------------------------
(* The picture: palette indexes along a line, 0 for transparent            *)

vram(mem, a) == vc_peek(mem, a % VC_VRAM_SIZE)
\* the second byte of a word is the one behind it, also behind the last
vram16(mem, a) == vram(mem, a) * 256 + vc_peek(mem, (a % VC_VRAM_SIZE) + 1)
cfg(mem, o) == vc_peek(mem, VC_CFG_BASE + o)
Setting(mem, o, n) == [i \in 1..n |-> cfg(mem, o + i - 1)]
Indexed(v, pal, bpp) == IF bpp = 8 \/ v = 0 THEN v ELSE (pal * 16 + v) % 256
Scale(hires) == IF hires THEN 1 ELSE 2

\* the layer described by 16 bytes of settings
LayerOf(l) ==
    [mode |-> Field(l[1], 0, 2), scale |-> Scale(BitOf(l[1], 2) = 1), bpp |-> 2^Field(l[1], 3, 2),
     size |-> IF BitOf(l[1], 5) = 1 THEN 16 ELSE 8,
     mapw |-> 32 * 2^Field(l[2], 0, 2), maph |-> 32 * 2^Field(l[2], 2, 2),
     mapbase |-> be24(l, 3), tilebase |-> be24(l, 6), hs |-> s16(l, 9), vs |-> s16(l, 11),
     stride |-> be16(l, 13), pal |-> l[15]]

\* a pixel of a layer l, by its kind, at the place <<px, py>> of its map
text_pixel(mem, l, px, py) ==
    LET Shown(cell, glyph) == vram(mem, cell + (IF BitOf(glyph, 7 - (px % 8)) = 1 THEN 1 ELSE 2))
        At(cell) == Shown(cell, vram(mem, l.tilebase + vram(mem, cell) * l.size + (py % l.size)))
    IN  At(l.mapbase + 4 * ((py \div l.size) * l.mapw + px \div 8))

tile_pixel(mem, l, px, py) ==
    LET Flip(v, on) == IF on THEN l.size - 1 - v ELSE v
        Dot(e, at) ==
            Indexed(Field(vram(mem, l.tilebase + (e % 1024) * ((l.size * l.size * l.bpp) \div 8) + (at * l.bpp) \div 8),
                          Shift(l.bpp, at), l.bpp), e \div 4096, l.bpp)
        At(e) == Dot(e, Flip(py % l.size, BitOf(e, 11) = 1) * l.size + Flip(px % l.size, BitOf(e, 10) = 1))
    IN  At(vram16(mem, l.mapbase + 2 * ((py \div l.size) * l.mapw + px \div l.size)))

bitmap_pixel(mem, l, px, py) ==
    IF px >= 0 /\ py >= 0 /\ px < (l.stride * 8) \div l.bpp
    THEN Indexed(Field(vram(mem, l.mapbase + py * l.stride + (px * l.bpp) \div 8), Shift(l.bpp, px), l.bpp), l.pal, l.bpp)
    ELSE 0

\* a layer's pixel at its own column lx of its own line ly
LayerPixel(mem, l, lx, ly) ==
    CASE l.mode = 0 -> text_pixel(mem, l, (lx + l.hs) % (l.mapw * 8), (ly + l.vs) % (l.maph * l.size))
      [] l.mode = 1 -> tile_pixel(mem, l, (lx + l.hs) % (l.mapw * l.size), (ly + l.vs) % (l.maph * l.size))
      [] l.mode = 2 -> bitmap_pixel(mem, l, lx + l.hs, ly + l.vs)
      [] OTHER -> 0

\* a transparent pixel leaves what is behind it
Over(v, behind) == IF v # 0 THEN v ELSE behind

render_layer(mem, l, y, idx) ==
    [x \in 0..(VC_WIDTH - 1) |-> Over(LayerPixel(mem, l, x \div l.scale, y \div l.scale), idx[x])]

SpritesHires(mem) == BitOf(cfg(mem, 2), 0) = 1
Attr(mem, a) == [i \in 1..8 |-> vc_peek(mem, a + i - 1)]
Prio(at) == Field(at[7], 6, 2)

\* the place of sprite i; the table ends where the memory does
SpriteAt(base, i) == (base + 8 * i) % VC_VRAM_SIZE
SpritesUsed(base, n) == Min({n} \cup {i \in 0..(n - 1) : SpriteAt(base, i) > VC_VRAM_SIZE - 8})

Tall(at) == 8 * 2^Field(at[7], 2, 2)
\* the row of a sprite that its line sy shows
RowOf(at, sy) == IF BitOf(at[7], 5) = 1 THEN Tall(at) - 1 - (sy - s16(at, 5)) ELSE sy - s16(at, 5)
OnLine(at, sy) == Prio(at) # 0 /\ sy - s16(at, 5) \in 0..(Tall(at) - 1)

\* the sprites on a line, at most VC_MAX_LINE_SPRITES
line_sprites(mem, y) ==
    LET Table(base, n) == [k \in 1..SpritesUsed(base, n) |-> Attr(mem, SpriteAt(base, k - 1))]
        FirstOf(s) == SubSeq(s, 1, Min({Len(s), VC_MAX_LINE_SPRITES}))
        Rows(s, sy) == [k \in 1..Len(s) |-> [attr |-> s[k], row |-> RowOf(s[k], sy)]]
        On(all, sy) == Rows(FirstOf(SelectSeq(all, LAMBDA at : OnLine(at, sy))), sy)
    IN  IF BitOf(cfg(mem, 0), 3) = 0 THEN <<>>
        ELSE On(Table(be24(Setting(mem, 4, 3), 1), Min({cfg(mem, 3), 128})), y \div Scale(SpritesHires(mem)))

\* a sprite's pixel i from its left, 0 beside it
SpritePixel(mem, at, row, i) ==
    LET Dot(k, bpp) == Indexed(Field(vram(mem, be16(at, 1) * 32 + (k * bpp) \div 8), Shift(bpp, k), bpp), at[8] % 16, bpp)
        In(w) == IF i \in 0..(w - 1)
                 THEN Dot(row * w + (IF BitOf(at[7], 4) = 1 THEN w - 1 - i ELSE i), IF at[8] >= 128 THEN 8 ELSE 4)
                 ELSE 0
    IN  In(8 * 2^Field(at[7], 0, 2))

\* the line with the sprite s laid over it
WithSprite(mem, scale, s, old) ==
    [x \in 0..(VC_WIDTH - 1) |-> Over(SpritePixel(mem, s.attr, s.row, x \div scale - s16(s.attr, 3)), old[x])]

\* Mutant: the sprites are laid in the order they are in, the last on top.
SpritesForwards(mem, list, prio, idx) ==
    FoldLeft(LAMBDA old, s : WithSprite(mem, Scale(SpritesHires(mem)), s, old), idx, SelectSeq(list, LAMBDA s : Prio(s.attr) = prio))
\* backwards: the lowest-numbered sprite ends up in front
render_sprites(mem, list, prio, idx) ==
    FoldLeft(LAMBDA old, s : WithSprite(mem, Scale(SpritesHires(mem)), s, old), idx,
             SelectSeq(Reverse(list), LAMBDA s : Prio(s.attr) = prio))

\* the settings of layer n
LayerSettings(mem, n) == LayerOf(Setting(mem, VC_LAYER0 + VC_LAYER_SIZE * n, VC_LAYER_SIZE))

vc_render_line(mem, y) ==
    LET Level(list, n, idx) ==
            render_sprites(mem, list, n + 1, IF BitOf(cfg(mem, 0), n) = 1 THEN render_layer(mem, LayerSettings(mem, n), y, idx) ELSE idx)
        Levels(list) == FoldLeft(LAMBDA idx, n : Level(list, n, idx), [x \in 0..(VC_WIDTH - 1) |-> 0], <<0, 1, 2>>)
        Color(v) == be16(Setting(mem, VC_PAL + 2 * v, 2), 1)
        Colors(idx) == [x \in 0..(VC_WIDTH - 1) |-> Color(Over(idx[x], cfg(mem, 1)))]
    IN  Colors(Levels(line_sprites(mem, y)))
=============================================================================
