-------------------------------- MODULE Rasters --------------------------------
(* The pixels the renderer keeps (render.c): text, images, shapes and the      *)
(* rectangles a path cuts are drawn into a buffer of device pixels, drawn      *)
(* again only if one of its keys changed, and cropped to what is visible.      *)
(* Shadows share tiles, counted by use.                                        *)
(*                                                                             *)
(* One leaf, in one dimension: its box begins at x and is w wide, in logical   *)
(* pixels; it is visible up to an end.  Scales are counted in halves.  look is *)
(* all that is compared byte by byte: words, colors, fonts, sources.           *)
EXTENDS Integers, FiniteSets, FiniteSetsExt

CONSTANTS X, W,    \* where boxes begin, how wide they are
          Look,    \* contents
          Path,    \* where the paths of a host begin, none of them being NoPath
          NoPath,
          Scale,   \* an output's scales, in halves
          Shadow,  \* leaves that are shadows
          Style,   \* their styles
          NoRaster

Kinds == {"text", "image", "stretch", "shape", "rectangle"}
LeafCommand == [kind : Kinds, x : X, w : W, end : {1, 2}, look : Look, path : Path \cup {NoPath}]

(* Positions and scales are numbers, and NoRaster is nothing that is kept.     *)
ASSUME RasterAssumption ==
    /\ X \cup W \cup Path \subseteq Int /\ 2 \in Scale /\ Scale \subseteq Nat \ {0}
    /\ NoPath \notin Path /\ IsFiniteSet(Shadow)
    /\ NoRaster \notin LeafCommand \cup (Style \X Scale)
    /\ NoRaster \notin [look : Look, scale : Scale, path : Int \cup {NoPath},
                       ellipsis : Int, size : Int]

VARIABLES
    scale,   \* rs->scale
    leaf,    \* the leaf's command, NoRaster without one
    kept,    \* what its rnode keeps: the command and scale of its last pass
    raster,  \* what its buffer was drawn from, NoRaster without a buffer
    crop,    \* the part of the buffer that is shown
    style,   \* [Shadow -> its rnode's style and scale, or NoRaster]
    tiles,   \* rs->shadows: [style and scale -> refs]
    bytes    \* rs->raster_bytes, a buffer and the tiles of a style count one each
rasterVars == <<scale, leaf, kept, raster, crop, style, tiles, bytes>>

-----------------------------------------------------------------------------
(* Device pixels: the difference of rounded edges.                             *)
Device(p)         == (p * scale + 1) \div 2
device_len(o, l)  == Device(o + l) - Device(o)
Least(a, b)       == IF a < b THEN a ELSE b

(* What is visible: up to its end, at least a pixel of it.                     *)
Visible(c) == Least(c.end, c.w)

(* A run that is cut off ends in an ellipsis, which a crop cannot show.        *)
text_ellipsis_width(c) ==
    LET bound == (Visible(c) * scale + 1) \div 2  natural == (c.w * scale + 1) \div 2
    IN IF c.kind = "text" /\ bound < natural THEN bound ELSE 0

(* A path is drawn in pixels of the buffer it cuts.                            *)
PathIn(c) == IF c.path = NoPath THEN NoPath ELSE device_len(c.x, c.path - c.x)

(* What the pixels are made of; a stretched image is kept at its own size.     *)
Pixels(c, size, ellipsis) ==
    [look |-> c.look, scale |-> scale, path |-> PathIn(c), ellipsis |-> ellipsis, size |-> size]
rasterize_text(c)  == Pixels(c, device_len(c.x, c.w), text_ellipsis_width(c))
rasterize_image(c) == Pixels(c, IF c.kind = "stretch" THEN 0 ELSE device_len(c.x, c.w), 0)
rasterize_shape(c) == Pixels(c, device_len(c.x, c.w), 0)
rasterize_rect(c)  == Pixels(c, device_len(c.x, c.w), 0)

(* Of a buffer, the part that lies in the visible box; a stretched one's pixels *)
(* are mapped to those of the box.                                             *)
Cropped(c) ==
    IF Visible(c) = c.w THEN <<"all", c.w>>
    ELSE <<device_len(c.x, Visible(c)), device_len(c.x, c.w), Visible(c)>>

IsRaster(c) == c.kind # "rectangle" \/ c.path # NoPath

-----------------------------------------------------------------------------
(* Equal in logical pixels, and in device pixels where they are now.           *)
raster_size_equal(c) ==
    /\ kept.command.w = c.w
    /\ device_len(kept.command.x, kept.command.w) = device_len(c.x, c.w)

path_masks_changed(c) ==
    kept.command.path # c.path \/ (c.path # NoPath /\ kept.command.x # c.x)

(* What is compared for each kind.                                             *)
Stale(c) == kept.scale # scale \/ kept.command.look # c.look \/ path_masks_changed(c)

(* The crop is set with each new buffer, and as a box or its clip changes.     *)
Recrops(c) == kept.command.x # c.x \/ kept.command.w # c.w \/ Visible(kept.command) # Visible(c)

(* A pass over the leaf.  Its command keeps its kind, for that is in its key;  *)
(* but a rectangle that a path begins or ceases to cut is made anew.           *)
FreshRaster(c) == leaf = NoRaster \/ IsRaster(leaf) # IsRaster(c)
Shows(c, draws, pixels) ==
    /\ leaf # NoRaster => leaf.kind = c.kind
    /\ leaf' = c
    /\ raster' = IF draws THEN pixels ELSE raster
    /\ crop' = IF draws \/ Recrops(c) THEN Cropped(c) ELSE crop
    /\ kept' = [command |-> c, ellipsis |-> text_ellipsis_width(c),
                scale |-> IF draws THEN scale ELSE kept.scale]
    /\ bytes' = bytes + (IF raster = NoRaster THEN 1 ELSE 0)
    /\ UNCHANGED <<scale, style, tiles>>

reconcile_text(c) ==
    /\ c.kind = "text"
    /\ Shows(c, \/ FreshRaster(c) \/ Stale(c) \/ ~raster_size_equal(c)
                \/ kept.ellipsis # text_ellipsis_width(c), rasterize_text(c))

(* A stretched image is not drawn again for another size.                      *)
reconcile_image(c) ==
    /\ c.kind \in {"image", "stretch"}
    /\ Shows(c, FreshRaster(c) \/ Stale(c) \/ (c.kind = "image" /\ ~raster_size_equal(c)),
             rasterize_image(c))

reconcile_shape(c) ==
    /\ c.kind = "shape"
    /\ Shows(c, FreshRaster(c) \/ Stale(c) \/ ~raster_size_equal(c), rasterize_shape(c))

(* Of a rectangle, the part that no path cuts away.                            *)
reconcile_rect_raster(c) ==
    /\ c.kind = "rectangle" /\ c.path # NoPath
    /\ Shows(c, FreshRaster(c) \/ Stale(c) \/ ~raster_size_equal(c), rasterize_rect(c))
reconcile_rectangle(c) ==
    /\ c.kind = "rectangle" /\ c.path = NoPath
    /\ leaf # NoRaster => leaf.kind = c.kind
    /\ leaf' = c /\ raster' = NoRaster /\ crop' = NoRaster
    /\ kept' = [command |-> c, ellipsis |-> 0, scale |-> IF FreshRaster(c) THEN 0 ELSE kept.scale]
    /\ bytes' = bytes - (IF raster = NoRaster THEN 0 ELSE 1)
    /\ UNCHANGED <<scale, style, tiles>>

rnode_remove ==
    /\ leaf # NoRaster
    /\ leaf' = NoRaster /\ raster' = NoRaster /\ crop' = NoRaster /\ kept' = NoRaster
    /\ bytes' = bytes - (IF raster = NoRaster THEN 0 ELSE 1)
    /\ UNCHANGED <<scale, style, tiles>>

-----------------------------------------------------------------------------
(* Shadows: tiles are found by style and scale, and dropped with their last    *)
(* user.                                                                       *)
TilesGot(cache, t) ==
    IF t \in DOMAIN cache THEN [cache EXCEPT ![t] = @ + 1]
    ELSE [u \in DOMAIN cache \cup {t} |-> IF u = t THEN 1 ELSE cache[u]]
TilesDropped(cache, t) ==
    IF t = NoRaster THEN cache
    ELSE IF cache[t] = 1 THEN [u \in DOMAIN cache \ {t} |-> cache[u]]
    ELSE [cache EXCEPT ![t] = @ - 1]

(* The new tiles are taken before the old ones are let go.                     *)
reconcile_shadow(s, v) ==
    LET t == <<v, scale>>
    IN /\ style[s] # t
       /\ tiles' = TilesDropped(TilesGot(tiles, t), style[s])
       /\ style' = [style EXCEPT ![s] = t]
       /\ bytes' = bytes + Cardinality(DOMAIN tiles') - Cardinality(DOMAIN tiles)
       /\ UNCHANGED <<scale, leaf, kept, raster, crop>>

sweep_shadow(s) ==
    /\ style[s] # NoRaster
    /\ tiles' = TilesDropped(tiles, style[s]) /\ style' = [style EXCEPT ![s] = NoRaster]
    /\ bytes' = bytes + Cardinality(DOMAIN tiles') - Cardinality(DOMAIN tiles)
    /\ UNCHANGED <<scale, leaf, kept, raster, crop>>

(* The output's scale changes; the next pass is still to come.                 *)
render_set_scale(v) ==
    /\ v # scale /\ scale' = v
    /\ UNCHANGED <<leaf, kept, raster, crop, style, tiles, bytes>>

RasterInit ==
    /\ scale = 2 /\ leaf = NoRaster /\ kept = NoRaster /\ raster = NoRaster /\ crop = NoRaster
    /\ style = [s \in Shadow |-> NoRaster] /\ tiles = [x \in {} |-> x] /\ bytes = 0

RasterNext ==
    \/ \E c \in LeafCommand :
          reconcile_text(c) \/ reconcile_image(c) \/ reconcile_shape(c)
          \/ reconcile_rect_raster(c) \/ reconcile_rectangle(c)
    \/ rnode_remove
    \/ \E s \in Shadow : sweep_shadow(s) \/ \E v \in Style : reconcile_shadow(s, v)
    \/ \E v \in Scale : render_set_scale(v)

RasterSpec == RasterInit /\ [][RasterNext]_rasterVars

-----------------------------------------------------------------------------
RasterTypeOK ==
    /\ scale \in Scale /\ leaf \in LeafCommand \cup {NoRaster} /\ bytes \in Nat
    /\ (leaf = NoRaster) = (kept = NoRaster)
    /\ style \in [Shadow -> (Style \X Scale) \cup {NoRaster}]
    /\ DOMAIN tiles \subseteq Style \X Scale /\ \A t \in DOMAIN tiles : tiles[t] \in Nat \ {0}

(* After a pass at the scale that is set, what is shown is what would be drawn *)
(* from nothing: no key is missing, whatever changed before.                   *)
PixelsAreCurrent ==
    leaf # NoRaster /\ IsRaster(leaf) /\ kept.scale = scale
        => /\ crop = Cropped(leaf)
           /\ raster = CASE leaf.kind = "text" -> rasterize_text(leaf)
                         [] leaf.kind = "shape" -> rasterize_shape(leaf)
                         [] leaf.kind = "rectangle" -> rasterize_rect(leaf)
                         [] OTHER -> rasterize_image(leaf)

(* Tiles live as long as a shadow shows them, and every byte is counted.       *)
TilesAreCounted ==
    /\ DOMAIN tiles = {style[s] : s \in Shadow} \ {NoRaster}
    /\ \A t \in DOMAIN tiles : tiles[t] = Cardinality({s \in Shadow : style[s] = t})
    /\ bytes = Cardinality(DOMAIN tiles) + (IF raster = NoRaster THEN 0 ELSE 1)
=============================================================================
