-------------------------- MODULE MCKateEventLife --------------------------
(* KateEventLife for TLC: two trackers, packets that differ in what they     *)
(* allocate and in what a tracker can see of them.                           *)
EXTENDS KateEventLife

CONSTANTS t1, t2

Plain == [parts |-> <<"text">>, region |-> FALSE, style |-> FALSE,
          regionStyle |-> FALSE, style2 |-> FALSE, pictures |-> FALSE,
          duration |-> 1, motions |-> <<>>, warped |-> 0]

(* Inline motions, styles and metadata; the external alignment and the       *)
(* pointer have a place only at time 0, where time is led from 2.            *)
Moving == [parts |-> <<"text", "motions", "motion", "curves", "durations",
                       "curve", "points", "motion_meta", "style", "font",
                       "style_meta", "style2", "font2", "style2_meta">>,
           region |-> FALSE, style |-> TRUE, regionStyle |-> FALSE,
           style2 |-> TRUE, pictures |-> TRUE, duration |-> 2,
           motions |-> [time |-> {2}, align_ext |-> {0}, align_int |-> {0, 1},
                        style_morph |-> {1}, glyph_pointer |-> {0},
                        glyph_pointer_bitmap |-> {0, 1}, text_path |-> {0}],
           warped |-> 0]

(* Inline region, palette and bitmaps; the motion outlasts the event.        *)
Pictured == [parts |-> <<"text", "language", "region", "region_meta",
                         "palette", "colors", "palette_meta", "bitmap",
                         "pixels", "bitmap_meta", "bitmaps", "image",
                         "image_pixels", "image_meta", "meta">>,
             region |-> TRUE, style |-> FALSE, regionStyle |-> TRUE,
             style2 |-> FALSE, pictures |-> FALSE, duration |-> 1,
             motions |-> [z |-> {0, 1, 2}, region_pos |-> {1},
                          marker_pos |-> {1}, marker_bitmap |-> {1},
                          visible_section |-> {0}, text_color |-> {0}],
             warped |-> 0]

const_Contents == {Plain, Moving, Pictured}
const_Promises == {"trackers first"}
=============================================================================
