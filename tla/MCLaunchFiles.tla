--------------------------- MODULE MCLaunchFiles ---------------------------
(* Command lines for LaunchFiles. *)
EXTENDS LaunchFiles

CONSTANTS Named, Option

CommandLines == {<<>>, <<Default, Option>>, <<Named, Option>>}
=============================================================================
