------------------------------ MODULE MCPaging ------------------------------
(***************************************************************************)
(* Every method of the table but three: user_videos_v1 and                 *)
(* media_comments_v1 do not end with a server in order, and                *)
(* iter_hashtag_medias loses items behind its page size.                   *)
(***************************************************************************)
EXTENDS Paging

MCMethods == Dependable
=============================================================================
