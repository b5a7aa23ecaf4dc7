------------------------------ MODULE MCServer ------------------------------
(***************************************************************************)
(* Three clients and a pool of two connections: one request waits while    *)
(* the others hold what there is.  The starts: from a complete file, from  *)
(* the file as the repository has it, with the URL on the command line and *)
(* one volume that has no settings; and what is refused, at each stage.    *)
(***************************************************************************)
EXTENDS Server

CompleteFile ==
  [databaseUrl |-> "url", volumesAreText |-> FALSE, volumes |-> [default |-> VolumeConfig]]

\* config.yaml: the server starts with it, and has no credentials.
ShippedFile ==
  [databaseUrl |-> "url", volumesAreText |-> FALSE,
   volumes |-> [default |-> {"endpoint", "region", "bucket", "accessKey", "secretKey"}]]

PartialFile ==
  [databaseUrl |-> Unset, volumesAreText |-> FALSE,
   volumes |-> [default |-> VolumeConfig, archive |-> {}]]

Refused ==
  {[flag |-> Unset, env |-> Unset, file |-> NoFile],
   [flag |-> "url", env |-> Unset, file |-> NoFile],
   [flag |-> "", env |-> "url", file |-> CompleteFile],
   [flag |-> Unset, env |-> "malformed", file |-> CompleteFile],
   [flag |-> Unset, env |-> Unset, file |-> PartialFile],
   [flag |-> Unset, env |-> Unset, file |-> [CompleteFile EXCEPT !.volumesAreText = TRUE]],
   [flag |-> Unset, env |-> Unset, file |-> [CompleteFile EXCEPT !.volumes = [archive |-> {}]]]}

MCSources ==
  {[flag |-> Unset, env |-> "", file |-> CompleteFile],
   [flag |-> Unset, env |-> Unset, file |-> ShippedFile],
   [flag |-> "url", env |-> "malformed", file |-> PartialFile]} \cup Refused
=============================================================================
