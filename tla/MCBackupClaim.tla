---------------------------- MODULE MCBackupClaim ----------------------------
(* Small instances of the backup claim: nfs shares volumes, disk does not. *)
EXTENDS BackupClaim

Claim(class, modes, size) == [on |-> TRUE, modes |-> modes, class |-> class, size |-> size]

NoBackup == [on |-> FALSE, modes |-> {}, class |-> "unset", size |-> 0]

NfsAndDisk == {<<"nfs", "ReadWriteMany">>, <<"nfs", "ReadWriteOnce">>, <<"disk", "ReadWriteOnce">>}

NamedClasses ==
  {NoBackup, Claim("nfs", {}, 1), Claim("nfs", {}, 2), Claim("disk", {}, 1), Claim("disk", {"ReadWriteOnce"}, 1)}
=============================================================================
