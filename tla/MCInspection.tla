---------------------------- MODULE MCInspection ----------------------------
(* A RHEL 9.4 host, a CentOS Stream host, one without os-release and one   *)
(* of a release that is not supported; command lines with one option, and  *)
(* the pairs that meet.                                                    *)
EXTENDS Inspection

MCHosts ==
    {[id |-> "rhel", version |-> <<9, 4>>],
     [id |-> "centos", version |-> <<10>>],
     [id |-> "almalinux", version |-> <<9, 4>>],
     [id |-> "rhel", version |-> <<8, 10>>],
     [id |-> "", version |-> <<>>]}

Default == [file |-> "none", image |-> NoImage, version |-> <<>>, noBaseline |-> FALSE]
Custom  == RhelImage(10, <<10, 2>>)

MCCommandLines ==
    {Default,
     [Default EXCEPT !.noBaseline = TRUE],
     [Default EXCEPT !.file = "good"],
     [Default EXCEPT !.file = "bad"],
     [Default EXCEPT !.version = <<9, 8>>],
     [Default EXCEPT !.image = Custom],
     [Default EXCEPT !.image = Custom, !.noBaseline = TRUE],
     [Default EXCEPT !.image = Custom, !.file = "bad"]}

MCSections == <<"config", "service">>
=============================================================================
