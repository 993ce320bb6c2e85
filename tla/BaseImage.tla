------------------------------ MODULE BaseImage ------------------------------
(***************************************************************************)
(* Which bootc base image a host is mapped to: the pure half of            *)
(* baseline.py. A version is the sequence of its numbers, <<>> when the    *)
(* host or the command line gives none.                                    *)
(***************************************************************************)
EXTENDS Naturals, Sequences

CONSTANT NoImage

\* Python's order on lists of numbers.
Before(v, w) ==
    \E n \in 0..Len(v) :
        /\ n < Len(w)
        /\ \A i \in 1..n : v[i] = w[i]
        /\ n < Len(v) => v[n + 1] < w[n + 1]

\* _RHEL_BOOTC_MIN, _FEDORA_BOOTC_MIN
RhelMinimum   == [m \in {9, 10} |-> IF m = 9 THEN <<9, 6>> ELSE <<10, 0>>]
FedoraMinimum == <<41>>
StreamMajors  == {9, 10}

ClampVersion(v, minimum) == IF v = <<>> \/ Before(v, minimum) THEN minimum ELSE v

RhelImage(major, tag) == [repo |-> <<"rhel-bootc", major>>, tag |-> tag]
StreamImage(major)    == [repo |-> <<"centos-bootc", major>>, tag |-> <<major>>]
FedoraImage(tag)      == [repo |-> <<"fedora-bootc", 0>>, tag |-> tag]

\* registry.redhat.io; every other registry is public.
NeedsLogin(image) == image.repo[1] = "rhel-bootc"

HasVersion(os) == os.version # <<>>
Major(os) == os.version[1]

\* --target-version, if there is one.
Wanted(target, default) == IF target # <<>> THEN target ELSE default

SelectBaseImage(os, target) ==
    CASE os.id = "rhel" /\ HasVersion(os) /\ Major(os) \in DOMAIN RhelMinimum ->
            RhelImage(Major(os), ClampVersion(Wanted(target, os.version), RhelMinimum[Major(os)]))
      [] os.id = "centos" /\ HasVersion(os) /\ Major(os) \in StreamMajors ->
            StreamImage(Major(os))
      [] os.id = "fedora" /\ HasVersion(os) ->
            FedoraImage(ClampVersion(Wanted(target, <<Major(os)>>), FedoraMinimum))
      [] OTHER -> NoImage

DefaultFallbackImage == RhelImage(9, <<9, 6>>)

\* base_image_for_snapshot(): the FROM line. recorded is what the rpm
\* section names, if there is an rpm section.
BaseImageForSnapshot(recorded, os) ==
    CASE recorded # NoImage -> recorded
      [] recorded = NoImage /\ SelectBaseImage(os, <<>>) # NoImage -> SelectBaseImage(os, <<>>)
      [] OTHER -> DefaultFallbackImage

\* _validate_supported_host()
Supported(os) ==
    (HasVersion(os) /\ os.id \in {"rhel", "centos"}) => Major(os) \in {9, 10}
=============================================================================
