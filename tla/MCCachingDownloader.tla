------------------------ MODULE MCCachingDownloader ------------------------
(* Two lists in a circle: a includes b twice, b includes a and itself.     *)
EXTENDS CachingDownloader, TLC

CONSTANTS a, b

CircularIncludes == (a :> <<b, b>>) @@ (b :> <<a, b>>)
=============================================================================
