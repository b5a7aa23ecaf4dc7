---------------------------- MODULE ObjectStorage ----------------------------
(***************************************************************************)
(* pkg/storage: the VolumeManager that names the configured volumes, the   *)
(* Adapter that signs upload URLs for one of them, and the S3 provider     *)
(* behind it, of which only the answer to a presigned PUT matters.         *)
(*                                                                         *)
(* A volume name stands for its endpoint, region and bucket: the model     *)
(* assumes that a restart may change the credentials of a volume, or drop  *)
(* it, and never points its name at another bucket.                        *)
(***************************************************************************)
EXTENDS Naturals

CONSTANTS
    AccessKey, SecretKey,  \* the credentials the provider knows
    NoKey,                 \* a credential that is not configured
    PresignLifetime        \* how long a presigned request is honoured

ASSUME PresignLifetimeAssumption == PresignLifetime \in Nat \ {0}

VARIABLE objects           \* the stored objects, by volume and key

-----------------------------------------------------------------------------

CredentialKeys == {AccessKey, SecretKey, NoKey}

\* The part of VolumeConfig a signature depends on.
VolumeConfig == [accessKey: CredentialKeys, secretKey: CredentialKeys]

Adapter == [accessKey: CredentialKeys, secretKey: CredentialKeys]

NewAdapter(accessKey, secretKey) ==
    [accessKey |-> accessKey, secretKey |-> secretKey]

\* RegisterVolume hands NewAdapter the secret key first.
RegisterVolume(volume) == NewAdapter(volume.secretKey, volume.accessKey)

\* The registry GetVolumeManager fills from the configured volumes; GetAdapter
\* answers ErrVolumeNameNotRegistered for a name outside its domain.
VolumeManager(volumes) == [name \in DOMAIN volumes |-> RegisterVolume(volumes[name])]

-----------------------------------------------------------------------------

(***************************************************************************)
(* CreatePresignedUploadURL.  Signing needs both credentials.  The request *)
(* names the object and the optional headers that are set, and the         *)
(* signature covers them; the action's Expiration is not handed to the     *)
(* presigner, whose own default lifetime starts when it signs.             *)
(***************************************************************************)
Headers == {"content-type", "content-length", "if-none-match"}

Presignable(adapter) == adapter.accessKey # NoKey /\ adapter.secretKey # NoKey

PresignedPut_Overwrites(adapter, doc, t) ==
    [volume |-> doc.volume, key |-> doc.key, mimeType |-> doc.mimeType,
     size |-> doc.size, signed |-> Headers \ {"if-none-match"},
     signedBy |-> adapter, signedAt |-> t]

PresignedPut_AnyType(adapter, doc, t) ==
    [volume |-> doc.volume, key |-> doc.key, mimeType |-> doc.mimeType,
     size |-> doc.size, signed |-> Headers \ {"content-type"},
     signedBy |-> adapter, signedAt |-> t]

PresignedPut(adapter, doc, t) ==
    [volume |-> doc.volume, key |-> doc.key, mimeType |-> doc.mimeType,
     size |-> doc.size, signed |-> Headers, signedBy |-> adapter, signedAt |-> t]

-----------------------------------------------------------------------------

(***************************************************************************)
(* The provider (external): a PUT through a presigned URL is taken when    *)
(* the signature is the account's, has not expired, covers the headers of  *)
(* the upload, and If-None-Match: * finds no object.                       *)
(***************************************************************************)
Location(url) == <<url.volume, url.key>>

PutAccepted(url, file, t) ==
    /\ url.signedBy = [accessKey |-> AccessKey, secretKey |-> SecretKey]
    /\ t < url.signedAt + PresignLifetime
    /\ "content-type" \in url.signed => file.mimeType = url.mimeType
    /\ "content-length" \in url.signed => file.size = url.size
    /\ "if-none-match" \in url.signed => Location(url) \notin DOMAIN objects

PutObject(url, file) ==
    objects' = [l \in DOMAIN objects \cup {Location(url)} |->
                   IF l = Location(url) THEN file ELSE objects[l]]

=============================================================================
